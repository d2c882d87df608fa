---------------------------- MODULE WalletProofs ----------------------------
(***************************************************************************)
(* What holds of WalletSync for every set of customers, phones and passes, *)
(* every number of attempts and movements, and every clock.                *)
(*                                                                         *)
(* AppleInSync is not inductive.  A card that is behind may be so because  *)
(* a push is on its way, because the phone was woken and has not asked, or *)
(* because it asked and has not fetched; DueInv and PushInv say that one   *)
(* of these holds, OpenInv and DatesInv that a bump which commits gives    *)
(* its pass a date the phone has not passed, or is overtaken there.        *)
(* GoogleInSync needs the snapshot on its way to be the balance            *)
(* (SnapshotsInv) and nobody else to write the object (AloneInv).          *)
(***************************************************************************)
EXTENDS WalletSync, FiniteSetTheorems, SequenceTheorems, TLAPS

\* What a card shows once what is being fetched is on it.
Known(d, c) == IF phone[d].fetching = c THEN phone[d].fetched ELSE phone[d].shown[c]

\* The card shows n, or its phone is going to fetch what does.
Coming(d, c, n) == Known(d, c) >= n \/ c \in phone[d].wants

\* The phone will be told of the pass when it asks.
Newer(d, c) == registered[d][c] # 0 /\ updatedAt[c] > phone[d].since

Waiting(j) == jobs[j].apple \in {"begun", "bumped"}

Pushed(j, d, c) == jobs[j].push[d][c] # NoPush

----------------------------------------------------------------------------
(* The inductive invariant.                                                *)

\* Movements and promotions are numbered by their jobs, a phone is given each
\* token by a change of its own, and a bump that has a date is no longer
\* scheduled.
CountsInv ==
    /\ promo <= Len(jobs) /\ \A c \in Customers : balance[c] <= Len(jobs)
    /\ \A d \in Devices : phone[d].token <= phone[d].changes + 1
    /\ clock <= Cardinality({j \in DOMAIN jobs : jobs[j].apple # "scheduled"})

\* A job is about what has committed by then.
JobsInv ==
    \A j \in DOMAIN jobs :
        /\ \A c \in Passes(j) : Content(c) >= j
        /\ \A d \in Devices, c \in ApplePasses : Pushed(j, d, c) =>
              c \in Passes(j) /\ jobs[j].apple \in {"bumped", "pushing"}

\* What is on its way to Google is no older than the job, and no newer than
\* the balance.
SnapshotsInv ==
    \A j \in DOMAIN jobs :
        /\ jobs[j].alone => jobs[j].google # "over"
        /\ jobs[j].google # "over" => jobs[j].customer \in GooglePasses /\ balance[jobs[j].customer] >= j
        /\ jobs[j].google \in {"inserting", "patching"} =>
              jobs[j].snapshot \in j .. balance[jobs[j].customer]

\* A phone fetches the cards it has, and has nothing that is not there.
PhonesInv ==
    \A d \in Devices, c \in ApplePasses :
        /\ c \in phone[d].wants => phone[d].shown[c] # Absent
        /\ phone[d].fetching = c =>
              /\ phone[d].shown[c] # Absent
              /\ phone[d].shown[c] <= phone[d].fetched /\ phone[d].fetched <= Content(c)
        /\ phone[d].shown[c] <= Content(c)
        /\ due[d][c] <= Content(c)

\* Dates are in the past; two open bumps differ in theirs; and while one that
\* is not overtaken on a pass is open, no other pass has a later one.
DatesInv ==
    /\ \A c \in ApplePasses : updatedAt[c] <= clock
    /\ \A d \in Devices : phone[d].since <= clock
    /\ \A j \in DOMAIN jobs : Waiting(j) =>
         /\ jobs[j].started <= clock
         /\ \A k \in DOMAIN jobs : Waiting(k) /\ jobs[k].started = jobs[j].started => k = j
         /\ \A c \in Passes(j) \ jobs[j].overtaken : \A b \in ApplePasses \ {c} :
              updatedAt[b] < jobs[j].started

\* What a phone was woken for it shows, fetches, or will be told of.
DueInv ==
    \A d \in Devices, c \in ApplePasses :
        phone[d].shown[c] # Absent =>
            Coming(d, c, due[d][c]) \/ (phone[d].alerted /\ Newer(d, c))

\* What an open bump will date is news to every phone that does not know it.
OpenInv ==
    \A j \in DOMAIN jobs, d \in Devices : Waiting(j) =>
        \A c \in Passes(j) \ jobs[j].overtaken :
            /\ phone[d].shown[c] # Absent => jobs[j].started > phone[d].since \/ Coming(d, c, j)
            /\ phone[d].shown[c] # Absent /\ Pushed(j, d, c) => registered[d][c] # 0 \/ Coming(d, c, j)

\* So is what a push that is under way is about.
PushInv ==
    \A j \in DOMAIN jobs, d \in Devices : jobs[j].apple = "pushing" =>
        \A c \in Passes(j) \ jobs[j].overtaken :
            phone[d].shown[c] # Absent /\ Pushed(j, d, c) => Newer(d, c) \/ Coming(d, c, j)

\* Of notifications that nobody overlaps, those of a customer's last movement
\* leave the others over.
AloneInv ==
    \A j \in DOMAIN jobs :
        jobs[j].alone /\ balance[jobs[j].customer] = j =>
            \A k \in DOMAIN jobs \ {j} : jobs[k].customer = jobs[j].customer => GoogleOver(k)

\* What is invariant of the phones and the pushes, and of the calls to Google.
AppleInv == TypeOK /\ CountsInv /\ JobsInv /\ PhonesInv /\ DatesInv /\ DueInv /\ OpenInv /\ PushInv
GoogleInv == SnapshotsInv /\ AloneInv /\ GoogleInSync

----------------------------------------------------------------------------
(* Numbers and sequences.                                                  *)

LEMMA ConstantTypes ==
    /\ Attempts \in Nat \ {0} /\ TicksPerMs \in Nat \ {0} /\ MaxMoves \in Nat \ {0}
    /\ MaxPromos \in Nat /\ MaxChanges \in Nat /\ None \notin Customers
    /\ ApplePasses \subseteq Customers /\ GooglePasses \subseteq Customers /\ Movers \subseteq Customers
BY BoundsAssumption, PassesAssumption

LEMMA MaxPair ==
    ASSUME NEW a \in Int, NEW b \in Int
    PROVE  Max({a, b}) = IF a >= b THEN a ELSE b
<1>1. CASE a >= b
  <2>1. \A x \in {a, b} : (\A y \in {a, b} : x >= y) <=> x = a
    BY <1>1
  <2> QED
    BY <1>1, <2>1 DEF Max
<1>2. CASE ~(a >= b)
  <2>1. \A x \in {a, b} : (\A y \in {a, b} : x >= y) <=> x = b
    BY <1>2
  <2> QED
    BY <1>2, <2>1 DEF Max
<1> QED
  BY <1>1, <1>2

\* A set of numbers below n has a greatest one: the intervals above them are
\* ordered by inclusion, which is well-founded on finite sets.
LEMMA Greatest ==
    ASSUME NEW n \in Nat, NEW S \in SUBSET (0..n), S # {}
    PROVE  Max(S) \in S /\ \A k \in S : k <= Max(S)
<1> DEFINE above == {m..n : m \in S}
<1>1. above \subseteq FiniteSubsetsOf(Nat) /\ above # {}
  <2> SUFFICES ASSUME NEW m \in S PROVE m..n \in FiniteSubsetsOf(Nat)
    OBVIOUS
  <2>1. IsFiniteSet(m..n)
    BY FS_Interval
  <2>2. m..n \subseteq Nat
    OBVIOUS
  <2> QED
    BY <2>1, <2>2 DEF FiniteSubsetsOf
<1>2. PICK T \in above : \A U \in above : <<U, T>> \notin StrictSubsetOrdering(Nat)
  <2>1. IsWellFoundedOn(StrictSubsetOrdering(Nat), FiniteSubsetsOf(Nat))
    BY FS_StrictSubsetOrderingWellFounded
  <2> HIDE DEF above
  <2> QED
    BY <1>1, <2>1, WFMin
<1>3. PICK m \in S : T = m..n
  OBVIOUS
<1>4. ASSUME NEW k \in S, k > m PROVE FALSE
  <2>1. k..n \in above /\ k..n \subseteq Nat /\ m..n \subseteq Nat
    OBVIOUS
  <2>2. k..n \subseteq m..n
    BY <1>4
  <2>3. m \in m..n /\ m \notin k..n
    BY <1>4
  <2>4. <<k..n, m..n>> \in StrictSubsetOrdering(Nat)
    BY <2>1, <2>2, <2>3, Zenon DEF StrictSubsetOrdering
  <2> QED
    BY <1>2, <1>3, <2>1, <2>4
<1>5. m \in S /\ \A k \in S : m >= k
  BY <1>4
<1> QED
  BY <1>5 DEF Max

LEMMA TruncatedBelow ==
    ASSUME NEW t \in Nat
    PROVE  Truncated(t) \in 0..t
BY ConstantTypes DEF Truncated

\* A list of jobs.
LEMMA JobsList ==
    ASSUME NEW n \in Nat, NEW f \in [1..n -> Job]
    PROVE  f \in Seq(Job) /\ Len(f) = n /\ DOMAIN f = 1..n
BY IsASeq, LenProperties

LEMMA JobsAre ==
    ASSUME TypeOK
    PROVE  /\ Len(jobs) \in 0..MaxMoves /\ DOMAIN jobs = 1..Len(jobs)
           /\ jobs \in [1..Len(jobs) -> Job]
           /\ \A j \in DOMAIN jobs : j \in Nat /\ j <= MaxMoves /\ jobs[j] \in Job
BY ConstantTypes, LenProperties, ElementOfSeq DEF TypeOK

LEMMA JobTurns ==
    ASSUME TypeOK, NEW j \in DOMAIN jobs, NEW x \in Job, jobs' = [jobs EXCEPT ![j] = x]
    PROVE  /\ jobs' \in Seq(Job) /\ Len(jobs') = Len(jobs) /\ DOMAIN jobs' = DOMAIN jobs
           /\ jobs'[j] = x /\ \A k \in DOMAIN jobs : k # j => jobs'[k] = jobs[k]
<1>1. jobs' \in [1..Len(jobs) -> Job]
  BY JobsAre
<1> QED
  BY <1>1, JobsAre, JobsList

LEMMA ContentIs ==
    ASSUME TypeOK, NEW c \in Customers
    PROVE  /\ Content(c) \in Versions
           /\ Content(c) = IF balance[c] >= promo THEN balance[c] ELSE promo
<1>1. balance[c] \in Int /\ promo \in Int /\ balance[c] \in Versions /\ promo \in Versions
  BY ConstantTypes DEF TypeOK, Versions
<1>2. Content(c) = IF balance[c] >= promo THEN balance[c] ELSE promo
  BY <1>1, MaxPair DEF Content
<1> QED
  BY <1>1, <1>2

----------------------------------------------------------------------------
(* What a step makes of a job.                                             *)

\* Its Apple part stays, or drops pushes, or is over.
Calm(j, x) ==
    /\ x \in Job /\ x.customer = jobs[j].customer
    /\ x.apple = jobs[j].apple \/ x.apple = "over"
    /\ x.apple # "over" =>
         /\ x.started = jobs[j].started /\ x.overtaken = jobs[j].overtaken
         /\ \A d \in Devices, c \in ApplePasses : x.push[d][c] # NoPush => Pushed(j, d, c)
    /\ x.apple = "over" => \A d \in Devices, c \in ApplePasses : x.push[d][c] = NoPush

\* Its Google part stays, or is given up.
Googles(j, x) ==
    \/ /\ x.google = jobs[j].google /\ x.snapshot = jobs[j].snapshot
       /\ x.alone = jobs[j].alone /\ x.attempt = jobs[j].attempt
    \/ x.google = "over" /\ ~x.alone

Turns(j, x) == jobs' = [jobs EXCEPT ![j] = x]

LEMMA NoPushType ==
    /\ NoPush \in Push /\ NoPushes \in [Devices -> [ApplePasses -> Push]]
    /\ \A d \in Devices, c \in ApplePasses : NoPushes[d][c] = NoPush
BY ConstantTypes DEF NoPush, Push, NoPushes

LEMMA AppleEndsType ==
    ASSUME NEW job \in Job
    PROVE  \E x \in Job :
             /\ x = AppleEnds(job)
             /\ x.customer = job.customer /\ x.apple = "over"
             /\ x.started = 0 /\ x.overtaken = {} /\ x.push = NoPushes
             /\ x.google = job.google /\ x.snapshot = job.snapshot
             /\ x.alone = job.alone /\ x.attempt = job.attempt
<1>1. PICK x : x = [job EXCEPT !.apple = "over", !.started = 0, !.overtaken = {}, !.push = NoPushes]
  OBVIOUS
<1>2. x \in Job
  <2>1. 0 \in 0..MaxMoves
    BY ConstantTypes
  <2> QED
    BY <1>1, <2>1, NoPushType DEF Job
<1>3. /\ x.customer = job.customer /\ x.apple = "over"
      /\ x.started = 0 /\ x.overtaken = {} /\ x.push = NoPushes
      /\ x.google = job.google /\ x.snapshot = job.snapshot /\ x.attempt = job.attempt
  BY <1>1 DEF Job
<1>4. x.alone = job.alone
  BY <1>1 DEF Job
<1> QED
  BY <1>1, <1>2, <1>3, <1>4 DEF AppleEnds

LEMMA GoogleAcceptsType ==
    ASSUME NEW job \in Job
    PROVE  \E x \in Job :
             /\ x = GoogleAccepts(job)
             /\ x.customer = job.customer /\ x.apple = job.apple
             /\ x.started = job.started /\ x.overtaken = job.overtaken /\ x.push = job.push
             /\ x.google = "ok" /\ x.snapshot = Absent /\ x.alone = job.alone /\ x.attempt = 0
<1>1. PICK x : x = [job EXCEPT !.google = "ok", !.snapshot = Absent, !.attempt = 0]
  OBVIOUS
<1>2. x \in Job
  <2>1. 0 \in 0..Attempts
    BY ConstantTypes
  <2> QED
    BY <1>1, <2>1 DEF Job
<1>3. /\ x.customer = job.customer /\ x.apple = job.apple
      /\ x.started = job.started /\ x.overtaken = job.overtaken /\ x.push = job.push
      /\ x.google = "ok" /\ x.snapshot = Absent /\ x.attempt = 0
  BY <1>1 DEF Job
<1>4. x.alone = job.alone
  BY <1>1 DEF Job
<1> QED
  BY <1>1, <1>2, <1>3, <1>4 DEF GoogleAccepts

LEMMA GoogleEndsType ==
    ASSUME NEW job \in Job
    PROVE  \E x \in Job :
             /\ x = GoogleEnds(job)
             /\ x.customer = job.customer /\ x.apple = job.apple
             /\ x.started = job.started /\ x.overtaken = job.overtaken /\ x.push = job.push
             /\ x.google = "over" /\ x.snapshot = Absent /\ ~x.alone /\ x.attempt = 0
<1>1. PICK y \in Job :
        /\ y = GoogleAccepts(job)
        /\ y.customer = job.customer /\ y.apple = job.apple
        /\ y.started = job.started /\ y.overtaken = job.overtaken /\ y.push = job.push
        /\ y.google = "ok" /\ y.snapshot = Absent /\ y.alone = job.alone /\ y.attempt = 0
  BY GoogleAcceptsType
<1>2. PICK x : x = [y EXCEPT !.google = "over", !.alone = FALSE]
  OBVIOUS
<1>3. x \in Job /\ x.customer = y.customer /\ x.apple = y.apple
      /\ x.started = y.started /\ x.overtaken = y.overtaken /\ x.push = y.push
      /\ x.google = "over" /\ x.snapshot = y.snapshot /\ ~x.alone /\ x.attempt = y.attempt
  BY <1>1, <1>2 DEF Job
<1>4. x = GoogleEnds(job)
  BY <1>1, <1>2 DEF GoogleEnds
<1> QED
  BY <1>1, <1>3, <1>4

LEMMA Loses ==
    ASSUME TypeOK, NEW j \in DOMAIN jobs, Lose(j)
    PROVE  \E x : Turns(j, x) /\ Calm(j, x) /\ Googles(j, x)
<1>1. jobs[j] \in Job
  BY JobsAre
<1>2. PICK y \in Job :
        /\ y = AppleEnds(jobs[j])
        /\ y.customer = jobs[j].customer /\ y.apple = "over"
        /\ y.started = 0 /\ y.overtaken = {} /\ y.push = NoPushes
        /\ y.google = jobs[j].google /\ y.snapshot = jobs[j].snapshot
        /\ y.alone = jobs[j].alone /\ y.attempt = jobs[j].attempt
  BY <1>1, AppleEndsType
<1>3. CASE GoogleOver(j)
  <2>1. Turns(j, y)
    BY <1>2, <1>3 DEF Lose, Turns
  <2> QED
    BY <1>2, <2>1, NoPushType DEF Calm, Googles
<1>4. CASE ~GoogleOver(j)
  <2>1. PICK x \in Job :
          /\ x = GoogleEnds(y)
          /\ x.customer = y.customer /\ x.apple = y.apple
          /\ x.started = y.started /\ x.overtaken = y.overtaken /\ x.push = y.push
          /\ x.google = "over" /\ x.snapshot = Absent /\ ~x.alone /\ x.attempt = 0
    BY <1>2, GoogleEndsType
  <2>2. Turns(j, x)
    BY <1>2, <1>4, <2>1 DEF Lose, Turns
  <2> QED
    BY <1>2, <2>1, <2>2, NoPushType DEF Calm, Googles
<1> QED
  BY <1>3, <1>4

LEMMA PushesEnd ==
    ASSUME TypeOK, NEW j \in DOMAIN jobs, PushesOver(j)
    PROVE  \E x : Turns(j, x) /\ Calm(j, x) /\ Googles(j, x)
<1>1. jobs[j] \in Job
  BY JobsAre
<1>2. PICK x \in Job :
        /\ x = AppleEnds(jobs[j])
        /\ x.customer = jobs[j].customer /\ x.apple = "over"
        /\ x.started = 0 /\ x.overtaken = {} /\ x.push = NoPushes
        /\ x.google = jobs[j].google /\ x.snapshot = jobs[j].snapshot
        /\ x.alone = jobs[j].alone /\ x.attempt = jobs[j].attempt
  BY <1>1, AppleEndsType
<1>3. Turns(j, x)
  BY <1>2 DEF PushesOver, Turns
<1> QED
  BY <1>2, <1>3, NoPushType DEF Calm, Googles

\* An attempt leaves the push another one, or is the last.
LEMMA Attempted ==
    ASSUME TypeOK, NEW j \in DOMAIN jobs, NEW d \in Devices, NEW c \in ApplePasses,
           Attempting(j, d, c), NEW p, p = NoPush \/ p = Failed(jobs[j].push[d][c]),
           jobs' = [jobs EXCEPT ![j].push[d][c] = p]
    PROVE  \E x : Turns(j, x) /\ Calm(j, x) /\ Googles(j, x) /\ x.apple = jobs[j].apple
<1>1. jobs[j] \in Job /\ jobs[j].push \in [Devices -> [ApplePasses -> Push]]
      /\ jobs[j].push[d][c] \in Push
  BY JobsAre DEF Job
<1>2. p \in Push
  <2>1. PICK q \in Push : q = jobs[j].push[d][c]
    BY <1>1
  <2>2. q.attempt < Attempts => [q EXCEPT !.attempt = @ + 1] \in Push
    BY ConstantTypes DEF Push
  <2> QED
    BY <2>1, <2>2, NoPushType DEF Failed, Retries
<1>3. PICK push : push = [jobs[j].push EXCEPT ![d][c] = p]
  OBVIOUS
<1>4. /\ push \in [Devices -> [ApplePasses -> Push]]
      /\ \A e \in Devices, b \in ApplePasses : push[e][b] = IF e = d /\ b = c THEN p ELSE jobs[j].push[e][b]
  BY <1>1, <1>2, <1>3
<1>5. PICK x : x = [jobs[j] EXCEPT !.push = push]
  OBVIOUS
<1>6. /\ x \in Job /\ x.push = push
      /\ x.customer = jobs[j].customer /\ x.apple = jobs[j].apple
      /\ x.started = jobs[j].started /\ x.overtaken = jobs[j].overtaken
      /\ x.google = jobs[j].google /\ x.snapshot = jobs[j].snapshot
      /\ x.alone = jobs[j].alone /\ x.attempt = jobs[j].attempt
  BY <1>1, <1>4, <1>5 DEF Job
<1>7. Turns(j, x)
  BY <1>3, <1>5, JobsAre DEF Turns
<1> QED
  BY <1>4, <1>6, <1>7 DEF Calm, Googles, Attempting, Pushed

\* The other part of a job stays.
AppleKept(j, x) ==
    /\ x.customer = jobs[j].customer /\ x.apple = jobs[j].apple
    /\ x.started = jobs[j].started /\ x.overtaken = jobs[j].overtaken /\ x.push = jobs[j].push
GoogleKept(j, x) ==
    /\ x.customer = jobs[j].customer
    /\ x.google = jobs[j].google /\ x.snapshot = jobs[j].snapshot
    /\ x.alone = jobs[j].alone /\ x.attempt = jobs[j].attempt

LEMMA Begins ==
    ASSUME TypeOK, CountsInv, NEW j \in DOMAIN jobs, BeginBump(j)
    PROVE  \E x \in Job : /\ Turns(j, x) /\ GoogleKept(j, x)
                          /\ x.apple = "begun" /\ x.started = clock + 1
                          /\ x.overtaken = jobs[j].overtaken /\ x.push = jobs[j].push
                          /\ clock + 1 <= MaxMoves
<1>1. jobs[j] \in Job /\ Len(jobs) \in 0..MaxMoves /\ DOMAIN jobs = 1..Len(jobs) /\ clock \in Nat
  BY JobsAre DEF TypeOK
<1>2. clock + 1 <= MaxMoves
  <2> DEFINE dated == {k \in DOMAIN jobs : jobs[k].apple # "scheduled"}
  <2>1. PICK n \in Nat : n = Len(jobs)
    <3>1. Len(jobs) \in Nat
      BY LenProperties DEF TypeOK
    <3> QED
      BY <3>1, Zenon
  <2>2. j \in 1..n /\ dated \subseteq (1..n) \ {j}
    BY <1>1, <2>1 DEF BeginBump
  <2>3. IsFiniteSet(1..n) /\ Cardinality(1..n) = n
    BY FS_Interval
  <2>4. IsFiniteSet((1..n) \ {j}) /\ Cardinality((1..n) \ {j}) = n - 1
    BY <2>2, <2>3, FS_RemoveElement
  <2>5. Cardinality(dated) <= n - 1 /\ Cardinality(dated) \in Nat
    BY <2>2, <2>4, FS_Subset, FS_CardinalityType
  <2>6. clock <= Cardinality(dated)
    BY DEF CountsInv
  <2> HIDE DEF dated
  <2> QED
    BY <1>1, <2>1, <2>5, <2>6, ConstantTypes
<1>3. clock + 1 \in 0..MaxMoves
  BY <1>1, <1>2
<1>4. PICK x : x = [jobs[j] EXCEPT !.apple = "begun", !.started = clock + 1]
  OBVIOUS
<1>5. x \in Job
  BY <1>1, <1>3, <1>4 DEF Job
<1>6. /\ x.apple = "begun" /\ x.started = clock + 1 /\ x.customer = jobs[j].customer
      /\ x.overtaken = jobs[j].overtaken /\ x.push = jobs[j].push
      /\ x.google = jobs[j].google /\ x.snapshot = jobs[j].snapshot /\ x.attempt = jobs[j].attempt
  BY <1>1, <1>4 DEF Job
<1>7. x.alone = jobs[j].alone
  BY <1>1, <1>4 DEF Job
<1>8. Turns(j, x)
  BY <1>4 DEF BeginBump, Turns
<1> QED
  BY <1>2, <1>5, <1>6, <1>7, <1>8 DEF GoogleKept

LEMMA Bumps ==
    ASSUME TypeOK, NEW j \in DOMAIN jobs, Bump(j)
    PROVE  \E x \in Job : /\ Turns(j, x) /\ GoogleKept(j, x)
                          /\ x.apple = "bumped" /\ x.started = jobs[j].started
                          /\ x.overtaken = jobs[j].overtaken
                          /\ \A d \in Devices, c \in ApplePasses :
                               x.push[d][c] # NoPush => c \in Passes(j) /\ registered[d][c] # 0
<1>1. jobs[j] \in Job
  BY JobsAre
<1>2. PICK push : push = [d \in Devices |-> [c \in ApplePasses |->
                            IF c \notin Passes(j) \/ registered[d][c] = 0 THEN NoPush
                            ELSE [token |-> registered[d][c], attempt |-> 1]]]
  OBVIOUS
<1>3. push \in [Devices -> [ApplePasses -> Push]]
  <2>1. ASSUME NEW d \in Devices, NEW c \in ApplePasses
        PROVE  [token |-> registered[d][c], attempt |-> 1] \in Push
    BY ConstantTypes DEF TypeOK, Push
  <2> QED
    BY <1>2, <2>1, NoPushType
<1>4. PICK x : x = [jobs[j] EXCEPT !.apple = "bumped", !.push = push]
  OBVIOUS
<1>5. x \in Job
  BY <1>1, <1>3, <1>4 DEF Job
<1>6. /\ x.apple = "bumped" /\ x.started = jobs[j].started /\ x.customer = jobs[j].customer
      /\ x.overtaken = jobs[j].overtaken /\ x.push = push
      /\ x.google = jobs[j].google /\ x.snapshot = jobs[j].snapshot /\ x.attempt = jobs[j].attempt
  BY <1>1, <1>4 DEF Job
<1>7. x.alone = jobs[j].alone
  BY <1>1, <1>4 DEF Job
<1>8. Turns(j, x)
  BY <1>2, <1>4 DEF Bump, Turns
<1> QED
  BY <1>2, <1>5, <1>6, <1>7, <1>8 DEF GoogleKept

\* Another attempt, or none.
LEMMA GoogleFailing ==
    ASSUME TypeOK, NEW j \in DOMAIN jobs, GoogleFails(j)
    PROVE  \E x \in Job : /\ Turns(j, x) /\ AppleKept(j, x)
                          /\ \/ x.google = "inserting" /\ x.snapshot = jobs[j].snapshot /\ x.alone = jobs[j].alone
                             \/ x.google = "over" /\ ~x.alone
<1>1. jobs[j] \in Job
  BY JobsAre
<1>2. CASE jobs[j].attempt < Attempts
  <2>1. PICK x : x = [jobs[j] EXCEPT !.google = "inserting", !.attempt = @ + 1]
    OBVIOUS
  <2>2. x \in Job
    <3>1. jobs[j].attempt + 1 \in 0..Attempts
      BY <1>1, <1>2, ConstantTypes DEF Job
    <3> QED
      BY <1>1, <2>1, <3>1 DEF Job
  <2>3. /\ x.customer = jobs[j].customer /\ x.apple = jobs[j].apple
        /\ x.started = jobs[j].started /\ x.overtaken = jobs[j].overtaken /\ x.push = jobs[j].push
        /\ x.google = "inserting" /\ x.snapshot = jobs[j].snapshot
    BY <1>1, <2>1 DEF Job
  <2>4. x.alone = jobs[j].alone
    BY <1>1, <2>1 DEF Job
  <2>5. Turns(j, x)
    BY <1>2, <2>1 DEF GoogleFails, Turns
  <2> QED
    BY <2>2, <2>3, <2>4, <2>5 DEF AppleKept
<1>3. CASE ~(jobs[j].attempt < Attempts)
  <2>1. PICK x \in Job :
          /\ x = GoogleEnds(jobs[j])
          /\ x.customer = jobs[j].customer /\ x.apple = jobs[j].apple
          /\ x.started = jobs[j].started /\ x.overtaken = jobs[j].overtaken /\ x.push = jobs[j].push
          /\ x.google = "over" /\ x.snapshot = Absent /\ ~x.alone /\ x.attempt = 0
    BY <1>1, GoogleEndsType
  <2>2. Turns(j, x)
    BY <1>3, <2>1 DEF GoogleFails, Turns
  <2> QED
    BY <2>1, <2>2 DEF AppleKept
<1> QED
  BY <1>2, <1>3

LEMMA GoogleAccepting ==
    ASSUME TypeOK, NEW j \in DOMAIN jobs, jobs' = [jobs EXCEPT ![j] = GoogleAccepts(@)]
    PROVE  \E x \in Job : /\ Turns(j, x) /\ AppleKept(j, x)
                          /\ x.google = "ok" /\ x.alone = jobs[j].alone
<1>1. PICK x \in Job :
        /\ x = GoogleAccepts(jobs[j])
        /\ x.customer = jobs[j].customer /\ x.apple = jobs[j].apple
        /\ x.started = jobs[j].started /\ x.overtaken = jobs[j].overtaken /\ x.push = jobs[j].push
        /\ x.google = "ok" /\ x.snapshot = Absent /\ x.alone = jobs[j].alone /\ x.attempt = 0
  BY JobsAre, GoogleAcceptsType
<1>2. Turns(j, x)
  BY <1>1 DEF Turns
<1> QED
  BY <1>1, <1>2 DEF AppleKept

\* A job of Google's goes on.  What it writes is its snapshot, and an object
\* it leaves as it was was not accepted.
Updates(j, x) ==
    LET c == jobs[j].customer
    IN  /\ x \in Job /\ Turns(j, x) /\ AppleKept(j, x) /\ ~GoogleOver(j)
        /\ \/ /\ jobs[j].google = "scheduled" /\ x.google = "inserting"
              /\ x.snapshot = balance[c] /\ x.alone = jobs[j].alone /\ object' = object
           \/ /\ jobs[j].google # "scheduled"
              /\ x.google \in {"inserting", "patching"}
              /\ x.snapshot = jobs[j].snapshot /\ x.alone = jobs[j].alone
              /\ object' = object \/ object' = [object EXCEPT ![c] = jobs[j].snapshot]
           \/ /\ jobs[j].google # "scheduled"
              /\ x.google = "ok" /\ x.alone = jobs[j].alone
              /\ object' = [object EXCEPT ![c] = jobs[j].snapshot]
           \/ /\ jobs[j].google # "scheduled"
              /\ x.google = "over" /\ ~x.alone
              /\ object' = object \/ object' = [object EXCEPT ![c] = jobs[j].snapshot]

LEMMA GoogleSteps ==
    ASSUME TypeOK, SnapshotsInv, NEW j \in DOMAIN jobs, GoogleStep(j)
    PROVE  /\ \E x : Updates(j, x)
           /\ UNCHANGED <<balance, promo, clock, updatedAt, registered, phone, due>>
<1>1. jobs[j] \in Job
  BY JobsAre
<1>2. UNCHANGED <<balance, promo, clock, updatedAt, registered, phone, due>>
  BY DEF GoogleStep, LoadSnapshot, Insert, Patch
<1>3. CASE LoadSnapshot(j)
  <2>1. jobs[j].customer \in Customers
    BY <1>3, ConstantTypes DEF LoadSnapshot, SnapshotsInv, GoogleOver
  <2>2. balance[jobs[j].customer] \in Versions
    BY <2>1 DEF TypeOK
  <2>3. PICK x : x = [jobs[j] EXCEPT !.google = "inserting", !.attempt = 1,
                                     !.snapshot = balance[jobs[j].customer]]
    OBVIOUS
  <2>4. x \in Job
    <3>1. 1 \in 0..Attempts
      BY ConstantTypes
    <3> QED
      BY <1>1, <2>2, <2>3, <3>1 DEF Job
  <2>5. /\ x.customer = jobs[j].customer /\ x.apple = jobs[j].apple
        /\ x.started = jobs[j].started /\ x.overtaken = jobs[j].overtaken /\ x.push = jobs[j].push
        /\ x.google = "inserting" /\ x.snapshot = balance[jobs[j].customer]
    BY <1>1, <2>3 DEF Job
  <2>6. x.alone = jobs[j].alone
    BY <1>1, <2>3 DEF Job
  <2>7. Turns(j, x) /\ object' = object /\ jobs[j].google = "scheduled"
    BY <1>3, <2>3 DEF LoadSnapshot, Turns
  <2> QED
    BY <1>2, <2>4, <2>5, <2>6, <2>7 DEF Updates, AppleKept, GoogleOver
<1>4. ASSUME jobs[j].google \in {"inserting", "patching"},
             jobs' = [jobs EXCEPT ![j] = GoogleAccepts(@)] \/ GoogleFails(j),
             object' = [object EXCEPT ![jobs[j].customer] = jobs[j].snapshot]
      PROVE  \E x : Updates(j, x)
  BY <1>4, GoogleAccepting, GoogleFailing DEF Updates, GoogleOver
<1>5. ASSUME jobs[j].google \in {"inserting", "patching"}, GoogleFails(j), object' = object
      PROVE  \E x : Updates(j, x)
  BY <1>5, GoogleFailing DEF Updates, GoogleOver
<1>6. CASE Insert(j)
  <2>1. CASE jobs' = [jobs EXCEPT ![j].google = "patching"] /\ object' = object
    <3>1. PICK x : x = [jobs[j] EXCEPT !.google = "patching"]
      OBVIOUS
    <3>2. x \in Job
      BY <1>1, <3>1 DEF Job
    <3>3. /\ x.customer = jobs[j].customer /\ x.apple = jobs[j].apple
          /\ x.started = jobs[j].started /\ x.overtaken = jobs[j].overtaken /\ x.push = jobs[j].push
          /\ x.google = "patching" /\ x.snapshot = jobs[j].snapshot
      BY <1>1, <3>1 DEF Job
    <3>4. x.alone = jobs[j].alone
      BY <1>1, <3>1 DEF Job
    <3>5. Turns(j, x) /\ jobs[j].google = "inserting"
      BY <1>6, <2>1, <3>1 DEF Insert, Turns
    <3> QED
      BY <1>2, <2>1, <3>2, <3>3, <3>4, <3>5 DEF Updates, AppleKept, GoogleOver
  <2>2. CASE ~(jobs' = [jobs EXCEPT ![j].google = "patching"] /\ object' = object)
    BY <1>2, <1>4, <1>5, <1>6, <2>2 DEF Insert
  <2> QED
    BY <2>1, <2>2
<1>7. CASE Patch(j)
  BY <1>2, <1>4, <1>5, <1>7 DEF Patch
<1> QED
  BY <1>2, <1>3, <1>6, <1>7 DEF GoogleStep

----------------------------------------------------------------------------
(* Jobs that are scheduled, and bumps that commit.                         *)

\* One more job, which has done nothing.
Schedules(x) ==
    /\ jobs' \in Seq(Job) /\ Len(jobs') = Len(jobs) + 1 /\ Len(jobs) < MaxMoves
    /\ DOMAIN jobs' = DOMAIN jobs \cup {Len(jobs) + 1}
    /\ \A k \in DOMAIN jobs :
         /\ AppleKept(k, jobs'[k])
         /\ jobs'[k].google = jobs[k].google /\ jobs'[k].snapshot = jobs[k].snapshot
         /\ jobs'[k].alone => jobs[k].alone
    /\ jobs'[Len(jobs) + 1] = x
    /\ x.apple \in {"scheduled", "over"} /\ x.push = NoPushes
    /\ x.google \in {"scheduled", "over"}

LEMMA ScheduledType ==
    ASSUME NEW c \in Customers \cup {None}, NEW google \in BOOLEAN, NEW alone \in BOOLEAN
    PROVE  \E x \in Job :
             /\ x = Scheduled(c, google, alone)
             /\ x.customer = c /\ x.apple \in {"scheduled", "over"} /\ x.push = NoPushes
             /\ x.google = IF google THEN "scheduled" ELSE "over"
             /\ x.alone <=> google /\ alone
<1>1. PICK apple \in {"scheduled", "over"} : apple = IF PassesOf(c) = {} THEN "over" ELSE "scheduled"
  OBVIOUS
<1>2. PICK part \in {"scheduled", "over"} : part = IF google THEN "scheduled" ELSE "over"
  OBVIOUS
<1>3. PICK both \in BOOLEAN : both = (google /\ alone)
  OBVIOUS
<1>4. PICK x : x = [customer |-> c, apple |-> apple, started |-> 0, overtaken |-> {}, push |-> NoPushes,
                    google |-> part, snapshot |-> Absent, attempt |-> 0, alone |-> both]
  OBVIOUS
<1>5. x \in Job
  <2>1. 0 \in 0..MaxMoves /\ 0 \in 0..Attempts /\ Absent \in Versions \cup {Absent} /\ both \in BOOLEAN
    BY <1>3, ConstantTypes
  <2> QED
    BY <1>1, <1>2, <1>4, <2>1, NoPushType DEF Job
<1>6. /\ x.customer = c /\ x.apple = apple /\ x.push = NoPushes /\ x.google = part
  BY <1>4
<1>7. x.alone = both
  BY <1>4
<1>8. x = Scheduled(c, google, alone)
  BY <1>1, <1>2, <1>3, <1>4, Zenon DEF Scheduled
<1> QED
  BY <1>1, <1>2, <1>3, <1>5, <1>6, <1>7, <1>8

LEMMA Appended ==
    ASSUME TypeOK, NEW old \in [1..Len(jobs) -> Job], NEW x \in Job, jobs' = Append(old, x)
    PROVE  /\ jobs' \in Seq(Job) /\ Len(jobs') = Len(jobs) + 1
           /\ DOMAIN jobs' = DOMAIN jobs \cup {Len(jobs) + 1}
           /\ \A k \in DOMAIN jobs : jobs'[k] = old[k]
           /\ jobs'[Len(jobs) + 1] = x
<1>1. Len(jobs) \in Nat /\ DOMAIN jobs = 1..Len(jobs)
  BY LenProperties DEF TypeOK
<1>2. old \in Seq(Job) /\ Len(old) = Len(jobs)
  BY <1>1, JobsList
<1>3. /\ Append(old, x) \in Seq(Job) /\ Len(Append(old, x)) = Len(old) + 1
      /\ \A i \in 1..Len(old) : Append(old, x)[i] = old[i]
      /\ Append(old, x)[Len(old) + 1] = x
  BY <1>2, AppendProperties
<1>4. DOMAIN Append(old, x) = 1..Len(old) + 1
  BY <1>3, LenProperties
<1>5. 1..Len(jobs) + 1 = (1..Len(jobs)) \cup {Len(jobs) + 1}
  BY <1>1
<1> QED
  BY <1>1, <1>2, <1>3, <1>4, <1>5

LEMMA Moves ==
    ASSUME TypeOK, NEW c \in Customers, Movement(c)
    PROVE  \E x \in Job :
             /\ Schedules(x) /\ x.customer = c
             /\ x.google = "scheduled" <=> c \in GooglePasses
             /\ x.alone => x.google = "scheduled" /\ \A j \in DOMAIN jobs : jobs[j].customer = c => GoogleOver(j)
             /\ \A k \in DOMAIN jobs : jobs'[k].alone => jobs[k].customer # c \/ GoogleOver(k)
             /\ balance' = [balance EXCEPT ![c] = Len(jobs) + 1]
             /\ UNCHANGED <<promo, clock, updatedAt, registered, phone, due, object>>
<1>1. /\ jobs \in [1..Len(jobs) -> Job] /\ DOMAIN jobs = 1..Len(jobs)
      /\ \A k \in DOMAIN jobs : jobs[k] \in Job
  BY JobsAre
<1>2. PICK busy \in BOOLEAN : busy = (\E j \in DOMAIN jobs : jobs[j].customer = c /\ ~GoogleOver(j))
  OBVIOUS
<1>3. PICK google : google = (c \in GooglePasses)
  OBVIOUS
<1>4. google \in BOOLEAN
  BY <1>3
<1>5. PICK alone : alone = (~busy)
  OBVIOUS
<1>6. alone \in BOOLEAN /\ google \in BOOLEAN /\ c \in Customers \cup {None}
  BY <1>4, <1>5
<1>7. PICK x \in Job :
             /\ x = Scheduled(c, google, alone)
             /\ x.customer = c /\ x.apple \in {"scheduled", "over"} /\ x.push = NoPushes
             /\ x.google = IF google THEN "scheduled" ELSE "over"
             /\ x.alone <=> google /\ alone
  BY <1>6, ScheduledType
<1>8. PICK old :
        old = [j \in DOMAIN jobs |->
                 [jobs[j] EXCEPT !.alone = @ /\ (jobs[j].customer # c \/ GoogleOver(j))]]
  OBVIOUS
<1>9. jobs' = Append(old, x)
  BY <1>2, <1>3, <1>5, <1>7, <1>8, Zenon DEF Movement
<1>10. ASSUME NEW k \in DOMAIN jobs
      PROVE  /\ old[k] \in Job
             /\ AppleKept(k, old[k])
             /\ old[k].google = jobs[k].google /\ old[k].snapshot = jobs[k].snapshot
             /\ old[k].alone => jobs[k].alone /\ (jobs[k].customer # c \/ GoogleOver(k))
  <2>1. PICK alone2 \in BOOLEAN : alone2 = (jobs[k].alone /\ (jobs[k].customer # c \/ GoogleOver(k)))
    OBVIOUS
  <2>2. old[k] = [jobs[k] EXCEPT !.alone = alone2]
    BY <1>8, <2>1, Zenon
  <2>3. jobs[k] \in Job
    BY <1>1
  <2>4. PICK y : y = [jobs[k] EXCEPT !.alone = alone2]
    OBVIOUS
  <2>5. y \in Job
    BY <2>1, <2>3, <2>4 DEF Job
  <2>6. /\ y.customer = jobs[k].customer /\ y.apple = jobs[k].apple
        /\ y.started = jobs[k].started /\ y.overtaken = jobs[k].overtaken /\ y.push = jobs[k].push
        /\ y.google = jobs[k].google /\ y.snapshot = jobs[k].snapshot
    BY <2>3, <2>4 DEF Job
  <2>7. y.alone = alone2
    BY <2>3, <2>4 DEF Job
  <2> QED
    BY <2>1, <2>2, <2>4, <2>5, <2>6, <2>7 DEF AppleKept
<1>11. old \in [1..Len(jobs) -> Job]
  BY <1>1, <1>8, <1>10
<1>12. Schedules(x)
  BY <1>7, <1>9, <1>10, <1>11, Appended DEF Schedules, Movement
<1>13. \A k \in DOMAIN jobs : jobs'[k].alone => jobs[k].customer # c \/ GoogleOver(k)
  BY <1>9, <1>10, <1>11, Appended
<1> QED
  BY <1>2, <1>3, <1>5, <1>7, <1>12, <1>13 DEF Movement

LEMMA Promotes ==
    ASSUME TypeOK, Promotion
    PROVE  \E x \in Job :
             /\ Schedules(x) /\ x.customer = None /\ x.google = "over" /\ ~x.alone
             /\ promo' = Len(jobs) + 1
             /\ UNCHANGED <<balance, clock, updatedAt, registered, phone, due, object>>
<1>1. jobs \in [1..Len(jobs) -> Job] /\ \A k \in DOMAIN jobs : AppleKept(k, jobs[k])
  BY JobsAre DEF AppleKept
<1>2. PICK x \in Job :
             /\ x = Scheduled(None, FALSE, FALSE)
             /\ x.customer = None /\ x.apple \in {"scheduled", "over"} /\ x.push = NoPushes
             /\ x.google = IF FALSE THEN "scheduled" ELSE "over"
             /\ x.alone <=> FALSE /\ FALSE
  <2>1. FALSE \in BOOLEAN /\ None \in Customers \cup {None}
    OBVIOUS
  <2> QED
    BY <2>1, ScheduledType, Zenon
<1>3. jobs' = Append(jobs, x)
  BY <1>2 DEF Promotion
<1>4. Schedules(x)
  BY <1>1, <1>2, <1>3, Appended DEF Schedules, Promotion
<1> QED
  BY <1>2, <1>4 DEF Promotion

\* The passes of a bump that commits take its date; the open ones that it
\* passes, and the pushes whose passes it dates back, are overtaken there.
Back(j, d) ==
    {c \in Passes(j) : jobs[j].started < updatedAt[c] /\ jobs[j].started <= phone[d].since}

LEMMA Commits ==
    ASSUME TypeOK, NEW j \in DOMAIN jobs, CommitBump(j)
    PROVE  /\ jobs' \in Seq(Job) /\ Len(jobs') = Len(jobs) /\ DOMAIN jobs' = DOMAIN jobs
           /\ jobs[j].apple = "bumped" /\ jobs'[j].apple = "pushing"
           /\ jobs'[j].overtaken = jobs[j].overtaken
           /\ \A k \in DOMAIN jobs :
                /\ GoogleKept(k, jobs'[k])
                /\ jobs'[k].started = jobs[k].started /\ jobs'[k].push = jobs[k].push
                /\ k # j => /\ jobs'[k].apple = jobs[k].apple
                            /\ jobs[k].overtaken \subseteq jobs'[k].overtaken
                /\ k # j /\ jobs[k].apple = "pushing" =>
                     \A d \in Devices : Passes(k) \cap Back(j, d) \subseteq jobs'[k].overtaken
                /\ k # j /\ Waiting(k) /\ jobs[k].started < jobs[j].started =>
                     \A c \in Passes(k) : c \notin jobs'[k].overtaken => Passes(j) = {c}
           /\ \A c \in ApplePasses :
                updatedAt'[c] = IF c \in Passes(j) THEN jobs[j].started ELSE updatedAt[c]
           /\ \A d \in Devices, c \in ApplePasses :
                due'[d][c] = IF c \in Back(j, d) THEN 0 ELSE due[d][c]
           /\ updatedAt' \in [ApplePasses -> 0..MaxMoves]
           /\ due' \in [Devices -> [ApplePasses -> Versions]]
           /\ UNCHANGED <<balance, promo, clock, registered, phone, object>>
<1>1. /\ jobs \in [1..Len(jobs) -> Job] /\ DOMAIN jobs = 1..Len(jobs) /\ Len(jobs) \in Nat
      /\ \A k \in DOMAIN jobs : jobs[k] \in Job
  BY JobsAre, LenProperties DEF TypeOK
<1>2. \A k \in DOMAIN jobs : Passes(k) \subseteq ApplePasses
  BY DEF Passes, PassesOf
<1>3. ASSUME NEW k \in DOMAIN jobs
      PROVE  /\ jobs'[k] \in Job
             /\ GoogleKept(k, jobs'[k])
             /\ jobs'[k].started = jobs[k].started /\ jobs'[k].push = jobs[k].push
             /\ k = j => jobs'[k].apple = "pushing" /\ jobs'[k].overtaken = jobs[k].overtaken
             /\ k # j => /\ jobs'[k].apple = jobs[k].apple
                         /\ jobs[k].overtaken \subseteq jobs'[k].overtaken
             /\ k # j /\ jobs[k].apple = "pushing" =>
                  \A d \in Devices : Passes(k) \cap Back(j, d) \subseteq jobs'[k].overtaken
             /\ k # j /\ Waiting(k) /\ jobs[k].started < jobs[j].started =>
                  \A c \in Passes(k) : c \notin jobs'[k].overtaken => Passes(j) = {c}
  <2>1. jobs[k] \in Job
    BY <1>1
  <2>2. CASE k = j
    <3>1. jobs'[k] = [jobs[k] EXCEPT !.apple = "pushing"]
      BY <2>2, Zenon DEF CommitBump
    <3>2. PICK x : x = [jobs[k] EXCEPT !.apple = "pushing"]
      OBVIOUS
    <3>3. x \in Job
      BY <2>1, <3>2 DEF Job
    <3>4. /\ x.customer = jobs[k].customer /\ x.apple = "pushing"
          /\ x.started = jobs[k].started /\ x.overtaken = jobs[k].overtaken /\ x.push = jobs[k].push
          /\ x.google = jobs[k].google /\ x.snapshot = jobs[k].snapshot /\ x.attempt = jobs[k].attempt
      BY <2>1, <3>2 DEF Job
    <3>5. x.alone = jobs[k].alone
      BY <2>1, <3>2 DEF Job
    <3> QED
      BY <2>2, <3>1, <3>2, <3>3, <3>4, <3>5 DEF GoogleKept
  <2>3. CASE k # j
    <3>1. PICK more :
            /\ jobs'[k] = [jobs[k] EXCEPT !.overtaken = @ \cup more]
            /\ more \subseteq ApplePasses
            /\ jobs[k].apple = "pushing" => \A d \in Devices : Passes(k) \cap Back(j, d) \subseteq more
            /\ Waiting(k) /\ jobs[k].started < jobs[j].started =>
                 more = {c \in Passes(k) : Passes(j) # {c}}
      <4>1. CASE jobs[k].apple = "pushing"
        <5>1. PICK more : more = Passes(k) \cap UNION {Back(j, d) : d \in Devices}
          OBVIOUS
        <5>2. jobs'[k] = [jobs[k] EXCEPT !.overtaken = @ \cup more]
          BY <2>3, <4>1, <5>1 DEF CommitBump, Back
        <5>3. more \subseteq ApplePasses /\ \A d \in Devices : Passes(k) \cap Back(j, d) \subseteq more
          BY <1>2, <5>1
        <5> QED
          BY <4>1, <5>2, <5>3 DEF Waiting
      <4>2. CASE jobs[k].apple # "pushing"
        <5>1. PICK more :
                more = IF jobs[k].apple \in {"begun", "bumped"} /\ jobs[k].started < jobs[j].started
                       THEN {c \in Passes(k) : Passes(j) # {c}} ELSE {}
          OBVIOUS
        <5>2. jobs'[k] = [jobs[k] EXCEPT !.overtaken = @ \cup more]
          BY <2>3, <4>2, <5>1 DEF CommitBump
        <5>3. more \subseteq ApplePasses
          BY <1>2, <5>1
        <5> QED
          BY <4>2, <5>1, <5>2, <5>3 DEF Waiting
      <4> QED
        BY <4>1, <4>2
    <3>2. PICK x : x = [jobs[k] EXCEPT !.overtaken = @ \cup more]
      OBVIOUS
    <3>3. x \in Job
      BY <2>1, <3>1, <3>2 DEF Job
    <3>4. /\ x.customer = jobs[k].customer /\ x.apple = jobs[k].apple
          /\ x.started = jobs[k].started /\ x.overtaken = jobs[k].overtaken \cup more
          /\ x.push = jobs[k].push
          /\ x.google = jobs[k].google /\ x.snapshot = jobs[k].snapshot /\ x.attempt = jobs[k].attempt
      BY <2>1, <3>2 DEF Job
    <3>5. x.alone = jobs[k].alone
      BY <2>1, <3>2 DEF Job
    <3> QED
      BY <2>3, <3>1, <3>2, <3>3, <3>4, <3>5 DEF GoogleKept
  <2> QED
    BY <2>2, <2>3
<1>4. jobs' \in [1..Len(jobs) -> Job]
  BY <1>1, <1>3 DEF CommitBump
<1>5. jobs' \in Seq(Job) /\ Len(jobs') = Len(jobs) /\ DOMAIN jobs' = DOMAIN jobs
  BY <1>1, <1>4, JobsList
<1>6. updatedAt' \in [ApplePasses -> 0..MaxMoves]
  BY <1>1 DEF CommitBump, TypeOK, Job
<1>7. due' \in [Devices -> [ApplePasses -> Versions]]
  BY ConstantTypes DEF CommitBump, TypeOK, Versions
<1>8. \A c \in ApplePasses : updatedAt'[c] = IF c \in Passes(j) THEN jobs[j].started ELSE updatedAt[c]
  BY DEF CommitBump
<1>9. \A d \in Devices, c \in ApplePasses : due'[d][c] = IF c \in Back(j, d) THEN 0 ELSE due[d][c]
  BY DEF CommitBump, Back
<1> QED
  BY <1>3, <1>5, <1>6, <1>7, <1>8, <1>9 DEF CommitBump

----------------------------------------------------------------------------
(* What a step makes of a phone.                                           *)

LEMMA PhoneTurns ==
    ASSUME TypeOK, NEW d \in Devices, NEW y \in Phone, phone' = [phone EXCEPT ![d] = y]
    PROVE  /\ phone' \in [Devices -> Phone] /\ phone'[d] = y
           /\ \A e \in Devices : e # d => phone'[e] = phone[e]
BY DEF TypeOK

\* What a phone was to show of a card it shows, fetches or asks for, or more;
\* or it now has the card as it is.
Follows(d, c) ==
    \/ \A n \in 0..Content(c) : Coming(d, c, n)'
    \/ /\ phone[d].shown[c] # Absent
       /\ \A n \in 0..Content(c) : Coming(d, c, n) => Coming(d, c, n)'
       /\ registered[d][c] # 0 => registered'[d][c] # 0
       /\ \/ phone'[d].since = phone[d].since /\ (phone[d].alerted => phone'[d].alerted)
          \/ /\ Newer(d, c) => c \in phone'[d].wants
             /\ \/ phone'[d].since = phone[d].since
                \/ c \in phone'[d].wants
                \/ \E b \in ApplePasses \ {c} : phone'[d].since <= updatedAt[b]

PhonesFollow == \A d \in Devices, c \in ApplePasses : phone'[d].shown[c] # Absent => Follows(d, c)

\* Cards, dates and tokens of the phones stay possible.
PhonesStay ==
    /\ phone' \in [Devices -> Phone]
    /\ registered' \in [Devices -> [ApplePasses -> 0..MaxChanges + 1]]
    /\ \A d \in Devices :
         /\ phone'[d].token <= phone'[d].changes + 1
         /\ phone'[d].since <= clock
         /\ \A c \in ApplePasses :
              /\ c \in phone'[d].wants => phone'[d].shown[c] # Absent
              /\ phone'[d].fetching = c =>
                    /\ phone'[d].shown[c] # Absent
                    /\ phone'[d].shown[c] <= phone'[d].fetched /\ phone'[d].fetched <= Content(c)
              /\ phone'[d].shown[c] <= Content(c)

LEMMA PhoneIs ==
    ASSUME TypeOK, NEW d \in Devices
    PROVE  /\ phone[d] \in Phone
           /\ phone[d].token \in 1..MaxChanges + 1 /\ phone[d].changes \in 0..MaxChanges
           /\ phone[d].since \in Int /\ phone[d].since >= Absent
           /\ phone[d].fetching \in ApplePasses \cup {None} /\ phone[d].fetched \in Nat
           /\ phone[d].wants \in SUBSET ApplePasses
           /\ phone[d].shown \in [ApplePasses -> Versions \cup {Absent}]
           /\ \A c \in ApplePasses : phone[d].shown[c] \in Int /\ phone[d].shown[c] >= Absent
BY ConstantTypes DEF TypeOK, Phone, Versions, Absent

LEMMA Same ==
    ASSUME TypeOK, NEW d \in Devices, NEW c \in ApplePasses, phone'[d].shown[c] # Absent,
           phone'[d].shown[c] = phone[d].shown[c], phone'[d].wants = phone[d].wants,
           phone'[d].fetching = phone[d].fetching, phone'[d].fetched = phone[d].fetched,
           phone'[d].since = phone[d].since, phone[d].alerted => phone'[d].alerted,
           registered[d][c] # 0 => registered'[d][c] # 0
    PROVE  Follows(d, c)
BY DEF Follows, Coming, Known

\* A phone that is left alone, and one that is woken.
LEMMA Unchanging ==
    ASSUME TypeOK, CountsInv, PhonesInv, DatesInv, UNCHANGED registered, phone' \in [Devices -> Phone],
           \A d \in Devices :
               /\ phone'[d].shown = phone[d].shown /\ phone'[d].wants = phone[d].wants
               /\ phone'[d].fetching = phone[d].fetching /\ phone'[d].fetched = phone[d].fetched
               /\ phone'[d].since = phone[d].since /\ phone'[d].token = phone[d].token
               /\ phone'[d].changes = phone[d].changes /\ (phone[d].alerted => phone'[d].alerted)
    PROVE  PhonesFollow /\ PhonesStay
<1>1. PhonesFollow
  BY Same DEF PhonesFollow
<1>2. PhonesStay
  <2>1. ASSUME NEW d \in Devices
        PROVE  phone'[d].token <= phone'[d].changes + 1 /\ phone'[d].since <= clock
    BY DEF CountsInv, DatesInv
  <2>2. ASSUME NEW d \in Devices, NEW c \in ApplePasses
        PROVE  /\ c \in phone'[d].wants => phone'[d].shown[c] # Absent
               /\ phone'[d].fetching = c =>
                     /\ phone'[d].shown[c] # Absent
                     /\ phone'[d].shown[c] <= phone'[d].fetched /\ phone'[d].fetched <= Content(c)
               /\ phone'[d].shown[c] <= Content(c)
    BY DEF PhonesInv
  <2> QED
    BY <2>1, <2>2 DEF PhonesStay, TypeOK
<1> QED
  BY <1>1, <1>2

\* One phone takes a step of its own.
LEMMA OnePhone ==
    ASSUME TypeOK, CountsInv, PhonesInv, DatesInv, UNCHANGED registered,
           NEW d \in Devices, NEW y \in Phone, phone' = [phone EXCEPT ![d] = y],
           y.token <= y.changes + 1, y.since <= clock,
           \A c \in ApplePasses :
              /\ c \in y.wants => y.shown[c] # Absent
              /\ y.fetching = c => y.shown[c] # Absent /\ y.shown[c] <= y.fetched /\ y.fetched <= Content(c)
              /\ y.shown[c] <= Content(c)
              /\ y.shown[c] # Absent => Follows(d, c)
    PROVE  PhonesFollow /\ PhonesStay
<1>1. /\ phone' \in [Devices -> Phone] /\ phone'[d] = y
      /\ \A e \in Devices : e # d => phone'[e] = phone[e]
  BY PhoneTurns
<1>2. PhonesFollow
  <2> SUFFICES ASSUME NEW e \in Devices, NEW c \in ApplePasses, phone'[e].shown[c] # Absent
               PROVE  Follows(e, c)
    BY DEF PhonesFollow
  <2>1. CASE e = d
    BY <1>1, <2>1
  <2>2. CASE e # d
    BY <1>1, <2>2, Same
  <2> QED
    BY <2>1, <2>2
<1>3. PhonesStay
  <2>1. ASSUME NEW e \in Devices
        PROVE  phone'[e].token <= phone'[e].changes + 1 /\ phone'[e].since <= clock
    BY <1>1 DEF CountsInv, DatesInv
  <2>2. ASSUME NEW e \in Devices, NEW c \in ApplePasses
        PROVE  /\ c \in phone'[e].wants => phone'[e].shown[c] # Absent
               /\ phone'[e].fetching = c =>
                     /\ phone'[e].shown[c] # Absent
                     /\ phone'[e].shown[c] <= phone'[e].fetched /\ phone'[e].fetched <= Content(c)
               /\ phone'[e].shown[c] <= Content(c)
    <3>1. CASE e = d
      BY <1>1, <3>1
    <3>2. CASE e # d
      BY <1>1, <3>2 DEF PhonesInv
    <3> QED
      BY <3>1, <3>2
  <2> QED
    BY <1>1, <2>1, <2>2 DEF PhonesStay, TypeOK
<1> QED
  BY <1>2, <1>3

LEMMA Registers ==
    ASSUME TypeOK, CountsInv, PhonesInv, DatesInv, NEW d \in Devices, NEW c \in ApplePasses,
           Register(d, c) \/ Unregister(d, c)
    PROVE  PhonesFollow /\ PhonesStay
<1>1. phone' = phone
  BY DEF Register, Unregister
<1>2. PICK n \in 0..MaxChanges + 1 :
        /\ registered' = [registered EXCEPT ![d][c] = n]
        /\ n = 0 => phone[d].shown[c] = Absent
  <2>1. phone[d].token \in 0..MaxChanges + 1 /\ 0 \in 0..MaxChanges + 1 /\ phone[d].token # 0
    BY PhoneIs, ConstantTypes
  <2> QED
    BY <2>1 DEF Register, Unregister
<1>3. /\ registered' \in [Devices -> [ApplePasses -> 0..MaxChanges + 1]]
      /\ \A e \in Devices, b \in ApplePasses :
           registered'[e][b] = IF e = d /\ b = c THEN n ELSE registered[e][b]
  BY <1>2 DEF TypeOK
<1>4. PhonesFollow
  BY <1>1, <1>2, <1>3, Same DEF PhonesFollow
<1>5. PhonesStay
  BY <1>1, <1>3 DEF PhonesStay, CountsInv, PhonesInv, DatesInv, TypeOK
<1> QED
  BY <1>4, <1>5

LEMMA NewTokens ==
    ASSUME TypeOK, CountsInv, PhonesInv, DatesInv, NEW d \in Devices, NewToken(d)
    PROVE  PhonesFollow /\ PhonesStay
<1>1. PICK y : y = [phone[d] EXCEPT !.token = @ + 1, !.changes = @ + 1]
  OBVIOUS
<1>2. phone' = [phone EXCEPT ![d] = y]
  BY <1>1 DEF NewToken
<1>3. phone[d] \in Phone
  BY PhoneIs
<1>4. y \in Phone
  <2>1. phone[d].token + 1 \in 1..MaxChanges + 1 /\ phone[d].changes + 1 \in 0..MaxChanges
    BY PhoneIs, ConstantTypes DEF CountsInv, NewToken
  <2> QED
    BY <1>1, <1>3, <2>1 DEF Phone
<1>5. /\ y.token = phone[d].token + 1 /\ y.changes = phone[d].changes + 1
      /\ y.since = phone[d].since /\ y.wants = phone[d].wants /\ y.fetching = phone[d].fetching
      /\ y.fetched = phone[d].fetched /\ y.shown = phone[d].shown
  BY <1>1, <1>3 DEF Phone
<1>6. y.alerted = phone[d].alerted
  BY <1>1, <1>3 DEF Phone
<1>7. y.token <= y.changes + 1 /\ y.since <= clock
  BY <1>5, PhoneIs DEF CountsInv, DatesInv
<1>8. UNCHANGED registered
  BY DEF NewToken
<1>9. phone'[d] = y
  BY <1>2, <1>4, PhoneTurns
<1>10. ASSUME NEW c \in ApplePasses, y.shown[c] # Absent PROVE Follows(d, c)
  BY <1>5, <1>6, <1>8, <1>9, <1>10, Same
<1>11. ASSUME NEW c \in ApplePasses
       PROVE  /\ c \in y.wants => y.shown[c] # Absent
              /\ y.fetching = c =>
                    y.shown[c] # Absent /\ y.shown[c] <= y.fetched /\ y.fetched <= Content(c)
              /\ y.shown[c] <= Content(c)
  BY <1>5 DEF PhonesInv
<1> QED
  BY <1>2, <1>4, <1>7, <1>8, <1>10, <1>11, OnePhone

LEMMA Installs ==
    ASSUME TypeOK, CountsInv, PhonesInv, DatesInv, NEW d \in Devices, NEW c \in ApplePasses, Install(d, c)
    PROVE  PhonesFollow /\ PhonesStay
<1>1. Content(c) \in Versions /\ Content(c) \in Nat
  BY ContentIs, ConstantTypes DEF Versions
<1>2. PICK shown : shown = [phone[d].shown EXCEPT ![c] = Content(c)]
  OBVIOUS
<1>3. /\ shown \in [ApplePasses -> Versions \cup {Absent}] /\ shown[c] = Content(c)
      /\ \A b \in ApplePasses : b # c => shown[b] = phone[d].shown[b]
  BY <1>1, <1>2, PhoneIs
<1>4. PICK y : y = [phone[d] EXCEPT !.shown = shown]
  OBVIOUS
<1>5. phone[d] \in Phone
  BY PhoneIs
<1>6. phone' = [phone EXCEPT ![d] = y]
  BY <1>2, <1>4 DEF Install
<1>7. y \in Phone
  BY <1>3, <1>4, <1>5 DEF Phone
<1>8. /\ y.token = phone[d].token /\ y.changes = phone[d].changes
      /\ y.since = phone[d].since /\ y.wants = phone[d].wants /\ y.fetching = phone[d].fetching
      /\ y.fetched = phone[d].fetched /\ y.shown = shown
  BY <1>4, <1>5 DEF Phone
<1>9. y.alerted = phone[d].alerted
  BY <1>4, <1>5 DEF Phone
<1>10. y.token <= y.changes + 1 /\ y.since <= clock
  BY <1>8 DEF CountsInv, DatesInv
<1>11. UNCHANGED registered /\ phone[d].shown[c] = Absent
  BY DEF Install
<1>12. phone'[d] = y
  BY <1>6, <1>7, PhoneTurns
<1>13. phone[d].fetching # c
  BY <1>11 DEF PhonesInv
<1>14. ASSUME NEW b \in ApplePasses, y.shown[b] # Absent PROVE Follows(d, b)
  <2>1. CASE b = c
    BY <1>1, <1>3, <1>8, <1>12, <1>13, <2>1 DEF Follows, Coming, Known
  <2>2. CASE b # c
    BY <1>3, <1>8, <1>9, <1>11, <1>12, <1>14, <2>2 DEF Follows, Coming, Known
  <2> QED
    BY <2>1, <2>2
<1>15. ASSUME NEW b \in ApplePasses
       PROVE  /\ b \in y.wants => y.shown[b] # Absent
              /\ y.fetching = b =>
                    y.shown[b] # Absent /\ y.shown[b] <= y.fetched /\ y.fetched <= Content(b)
              /\ y.shown[b] <= Content(b)
  BY <1>1, <1>3, <1>8, <1>13 DEF PhonesInv, Absent
<1> QED
  BY <1>6, <1>7, <1>10, <1>11, <1>14, <1>15, OnePhone

LEMMA Deletes ==
    ASSUME TypeOK, CountsInv, PhonesInv, DatesInv, NEW d \in Devices, NEW c \in ApplePasses, Delete(d, c)
    PROVE  PhonesFollow /\ PhonesStay
<1>1. PICK shown : shown = [phone[d].shown EXCEPT ![c] = Absent]
  OBVIOUS
<1>2. /\ shown \in [ApplePasses -> Versions \cup {Absent}] /\ shown[c] = Absent
      /\ \A b \in ApplePasses : b # c => shown[b] = phone[d].shown[b]
  BY <1>1, PhoneIs
<1>3. PICK y : y = [phone[d] EXCEPT !.shown = shown, !.wants = @ \ {c}, !.changes = @ + 1]
  OBVIOUS
<1>4. phone[d] \in Phone
  BY PhoneIs
<1>5. phone' = [phone EXCEPT ![d] = y]
  BY <1>1, <1>3 DEF Delete
<1>6. y \in Phone
  <2>1. phone[d].changes + 1 \in 0..MaxChanges
    BY PhoneIs, ConstantTypes DEF Delete
  <2> QED
    BY <1>2, <1>3, <1>4, <2>1 DEF Phone
<1>7. /\ y.token = phone[d].token /\ y.changes = phone[d].changes + 1
      /\ y.since = phone[d].since /\ y.wants = phone[d].wants \ {c}
      /\ y.fetching = phone[d].fetching /\ y.fetched = phone[d].fetched /\ y.shown = shown
  BY <1>3, <1>4 DEF Phone
<1>8. y.alerted = phone[d].alerted
  BY <1>3, <1>4 DEF Phone
<1>9. y.token <= y.changes + 1 /\ y.since <= clock
  BY <1>7, PhoneIs DEF CountsInv, DatesInv
<1>10. UNCHANGED registered /\ phone[d].fetching # c
  BY DEF Delete
<1>11. phone'[d] = y
  BY <1>5, <1>6, PhoneTurns
<1>12. ASSUME NEW b \in ApplePasses, y.shown[b] # Absent PROVE Follows(d, b)
  <2>1. b # c
    BY <1>2, <1>7, <1>12
  <2> QED
    BY <1>2, <1>7, <1>8, <1>10, <1>11, <1>12, <2>1 DEF Follows, Coming, Known
<1>13. Absent <= Content(c)
  BY ContentIs, ConstantTypes DEF Versions, Absent
<1>14. ASSUME NEW b \in ApplePasses
       PROVE  /\ b \in y.wants => y.shown[b] # Absent
              /\ y.fetching = b =>
                    y.shown[b] # Absent /\ y.shown[b] <= y.fetched /\ y.fetched <= Content(b)
              /\ y.shown[b] <= Content(b)
  BY <1>2, <1>7, <1>10, <1>13 DEF PhonesInv
<1> QED
  BY <1>5, <1>6, <1>9, <1>10, <1>12, <1>14, OnePhone

LEMMA Fetches ==
    ASSUME TypeOK, CountsInv, PhonesInv, DatesInv, NEW d \in Devices, NEW c \in ApplePasses, Fetch(d, c)
    PROVE  PhonesFollow /\ PhonesStay
<1>1. Content(c) \in Versions /\ Content(c) \in Nat /\ None \notin ApplePasses
  BY ContentIs, ConstantTypes DEF Versions
<1>2. PICK y : y = [phone[d] EXCEPT !.wants = @ \ {c}, !.fetching = c, !.fetched = Content(c)]
  OBVIOUS
<1>3. phone[d] \in Phone
  BY PhoneIs
<1>4. phone' = [phone EXCEPT ![d] = y]
  BY <1>2 DEF Fetch
<1>5. y \in Phone
  BY <1>1, <1>2, <1>3 DEF Phone
<1>6. /\ y.token = phone[d].token /\ y.changes = phone[d].changes
      /\ y.since = phone[d].since /\ y.wants = phone[d].wants \ {c}
      /\ y.fetching = c /\ y.fetched = Content(c) /\ y.shown = phone[d].shown
  BY <1>2, <1>3 DEF Phone
<1>7. y.alerted = phone[d].alerted
  BY <1>2, <1>3 DEF Phone
<1>8. y.token <= y.changes + 1 /\ y.since <= clock
  BY <1>6 DEF CountsInv, DatesInv
<1>9. UNCHANGED registered /\ phone[d].fetching = None /\ c \in phone[d].wants
  BY DEF Fetch
<1>10. phone'[d] = y
  BY <1>4, <1>5, PhoneTurns
<1>11. ASSUME NEW b \in ApplePasses, y.shown[b] # Absent PROVE Follows(d, b)
  <2>1. CASE b = c
    BY <1>1, <1>6, <1>10, <2>1 DEF Follows, Coming, Known
  <2>2. CASE b # c
    BY <1>1, <1>6, <1>7, <1>9, <1>10, <1>11, <2>2 DEF Follows, Coming, Known
  <2> QED
    BY <2>1, <2>2
<1>12. ASSUME NEW b \in ApplePasses
       PROVE  /\ b \in y.wants => y.shown[b] # Absent
              /\ y.fetching = b =>
                    y.shown[b] # Absent /\ y.shown[b] <= y.fetched /\ y.fetched <= Content(b)
              /\ y.shown[b] <= Content(b)
  BY <1>1, <1>6, <1>9 DEF PhonesInv
<1> QED
  BY <1>4, <1>5, <1>8, <1>9, <1>11, <1>12, OnePhone

LEMMA Shows ==
    ASSUME TypeOK, CountsInv, PhonesInv, DatesInv, NEW d \in Devices, NEW c \in ApplePasses, Show(d, c)
    PROVE  PhonesFollow /\ PhonesStay
<1>1. None \notin ApplePasses /\ 0 \in Versions /\ phone[d].fetched \in Versions \cup {Absent}
  BY ConstantTypes DEF Versions, TypeOK, Phone
<1>2. PICK shown : shown = [phone[d].shown EXCEPT ![c] = phone[d].fetched]
  OBVIOUS
<1>3. /\ shown \in [ApplePasses -> Versions \cup {Absent}] /\ shown[c] = phone[d].fetched
      /\ \A b \in ApplePasses : b # c => shown[b] = phone[d].shown[b]
  BY <1>1, <1>2, PhoneIs
<1>4. PICK y : y = [phone[d] EXCEPT !.shown = shown, !.fetching = None, !.fetched = 0]
  OBVIOUS
<1>5. phone[d] \in Phone
  BY PhoneIs
<1>6. phone' = [phone EXCEPT ![d] = y]
  BY <1>2, <1>4 DEF Show
<1>7. y \in Phone
  BY <1>1, <1>3, <1>4, <1>5 DEF Phone
<1>8. /\ y.token = phone[d].token /\ y.changes = phone[d].changes
      /\ y.since = phone[d].since /\ y.wants = phone[d].wants
      /\ y.fetching = None /\ y.fetched = 0 /\ y.shown = shown
  BY <1>4, <1>5 DEF Phone
<1>9. y.alerted = phone[d].alerted
  BY <1>4, <1>5 DEF Phone
<1>10. y.token <= y.changes + 1 /\ y.since <= clock
  BY <1>8 DEF CountsInv, DatesInv
<1>11. UNCHANGED registered /\ phone[d].fetching = c
  BY DEF Show
<1>12. phone'[d] = y
  BY <1>6, <1>7, PhoneTurns
<1>13. phone[d].shown[c] # Absent
  BY <1>11 DEF PhonesInv
<1>14. ASSUME NEW b \in ApplePasses, y.shown[b] # Absent PROVE Follows(d, b)
  <2>1. CASE b = c
    BY <1>1, <1>3, <1>8, <1>9, <1>11, <1>12, <1>13, <2>1 DEF Follows, Coming, Known
  <2>2. CASE b # c
    BY <1>1, <1>3, <1>8, <1>9, <1>11, <1>12, <1>14, <2>2 DEF Follows, Coming, Known
  <2> QED
    BY <2>1, <2>2
<1>15. phone[d].fetched # Absent
  BY PhoneIs DEF Absent
<1>16. ASSUME NEW b \in ApplePasses
       PROVE  /\ b \in y.wants => y.shown[b] # Absent
              /\ y.fetching = b =>
                    y.shown[b] # Absent /\ y.shown[b] <= y.fetched /\ y.fetched <= Content(b)
              /\ y.shown[b] <= Content(b)
  BY <1>1, <1>3, <1>8, <1>11, <1>15 DEF PhonesInv
<1> QED
  BY <1>6, <1>7, <1>10, <1>11, <1>14, <1>16, OnePhone

\* The tag of the answer is not later than the date of some pass listed.
LEMMA Tags ==
    ASSUME TypeOK, NEW serials \in SUBSET ApplePasses, serials # {}
    PROVE  LastUpdated(serials) \in 0..MaxMoves
           /\ \E b \in serials : LastUpdated(serials) <= updatedAt[b]
<1>1. PICK dates : dates = {updatedAt[c] : c \in serials}
  OBVIOUS
<1>2. dates \in SUBSET (0..MaxMoves) /\ dates # {} /\ MaxMoves \in Nat
  BY <1>1, ConstantTypes DEF TypeOK
<1>3. Max(dates) \in dates
  BY <1>2, Greatest
<1>4. PICK t : t = Max(dates)
  OBVIOUS
<1>8. t \in dates /\ t \in Nat /\ t <= MaxMoves
  <2>1. t \in dates
    BY <1>3, <1>4, Zenon
  <2>2. t \in 0..MaxMoves
    BY <1>2, <2>1, Zenon
  <2> QED
    BY <1>2, <2>1, <2>2
<1>5. Truncated(t) \in 0..t
  BY <1>8, TruncatedBelow
<1>6. LastUpdated(serials) = Truncated(t)
  BY <1>1, <1>4 DEF LastUpdated
<1>7. PICK b \in serials : updatedAt[b] = t
  BY <1>1, <1>8
<1> QED
  BY <1>2, <1>5, <1>6, <1>7, <1>8

LEMMA Asks ==
    ASSUME TypeOK, CountsInv, PhonesInv, DatesInv, NEW d \in Devices, Ask(d)
    PROVE  PhonesFollow /\ PhonesStay
<1>1. PICK serials \in SUBSET ApplePasses :
         serials = {c \in ApplePasses :
                      /\ registered[d][c] # 0
                      /\ phone[d].since = Absent \/ updatedAt[c] > phone[d].since}
  OBVIOUS
<1>2. PICK since : since = IF serials = {} THEN phone[d].since ELSE LastUpdated(serials)
  OBVIOUS
<1>3. PICK wants \in SUBSET ApplePasses :
         wants = phone[d].wants \cup {c \in serials : phone[d].shown[c] # Absent}
  BY PhoneIs
<1>4. PICK y : y = [phone[d] EXCEPT !.alerted = FALSE, !.since = since, !.wants = wants]
  OBVIOUS
<1>5. phone[d] \in Phone
  BY PhoneIs
<1>6. phone' = [phone EXCEPT ![d] = y]
  BY <1>1, <1>2, <1>3, <1>4 DEF Ask
<1>7. /\ \/ since = phone[d].since
         \/ since \in 0..MaxMoves /\ \E b \in serials : since <= updatedAt[b]
      /\ since \in 0..MaxMoves \cup {Absent}
  <2>1. CASE serials = {}
    <3>1. phone[d].since \in 0..MaxMoves \cup {Absent}
      BY <1>5 DEF Phone
    <3> QED
      BY <1>2, <2>1, <3>1
  <2>2. CASE serials # {}
    <3>1. LastUpdated(serials) \in 0..MaxMoves /\ \E b \in serials : LastUpdated(serials) <= updatedAt[b]
      BY <2>2, Tags
    <3> QED
      BY <1>2, <2>2, <3>1
  <2> QED
    BY <2>1, <2>2
<1>8. y \in Phone
  BY <1>4, <1>5, <1>7 DEF Phone
<1>9. /\ y.token = phone[d].token /\ y.changes = phone[d].changes
      /\ y.since = since /\ y.wants = wants
      /\ y.fetching = phone[d].fetching /\ y.fetched = phone[d].fetched /\ y.shown = phone[d].shown
  BY <1>4, <1>5 DEF Phone
<1>10. UNCHANGED registered
  BY DEF Ask
<1>11. phone'[d] = y
  BY <1>6, <1>8, PhoneTurns
<1>12. ASSUME NEW c \in ApplePasses, updatedAt[c] > phone[d].since, registered[d][c] # 0,
              y.shown[c] # Absent
       PROVE  c \in y.wants
  BY <1>1, <1>3, <1>9, <1>12
<1>13. \A c \in ApplePasses : updatedAt[c] \in Nat /\ updatedAt[c] <= clock
  BY ConstantTypes DEF TypeOK, DatesInv
<1>14. y.since <= clock
  <2>1. CASE since = phone[d].since
    BY <1>9, <2>1 DEF DatesInv
  <2>2. CASE since \in 0..MaxMoves /\ \E b \in serials : since <= updatedAt[b]
    <3>1. PICK b \in serials : since <= updatedAt[b]
      BY <2>2
    <3>2. clock \in Nat /\ MaxMoves \in Nat /\ since \in Nat
      BY <2>2, ConstantTypes DEF TypeOK
    <3> QED
      BY <1>9, <1>13, <3>1, <3>2
  <2> QED
    BY <1>7, <2>1, <2>2
<1>15. ASSUME NEW c \in ApplePasses, y.shown[c] # Absent PROVE Follows(d, c)
  <2>1. phone[d].shown[c] # Absent
    BY <1>9, <1>15
  <2>2. \A n \in 0..Content(c) : Coming(d, c, n) => Coming(d, c, n)'
    BY <1>3, <1>9, <1>11 DEF Coming, Known
  <2>3. Newer(d, c) => c \in phone'[d].wants
    BY <1>11, <1>12, <1>15 DEF Newer
  <2>4. \/ phone'[d].since = phone[d].since
        \/ c \in phone'[d].wants
        \/ \E b \in ApplePasses \ {c} : phone'[d].since <= updatedAt[b]
    <3>1. CASE c \in serials
      BY <1>3, <1>9, <1>11, <2>1, <3>1
    <3>2. CASE c \notin serials
      BY <1>7, <1>9, <1>11, <3>2
    <3> QED
      BY <3>1, <3>2
  <2> QED
    BY <1>10, <2>1, <2>2, <2>3, <2>4 DEF Follows
<1>16. y.token <= y.changes + 1
  BY <1>9 DEF CountsInv
<1>17. ASSUME NEW c \in ApplePasses
       PROVE  /\ c \in y.wants => y.shown[c] # Absent
              /\ y.fetching = c =>
                    y.shown[c] # Absent /\ y.shown[c] <= y.fetched /\ y.fetched <= Content(c)
              /\ y.shown[c] <= Content(c)
  BY <1>3, <1>9 DEF PhonesInv
<1> QED
  BY <1>6, <1>8, <1>10, <1>14, <1>15, <1>16, <1>17, OnePhone

LEMMA PhoneSteps ==
    ASSUME TypeOK, CountsInv, PhonesInv, DatesInv, NEW d \in Devices, PhoneStep(d)
    PROVE  PhonesFollow /\ PhonesStay
           /\ UNCHANGED <<balance, promo, jobs, clock, updatedAt, due, object>>
<1>1. UNCHANGED <<balance, promo, jobs, clock, updatedAt, due, object>>
  BY DEF PhoneStep, NewToken, Ask, Register, Unregister, Install, Delete, Fetch, Show
<1> QED
  BY <1>1, NewTokens, Asks, Registers, Installs, Deletes, Fetches, Shows DEF PhoneStep

\* A push that wakes a phone leaves it with something to ask.
LEMMA Wakes ==
    ASSUME TypeOK, CountsInv, PhonesInv, DatesInv, NEW d \in Devices, NEW wakes \in BOOLEAN,
           phone' = [phone EXCEPT ![d].alerted = @ \/ wakes], UNCHANGED registered
    PROVE  PhonesFollow /\ PhonesStay /\ (wakes => phone'[d].alerted)
<1>1. PICK alerted : alerted = (phone[d].alerted \/ wakes)
  OBVIOUS
<1>2. alerted \in BOOLEAN
  BY <1>1
<1>3. PICK y : y = [phone[d] EXCEPT !.alerted = alerted]
  OBVIOUS
<1>4. phone[d] \in Phone
  BY PhoneIs
<1>5. phone' = [phone EXCEPT ![d] = y]
  BY <1>1, <1>3, Zenon
<1>6. y \in Phone
  BY <1>2, <1>3, <1>4 DEF Phone
<1>7. /\ y.token = phone[d].token /\ y.changes = phone[d].changes /\ y.since = phone[d].since
      /\ y.wants = phone[d].wants /\ y.fetching = phone[d].fetching
      /\ y.fetched = phone[d].fetched /\ y.shown = phone[d].shown
  BY <1>3, <1>4 DEF Phone
<1>8. y.alerted = alerted
  BY <1>3, <1>4 DEF Phone
<1>9. /\ phone' \in [Devices -> Phone] /\ phone'[d] = y
      /\ \A e \in Devices : e # d => phone'[e] = phone[e]
  BY <1>5, <1>6, PhoneTurns
<1>10. ASSUME NEW e \in Devices
       PROVE  /\ phone'[e].shown = phone[e].shown /\ phone'[e].wants = phone[e].wants
              /\ phone'[e].fetching = phone[e].fetching /\ phone'[e].fetched = phone[e].fetched
              /\ phone'[e].since = phone[e].since /\ phone'[e].token = phone[e].token
              /\ phone'[e].changes = phone[e].changes /\ (phone[e].alerted => phone'[e].alerted)
  <2>1. CASE e = d
    BY <1>1, <1>7, <1>8, <1>9, <2>1
  <2>2. CASE e # d
    BY <1>9, <2>2
  <2> QED
    BY <2>1, <2>2
<1>11. wakes => phone'[d].alerted
  BY <1>1, <1>8, <1>9
<1> QED
  BY <1>9, <1>10, <1>11, Unchanging

----------------------------------------------------------------------------
(* The parts of the invariant that a step leaves alone.                    *)

\* No job is dated, dates a pass, or sends a push that it did not.
AppleFollows ==
    /\ DOMAIN jobs \subseteq DOMAIN jobs' /\ jobs' \in Seq(Job)
    /\ \A k \in DOMAIN jobs :
         /\ jobs'[k].customer = jobs[k].customer
         /\ jobs[k].apple # "scheduled" => jobs'[k].apple # "scheduled"
    /\ \A k \in DOMAIN jobs' :
         \/ /\ jobs'[k].apple \in {"scheduled", "over"}
            /\ \A d \in Devices, c \in ApplePasses : jobs'[k].push[d][c] = NoPush
         \/ /\ k \in DOMAIN jobs
            /\ jobs'[k].apple = jobs[k].apple /\ jobs'[k].started = jobs[k].started
            /\ jobs'[k].overtaken = jobs[k].overtaken
            /\ \A d \in Devices, c \in ApplePasses : jobs'[k].push[d][c] # NoPush => Pushed(k, d, c)

\* No job of Google's does more than give up.
GoogleFollows ==
    /\ DOMAIN jobs \subseteq DOMAIN jobs' /\ jobs' \in Seq(Job)
    /\ \A k \in DOMAIN jobs' :
         \/ /\ k \in DOMAIN jobs /\ jobs'[k].customer = jobs[k].customer
            /\ jobs'[k].google = jobs[k].google /\ jobs'[k].snapshot = jobs[k].snapshot
            /\ jobs'[k].alone => jobs[k].alone
         \/ jobs'[k].google = "over" /\ ~jobs'[k].alone

\* The jobs that had a date still have one.
LEMMA DatedGrows ==
    ASSUME TypeOK, CountsInv, AppleFollows
    PROVE  clock <= Cardinality({j \in DOMAIN jobs' : jobs'[j].apple # "scheduled"})
<1>1. PICK S : S = {j \in DOMAIN jobs : jobs[j].apple # "scheduled"}
  OBVIOUS
<1>2. PICK T : T = {j \in DOMAIN jobs' : jobs'[j].apple # "scheduled"}
  OBVIOUS
<1>3. S \subseteq T
  BY <1>1, <1>2 DEF AppleFollows
<1>4. IsFiniteSet(DOMAIN jobs')
  <2>1. Len(jobs') \in Nat
    BY LenProperties DEF AppleFollows
  <2>2. DOMAIN jobs' = 1..Len(jobs')
    BY LenProperties DEF AppleFollows
  <2>3. PICK n \in Nat : n = Len(jobs')
    BY <2>1, Zenon
  <2>4. IsFiniteSet(1..n)
    BY FS_Interval
  <2> QED
    BY <2>2, <2>3, <2>4
<1>5. T \subseteq DOMAIN jobs'
  BY <1>2
<1>6. IsFiniteSet(T)
  BY <1>4, <1>5, FS_Subset
<1>7. Cardinality(S) <= Cardinality(T) /\ Cardinality(S) \in Nat /\ Cardinality(T) \in Nat
  BY <1>3, <1>6, FS_Subset, FS_CardinalityType
<1>8. clock <= Cardinality(S)
  BY <1>1 DEF CountsInv
<1>9. clock \in Nat
  BY ConstantTypes DEF TypeOK
<1>10. clock <= Cardinality(T)
  BY <1>7, <1>8, <1>9
<1> QED
  BY <1>2, <1>10

LEMMA CountsStay ==
    ASSUME TypeOK, CountsInv, AppleFollows, PhonesStay, UNCHANGED clock,
           promo' <= Len(jobs') /\ \A c \in Customers : balance'[c] <= Len(jobs')
    PROVE  CountsInv'
<1>1. clock <= Cardinality({j \in DOMAIN jobs' : jobs'[j].apple # "scheduled"})
  BY DatedGrows
<1> QED
  BY <1>1 DEF CountsInv, PhonesStay

\* Cards never show what has not committed, even as more does.
LEMMA PhonesStand ==
    ASSUME TypeOK, PhonesInv, PhonesStay, UNCHANGED due,
           \A c \in Customers : Content(c) <= Content(c)' /\ Content(c) \in Int /\ Content(c)' \in Int
    PROVE  PhonesInv'
<1> SUFFICES ASSUME NEW d \in Devices, NEW c \in ApplePasses
             PROVE  /\ c \in phone'[d].wants => phone'[d].shown[c] # Absent
                    /\ phone'[d].fetching = c =>
                          /\ phone'[d].shown[c] # Absent
                          /\ phone'[d].shown[c] <= phone'[d].fetched /\ phone'[d].fetched <= Content(c)'
                    /\ phone'[d].shown[c] <= Content(c)'
                    /\ due'[d][c] <= Content(c)'
  BY DEF PhonesInv
<1>1. c \in Customers
  BY ConstantTypes
<1>2. phone'[d].shown[c] \in Int /\ phone'[d].fetched \in Int /\ due[d][c] \in Int
  BY ConstantTypes DEF PhonesStay, Phone, Versions, Absent, TypeOK
<1> QED
  BY <1>1, <1>2 DEF PhonesInv, PhonesStay

LEMMA JobsStand ==
    ASSUME TypeOK, JobsInv, AppleFollows,
           \A c \in Customers : Content(c) <= Content(c)' /\ Content(c) \in Int /\ Content(c)' \in Int,
           \A k \in DOMAIN jobs' \ DOMAIN jobs : \A c \in Passes(k)' : Content(c)' >= k
    PROVE  JobsInv'
<1> SUFFICES ASSUME NEW k \in DOMAIN jobs'
             PROVE  /\ \A c \in Passes(k)' : Content(c)' >= k
                    /\ \A d \in Devices, c \in ApplePasses : Pushed(k, d, c)' =>
                         c \in Passes(k)' /\ jobs'[k].apple \in {"bumped", "pushing"}
  BY DEF JobsInv
<1>1. \A c \in Passes(k)' : Content(c)' >= k
  <2>1. CASE k \in DOMAIN jobs
    <3>1. Passes(k)' = Passes(k) /\ Passes(k) \subseteq Customers
      BY <2>1, ConstantTypes DEF AppleFollows, Passes, PassesOf
    <3>2. k \in Int
      BY <2>1, JobsAre
    <3> QED
      BY <2>1, <3>1, <3>2 DEF JobsInv
  <2>2. CASE k \notin DOMAIN jobs
    BY <2>2
  <2> QED
    BY <2>1, <2>2
<1>2. ASSUME NEW d \in Devices, NEW c \in ApplePasses, Pushed(k, d, c)'
      PROVE  c \in Passes(k)' /\ jobs'[k].apple \in {"bumped", "pushing"}
  <2>1. jobs'[k].push[d][c] # NoPush
    BY <1>2 DEF Pushed
  <2>2. k \in DOMAIN jobs /\ jobs'[k].apple = jobs[k].apple /\ Pushed(k, d, c)
    BY <2>1 DEF AppleFollows
  <2>3. Passes(k)' = Passes(k)
    BY <2>2 DEF AppleFollows, Passes, PassesOf
  <2> QED
    BY <2>2, <2>3 DEF JobsInv
<1> QED
  BY <1>1, <1>2

LEMMA DatesStand ==
    ASSUME TypeOK, DatesInv, AppleFollows, PhonesStay, UNCHANGED <<clock, updatedAt>>
    PROVE  DatesInv'
<1>1. ASSUME NEW j \in DOMAIN jobs', Waiting(j)'
      PROVE  /\ j \in DOMAIN jobs /\ Waiting(j) /\ jobs'[j].started = jobs[j].started
             /\ jobs'[j].overtaken = jobs[j].overtaken /\ Passes(j)' = Passes(j)
  BY <1>1 DEF AppleFollows, Waiting, Passes, PassesOf
<1>2. ASSUME NEW j \in DOMAIN jobs', Waiting(j)'
      PROVE  /\ jobs'[j].started <= clock
             /\ \A k \in DOMAIN jobs' : Waiting(k)' /\ jobs'[k].started = jobs'[j].started => k = j
             /\ \A c \in Passes(j)' \ jobs'[j].overtaken : \A b \in ApplePasses \ {c} :
                  updatedAt[b] < jobs'[j].started
  BY <1>1, <1>2 DEF DatesInv
<1>3. \A d \in Devices : phone'[d].since <= clock
  BY DEF PhonesStay
<1> QED
  BY <1>2, <1>3 DEF DatesInv

\* What a phone knows of, or is told when it asks, stays on its way to it.
LEMMA Answered ==
    ASSUME PhonesFollow, UNCHANGED updatedAt,
           NEW d \in Devices, NEW c \in ApplePasses, phone'[d].shown[c] # Absent,
           NEW n \in 0..Content(c),
           phone[d].shown[c] # Absent =>
               Coming(d, c, n) \/ (Newer(d, c) /\ (phone[d].alerted \/ phone'[d].alerted))
    PROVE  Coming(d, c, n)' \/ (phone'[d].alerted /\ Newer(d, c)')
<1>1. CASE \A v \in 0..Content(c) : Coming(d, c, v)'
  <2>1. Coming(d, c, n)'
    BY <1>1 DEF Coming, Known
  <2> QED
    BY <2>1
<1>2. CASE ~ \A v \in 0..Content(c) : Coming(d, c, v)'
  <2>1. Follows(d, c)
    BY DEF PhonesFollow
  <2>2. /\ phone[d].shown[c] # Absent
        /\ \A v \in 0..Content(c) : Coming(d, c, v) => Coming(d, c, v)'
        /\ registered[d][c] # 0 => registered'[d][c] # 0
        /\ \/ phone'[d].since = phone[d].since /\ (phone[d].alerted => phone'[d].alerted)
           \/ Newer(d, c) => c \in phone'[d].wants
    BY <1>2, <2>1 DEF Follows
  <2>3. CASE Coming(d, c, n)
    <3>1. Coming(d, c, n)'
      BY <2>2, <2>3 DEF Coming, Known
    <3> QED
      BY <3>1
  <2>4. CASE Newer(d, c) /\ (phone[d].alerted \/ phone'[d].alerted)
    BY <2>2, <2>4 DEF Newer, Coming
  <2> QED
    BY <2>2, <2>3, <2>4
<1> QED
  BY <1>1, <1>2

LEMMA DueStands ==
    ASSUME TypeOK, PhonesInv, DueInv, PhonesFollow, UNCHANGED <<updatedAt, due>>
    PROVE  DueInv'
<1> SUFFICES ASSUME NEW d \in Devices, NEW c \in ApplePasses, phone'[d].shown[c] # Absent
             PROVE  Coming(d, c, due[d][c])' \/ (phone'[d].alerted /\ Newer(d, c)')
  BY DEF DueInv
<1>1. PICK n \in 0..Content(c) : n = due[d][c]
  BY ConstantTypes, ContentIs DEF TypeOK, Versions, PhonesInv
<1>2. phone[d].shown[c] # Absent => Coming(d, c, n) \/ (Newer(d, c) /\ phone[d].alerted)
  BY <1>1 DEF DueInv
<1>3. Coming(d, c, n)' \/ (phone'[d].alerted /\ Newer(d, c)')
  BY <1>2, Answered
<1> QED
  BY <1>1, <1>3 DEF Coming, Known

LEMMA OpenStands ==
    ASSUME TypeOK, JobsInv, DatesInv, OpenInv, AppleFollows, PhonesFollow, PhonesStay,
           UNCHANGED <<clock, updatedAt>>
    PROVE  OpenInv'
<1> SUFFICES ASSUME NEW j \in DOMAIN jobs', NEW d \in Devices, Waiting(j)',
                    NEW c \in Passes(j)' \ jobs'[j].overtaken, phone'[d].shown[c] # Absent
             PROVE  /\ jobs'[j].started > phone'[d].since \/ Coming(d, c, j)'
                    /\ Pushed(j, d, c)' => registered'[d][c] # 0 \/ Coming(d, c, j)'
  BY DEF OpenInv
<1>1. /\ j \in DOMAIN jobs /\ Waiting(j) /\ jobs'[j].started = jobs[j].started
      /\ jobs'[j].overtaken = jobs[j].overtaken /\ Passes(j)' = Passes(j) /\ c \in ApplePasses
  BY DEF AppleFollows, Waiting, Passes, PassesOf
<1>2. Pushed(j, d, c)' => Pushed(j, d, c)
  BY <1>1 DEF AppleFollows, Waiting, Pushed
<1>3. c \in Passes(j) \ jobs[j].overtaken /\ j \in 0..Content(c)
  <2>1. c \in Passes(j) \ jobs[j].overtaken /\ c \in Customers
    BY <1>1, ConstantTypes
  <2>2. Content(c) >= j /\ Content(c) \in Int /\ j \in Nat
    BY <1>1, <2>1, JobsAre, ContentIs, ConstantTypes DEF JobsInv, Versions
  <2> QED
    BY <2>1, <2>2
<1>4. CASE \A n \in 0..Content(c) : Coming(d, c, n)'
  <2>1. Coming(d, c, j)'
    BY <1>3, <1>4 DEF Coming, Known
  <2> QED
    BY <2>1
<1>5. CASE ~ \A n \in 0..Content(c) : Coming(d, c, n)'
  <2>1. Follows(d, c)
    BY <1>1 DEF PhonesFollow
  <2>2. /\ phone[d].shown[c] # Absent
        /\ \A n \in 0..Content(c) : Coming(d, c, n) => Coming(d, c, n)'
        /\ registered[d][c] # 0 => registered'[d][c] # 0
        /\ \/ phone'[d].since = phone[d].since
           \/ c \in phone'[d].wants
           \/ \E b \in ApplePasses \ {c} : phone'[d].since <= updatedAt[b]
    BY <1>5, <2>1 DEF Follows
  <2>3. Coming(d, c, j) => Coming(d, c, j)'
    BY <1>3, <2>2 DEF Coming, Known
  <2>4. /\ jobs[j].started > phone[d].since \/ Coming(d, c, j)
        /\ Pushed(j, d, c) => registered[d][c] # 0 \/ Coming(d, c, j)
    BY <1>1, <1>3, <2>2 DEF OpenInv
  <2>5. CASE \E b \in ApplePasses \ {c} : phone'[d].since <= updatedAt[b]
    <3>1. PICK b \in ApplePasses \ {c} : phone'[d].since <= updatedAt[b]
      BY <2>5
    <3>2. updatedAt[b] < jobs[j].started
      BY <1>1, <1>3 DEF DatesInv
    <3>3. updatedAt[b] \in Int /\ jobs[j].started \in Int /\ phone'[d].since \in Int
      <4>1. updatedAt[b] \in 0..MaxMoves
        BY DEF TypeOK
      <4>2. jobs[j].started \in 0..MaxMoves
        BY <1>1, JobsAre DEF Job
      <4>3. phone'[d].since \in 0..MaxMoves \cup {Absent}
        BY DEF PhonesStay, Phone
      <4> QED
        BY <4>1, <4>2, <4>3, ConstantTypes DEF Absent
    <3> QED
      BY <1>1, <1>2, <2>2, <2>3, <2>4, <3>1, <3>2, <3>3
  <2>6. CASE c \in phone'[d].wants
    BY <2>6 DEF Coming
  <2>7. CASE phone'[d].since = phone[d].since
    BY <1>1, <1>2, <2>2, <2>3, <2>4, <2>7
  <2> QED
    BY <2>2, <2>5, <2>6, <2>7
<1> QED
  BY <1>4, <1>5

LEMMA PushesStand ==
    ASSUME TypeOK, JobsInv, PushInv, AppleFollows, PhonesFollow, UNCHANGED updatedAt
    PROVE  PushInv'
<1> SUFFICES ASSUME NEW j \in DOMAIN jobs', NEW d \in Devices, jobs'[j].apple = "pushing",
                    NEW c \in Passes(j)' \ jobs'[j].overtaken,
                    phone'[d].shown[c] # Absent, Pushed(j, d, c)'
             PROVE  Newer(d, c)' \/ Coming(d, c, j)'
  BY DEF PushInv
<1>1. /\ j \in DOMAIN jobs /\ jobs[j].apple = "pushing"
      /\ jobs'[j].overtaken = jobs[j].overtaken /\ Passes(j)' = Passes(j) /\ c \in ApplePasses
  BY DEF AppleFollows, Passes, PassesOf
<1>2. Pushed(j, d, c)
  BY <1>1 DEF AppleFollows, Pushed
<1>3. c \in Passes(j) \ jobs[j].overtaken /\ j \in 0..Content(c)
  <2>1. c \in Passes(j) \ jobs[j].overtaken /\ c \in Customers
    BY <1>1, ConstantTypes
  <2>2. Content(c) >= j /\ Content(c) \in Int /\ j \in Nat
    BY <1>1, <2>1, JobsAre, ContentIs, ConstantTypes DEF JobsInv, Versions
  <2> QED
    BY <2>1, <2>2
<1>4. CASE \A n \in 0..Content(c) : Coming(d, c, n)'
  <2>1. Coming(d, c, j)'
    BY <1>3, <1>4 DEF Coming, Known
  <2> QED
    BY <2>1
<1>5. CASE ~ \A n \in 0..Content(c) : Coming(d, c, n)'
  <2>1. Follows(d, c)
    BY <1>1 DEF PhonesFollow
  <2>2. /\ phone[d].shown[c] # Absent
        /\ \A n \in 0..Content(c) : Coming(d, c, n) => Coming(d, c, n)'
        /\ registered[d][c] # 0 => registered'[d][c] # 0
        /\ phone'[d].since = phone[d].since \/ (Newer(d, c) => c \in phone'[d].wants)
    BY <1>5, <2>1 DEF Follows
  <2>3. Coming(d, c, j) => Coming(d, c, j)'
    BY <1>3, <2>2 DEF Coming, Known
  <2>4. Newer(d, c) \/ Coming(d, c, j)
    BY <1>1, <1>2, <1>3, <2>2 DEF PushInv
  <2> QED
    BY <2>2, <2>3, <2>4 DEF Newer, Coming
<1> QED
  BY <1>4, <1>5

LEMMA GoogleStands ==
    ASSUME TypeOK, SnapshotsInv, AloneInv, GoogleInSync, GoogleFollows, UNCHANGED <<balance, object>>
    PROVE  SnapshotsInv' /\ AloneInv' /\ GoogleInSync'
<1>1. ASSUME NEW j \in DOMAIN jobs', ~(jobs'[j].google = "over" /\ ~jobs'[j].alone)
      PROVE  /\ j \in DOMAIN jobs /\ jobs'[j].customer = jobs[j].customer
             /\ jobs'[j].google = jobs[j].google /\ jobs'[j].snapshot = jobs[j].snapshot
             /\ jobs'[j].alone => jobs[j].alone
  BY <1>1 DEF GoogleFollows
<1>2. SnapshotsInv'
  <2> SUFFICES ASSUME NEW j \in DOMAIN jobs'
               PROVE  /\ jobs'[j].alone => jobs'[j].google # "over"
                      /\ jobs'[j].google # "over" => jobs'[j].customer \in GooglePasses /\ balance[jobs'[j].customer] >= j
                      /\ jobs'[j].google \in {"inserting", "patching"} =>
                            jobs'[j].snapshot \in j .. balance[jobs'[j].customer]
    BY DEF SnapshotsInv
  <2>1. CASE jobs'[j].google = "over" /\ ~jobs'[j].alone
    BY <2>1 DEF GoogleOver
  <2>2. CASE ~(jobs'[j].google = "over" /\ ~jobs'[j].alone)
    BY <1>1, <2>2 DEF SnapshotsInv, GoogleOver
  <2> QED
    BY <2>1, <2>2
<1>3. AloneInv'
  <2> SUFFICES ASSUME NEW j \in DOMAIN jobs', jobs'[j].alone, balance[jobs'[j].customer] = j,
                      NEW k \in DOMAIN jobs' \ {j}, jobs'[k].customer = jobs'[j].customer
               PROVE  GoogleOver(k)'
    BY DEF AloneInv
  <2>1. CASE jobs'[k].google = "over" /\ ~jobs'[k].alone
    BY <2>1 DEF GoogleOver
  <2>2. CASE ~(jobs'[k].google = "over" /\ ~jobs'[k].alone)
    BY <1>1, <2>2 DEF AloneInv, GoogleOver
  <2> QED
    BY <2>1, <2>2
<1>4. GoogleInSync'
  BY <1>1 DEF GoogleInSync
<1> QED
  BY <1>2, <1>3, <1>4

\* While a notification that is alone is under way, it is the only one that
\* writes the object of its customer.
LEMMA GoogleUpdates ==
    ASSUME TypeOK, SnapshotsInv, AloneInv, GoogleInSync, UNCHANGED balance,
           NEW j \in DOMAIN jobs, NEW x, Updates(j, x)
    PROVE  /\ object' \in [Customers -> Versions \cup {Absent}]
           /\ SnapshotsInv' /\ AloneInv' /\ GoogleInSync'
<1>1. /\ jobs' \in Seq(Job) /\ DOMAIN jobs' = DOMAIN jobs
      /\ jobs'[j] = x /\ \A k \in DOMAIN jobs : k # j => jobs'[k] = jobs[k]
  BY JobTurns DEF Updates, Turns
<1>2. PICK c : c = jobs[j].customer
  OBVIOUS
<1>3. /\ c \in Customers /\ c \in GooglePasses /\ balance[c] >= j /\ balance[c] \in Int /\ j \in Nat
      /\ balance[c] \in Versions
  <2>1. c \in GooglePasses /\ balance[c] >= j
    BY <1>2 DEF Updates, SnapshotsInv, GoogleOver
  <2>2. c \in Customers
    BY <2>1, ConstantTypes
  <2> QED
    BY <2>1, <2>2, ConstantTypes, JobsAre DEF TypeOK, Versions
<1>4. x.customer = c /\ x \in Job /\ ~GoogleOver(j)
  BY <1>2 DEF Updates, AppleKept
<1>5. \/ x.google = "inserting" /\ x.snapshot = balance[c] /\ x.alone = jobs[j].alone /\ object' = object
      \/ /\ jobs[j].snapshot \in j .. balance[c]
         /\ \/ object' = object /\ x.google # "ok"
            \/ object' = [object EXCEPT ![c] = jobs[j].snapshot]
         /\ \/ /\ x.google \in {"inserting", "patching", "ok"}
               /\ x.snapshot = jobs[j].snapshot \/ x.google = "ok"
               /\ x.alone = jobs[j].alone
            \/ x.google = "over" /\ ~x.alone
  <2>1. jobs[j].google # "scheduled" => jobs[j].snapshot \in j .. balance[c]
    <3>1. jobs[j].google \in {"scheduled", "inserting", "patching", "ok", "over"}
      BY JobsAre DEF Job
    <3> QED
      BY <1>2, <1>4, <3>1 DEF SnapshotsInv, GoogleOver
  <2> QED
    BY <1>2, <2>1 DEF Updates
<1>6. object' \in [Customers -> Versions \cup {Absent}]
  <2>1. \A v \in j .. balance[c] : v \in Versions
    BY <1>3, ConstantTypes DEF Versions
  <2> QED
    BY <1>3, <1>5, <2>1 DEF TypeOK
<1>7. SnapshotsInv'
  <2> SUFFICES ASSUME NEW k \in DOMAIN jobs'
               PROVE  /\ jobs'[k].alone => jobs'[k].google # "over"
                      /\ jobs'[k].google # "over" => jobs'[k].customer \in GooglePasses /\ balance[jobs'[k].customer] >= k
                      /\ jobs'[k].google \in {"inserting", "patching"} =>
                            jobs'[k].snapshot \in k .. balance[jobs'[k].customer]
    BY DEF SnapshotsInv
  <2>1. CASE k = j
    BY <1>1, <1>3, <1>4, <1>5, <2>1
  <2>2. CASE k # j
    BY <1>1, <2>2 DEF SnapshotsInv, GoogleOver
  <2> QED
    BY <2>1, <2>2
<1>8. ASSUME NEW k \in DOMAIN jobs, k # j, jobs[k].alone, balance[jobs[k].customer] = k
      PROVE  jobs[k].customer # c
  BY <1>2, <1>4, <1>8 DEF AloneInv
<1>9. AloneInv'
  <2> SUFFICES ASSUME NEW k \in DOMAIN jobs', jobs'[k].alone, balance[jobs'[k].customer] = k,
                      NEW i \in DOMAIN jobs' \ {k}, jobs'[i].customer = jobs'[k].customer
               PROVE  GoogleOver(i)'
    BY DEF AloneInv
  <2>1. CASE k = j
    <3>1. jobs[j].alone
      BY <1>1, <1>5, <2>1
    <3> QED
      BY <1>1, <1>2, <1>4, <2>1, <3>1 DEF AloneInv, GoogleOver
  <2>2. CASE k # j
    <3>1. i # j
      BY <1>1, <1>4, <1>8, <2>2
    <3> QED
      BY <1>1, <2>2, <3>1 DEF AloneInv, GoogleOver
  <2> QED
    BY <2>1, <2>2
<1>10. GoogleInSync'
  <2> SUFFICES ASSUME NEW k \in DOMAIN jobs', jobs'[k].google = "ok", jobs'[k].alone,
                      balance[jobs'[k].customer] = k
               PROVE  object'[jobs'[k].customer] = k
    BY DEF GoogleInSync
  <2>1. CASE k = j
    <3>1. jobs[j].snapshot \in j .. balance[c] /\ object' = [object EXCEPT ![c] = jobs[j].snapshot]
      BY <1>1, <1>5, <2>1
    <3> QED
      BY <1>1, <1>3, <1>4, <2>1, <3>1 DEF TypeOK
  <2>2. CASE k # j
    <3>1. jobs[k].customer # c /\ object[jobs[k].customer] = k
      BY <1>1, <1>8, <2>2 DEF GoogleInSync
    <3>2. \A b \in Customers : b # c => object'[b] = object[b]
      BY <1>5 DEF TypeOK
    <3>3. jobs[k].customer \in Customers
      BY <1>1, <2>2, ConstantTypes DEF SnapshotsInv
    <3> QED
      BY <1>1, <2>2, <3>1, <3>2, <3>3
  <2> QED
    BY <2>1, <2>2
<1> QED
  BY <1>6, <1>7, <1>9, <1>10

\* The first movement and those after it.
LEMMA GoogleMoves ==
    ASSUME TypeOK, CountsInv, SnapshotsInv, AloneInv, GoogleInSync, NEW c \in Customers, Movement(c)
    PROVE  SnapshotsInv' /\ AloneInv' /\ GoogleInSync'
<1>1. PICK x \in Job :
             /\ Schedules(x) /\ x.customer = c
             /\ x.google = "scheduled" <=> c \in GooglePasses
             /\ x.alone => x.google = "scheduled" /\ \A j \in DOMAIN jobs : jobs[j].customer = c => GoogleOver(j)
             /\ \A k \in DOMAIN jobs : jobs'[k].alone => jobs[k].customer # c \/ GoogleOver(k)
             /\ balance' = [balance EXCEPT ![c] = Len(jobs) + 1]
             /\ UNCHANGED <<promo, clock, updatedAt, registered, phone, due, object>>
  BY Moves
<1>2. PICK n : n = Len(jobs)
  OBVIOUS
<1>3. n \in Nat /\ DOMAIN jobs = 1..n
  BY <1>2, JobsAre, ConstantTypes
<1>4. /\ DOMAIN jobs' = DOMAIN jobs \cup {n + 1} /\ jobs'[n + 1] = x
      /\ x.google \in {"scheduled", "over"}
      /\ \A k \in DOMAIN jobs :
           /\ jobs'[k].customer = jobs[k].customer
           /\ jobs'[k].google = jobs[k].google /\ jobs'[k].snapshot = jobs[k].snapshot
           /\ jobs'[k].alone => jobs[k].alone
  BY <1>1, <1>2 DEF Schedules, AppleKept
<1>5. /\ balance'[c] = n + 1 /\ balance[c] \in Int /\ balance[c] <= n
      /\ \A b \in Customers : b # c => balance'[b] = balance[b]
  <2>1. balance[c] \in Int /\ balance[c] <= n /\ balance \in [Customers -> Versions]
    BY <1>2, ConstantTypes DEF TypeOK, CountsInv, Versions
  <2> QED
    BY <1>1, <1>2, <2>1
<1>6. SnapshotsInv'
  <2> SUFFICES ASSUME NEW k \in DOMAIN jobs'
               PROVE  /\ jobs'[k].alone => jobs'[k].google # "over"
                      /\ jobs'[k].google # "over" => jobs'[k].customer \in GooglePasses /\ balance'[jobs'[k].customer] >= k
                      /\ jobs'[k].google \in {"inserting", "patching"} =>
                            jobs'[k].snapshot \in k .. balance'[jobs'[k].customer]
    BY DEF SnapshotsInv
  <2>1. CASE k = n + 1
    BY <1>1, <1>3, <1>4, <1>5, <2>1 DEF GoogleOver
  <2>2. CASE k # n + 1
    <3>1. k \in DOMAIN jobs /\ k \in 1..n
      BY <1>3, <1>4, <2>2
    <3>2. /\ jobs[k].alone => jobs[k].google # "over"
          /\ jobs[k].google # "over" => jobs[k].customer \in GooglePasses /\ balance[jobs[k].customer] >= k
          /\ jobs[k].google \in {"inserting", "patching"} =>
                jobs[k].snapshot \in k .. balance[jobs[k].customer]
      BY <3>1 DEF SnapshotsInv
    <3>5. jobs[k].google # "over" => jobs[k].customer \in Customers
      BY <3>2, ConstantTypes
    <3>6. jobs[k].google \in {"inserting", "patching"} => jobs[k].google # "over"
      OBVIOUS
    <3>3. CASE jobs[k].customer = c
      BY <1>3, <1>4, <1>5, <3>1, <3>2, <3>3 DEF GoogleOver
    <3>4. CASE jobs[k].customer # c
      BY <1>4, <1>5, <3>1, <3>2, <3>4, <3>5, <3>6
    <3> QED
      BY <3>3, <3>4
  <2> QED
    BY <2>1, <2>2
<1>7. ASSUME NEW k \in DOMAIN jobs', jobs'[k].alone, balance'[jobs'[k].customer] = k, k # n + 1
      PROVE  k \in DOMAIN jobs /\ jobs[k].customer # c /\ balance[jobs[k].customer] = k
  <2>1. k \in DOMAIN jobs /\ jobs[k].customer \in Customers
    BY <1>3, <1>4, <1>7, ConstantTypes DEF SnapshotsInv
  <2> QED
    BY <1>3, <1>4, <1>5, <1>7, <2>1
<1>8. AloneInv'
  <2> SUFFICES ASSUME NEW k \in DOMAIN jobs', jobs'[k].alone, balance'[jobs'[k].customer] = k,
                      NEW i \in DOMAIN jobs' \ {k}, jobs'[i].customer = jobs'[k].customer
               PROVE  GoogleOver(i)'
    BY DEF AloneInv
  <2>1. CASE k = n + 1
    BY <1>1, <1>4, <2>1 DEF GoogleOver
  <2>2. CASE k # n + 1
    <3>1. i # n + 1
      BY <1>1, <1>4, <1>7, <2>2
    <3> QED
      BY <1>4, <1>7, <2>2, <3>1 DEF AloneInv, GoogleOver
  <2> QED
    BY <2>1, <2>2
<1>9. GoogleInSync'
  <2> SUFFICES ASSUME NEW k \in DOMAIN jobs', jobs'[k].google = "ok", jobs'[k].alone,
                      balance'[jobs'[k].customer] = k
               PROVE  object'[jobs'[k].customer] = k
    BY DEF GoogleInSync
  <2>1. k # n + 1
    BY <1>4
  <2> QED
    BY <1>1, <1>4, <1>7, <2>1 DEF GoogleInSync
<1> QED
  BY <1>6, <1>8, <1>9

LEMMA Saves ==
    ASSUME TypeOK, SnapshotsInv, AloneInv, GoogleInSync, NEW c \in Customers, Save(c)
    PROVE  /\ object' \in [Customers -> Versions \cup {Absent}]
           /\ SnapshotsInv' /\ AloneInv' /\ GoogleInSync'
<1>1. PICK v \in {0} \cup DOMAIN jobs : object' = [object EXCEPT ![c] = v]
  BY DEF Save
<1>2. v \in Versions
  BY <1>1, JobsAre, ConstantTypes DEF Versions
<1>3. object' \in [Customers -> Versions \cup {Absent}] /\ \A b \in Customers : b # c => object'[b] = object[b]
  BY <1>1, <1>2 DEF TypeOK
<1>4. SnapshotsInv' /\ AloneInv'
  BY DEF Save, SnapshotsInv, AloneInv, GoogleOver
<1>5. GoogleInSync'
  <2> SUFFICES ASSUME NEW k \in DOMAIN jobs, jobs[k].google = "ok", jobs[k].alone,
                      balance[jobs[k].customer] = k
               PROVE  object'[jobs[k].customer] = k
    BY DEF GoogleInSync, Save
  <2>1. object[jobs[k].customer] = k /\ k # Absent /\ object[c] = Absent
    BY JobsAre DEF GoogleInSync, Save, Absent
  <2>2. jobs[k].customer \in Customers
    BY ConstantTypes DEF SnapshotsInv
  <2> QED
    BY <1>3, <2>1, <2>2
<1> QED
  BY <1>3, <1>4, <1>5

----------------------------------------------------------------------------
(* The steps.                                                              *)

ContentGrows == \A c \in Customers : Content(c) <= Content(c)' /\ Content(c) \in Int /\ Content(c)' \in Int

LEMMA Contents ==
    ASSUME TypeOK, promo' \in Versions, promo <= promo', balance' \in [Customers -> Versions],
           \A c \in Customers : balance[c] <= balance'[c]
    PROVE  ContentGrows /\ \A c \in Customers : Content(c)' >= balance'[c] /\ Content(c)' >= promo'
<1> SUFFICES ASSUME NEW c \in Customers
             PROVE  /\ Content(c) <= Content(c)' /\ Content(c) \in Int /\ Content(c)' \in Int
                    /\ Content(c)' >= balance'[c] /\ Content(c)' >= promo'
  BY DEF ContentGrows
<1>1. balance'[c] \in Int /\ promo' \in Int /\ balance[c] \in Int /\ promo \in Int
  BY ConstantTypes DEF TypeOK, Versions
<1>2. Content(c)' = IF balance'[c] >= promo' THEN balance'[c] ELSE promo'
  BY <1>1, MaxPair DEF Content
<1>3. Content(c) = IF balance[c] >= promo THEN balance[c] ELSE promo
  BY <1>1, MaxPair DEF Content
<1> QED
  BY <1>1, <1>2, <1>3

\* A step that leaves balances and promotions alone.
LEMMA SameContents ==
    ASSUME TypeOK, UNCHANGED <<balance, promo>>
    PROVE  ContentGrows
<1>1. promo \in Int /\ \A c \in Customers : balance[c] \in Int
  BY ConstantTypes DEF TypeOK, Versions
<1> QED
  BY <1>1, Contents DEF TypeOK

LEMMA SameJobs ==
    ASSUME TypeOK, UNCHANGED jobs
    PROVE  AppleFollows /\ GoogleFollows
BY DEF TypeOK, AppleFollows, GoogleFollows, Pushed

LEMMA CalmJob ==
    ASSUME TypeOK, NEW j \in DOMAIN jobs, NEW x, Turns(j, x), Calm(j, x)
    PROVE  AppleFollows /\ Len(jobs') = Len(jobs) /\ DOMAIN jobs' = DOMAIN jobs
           /\ (Googles(j, x) => GoogleFollows)
<1>1. /\ x \in Job /\ x.customer = jobs[j].customer
      /\ x.apple = jobs[j].apple \/ x.apple = "over"
      /\ x.apple # "over" =>
           /\ x.started = jobs[j].started /\ x.overtaken = jobs[j].overtaken
           /\ \A d \in Devices, c \in ApplePasses : x.push[d][c] # NoPush => Pushed(j, d, c)
      /\ x.apple = "over" => \A d \in Devices, c \in ApplePasses : x.push[d][c] = NoPush
  BY DEF Calm
<1>2. /\ jobs' \in Seq(Job) /\ Len(jobs') = Len(jobs) /\ DOMAIN jobs' = DOMAIN jobs
      /\ jobs'[j] = x /\ \A k \in DOMAIN jobs : k # j => jobs'[k] = jobs[k]
  BY <1>1, JobTurns DEF Turns
<1>3. AppleFollows
  BY <1>1, <1>2 DEF AppleFollows, Pushed
<1>4. Googles(j, x) => GoogleFollows
  BY <1>1, <1>2 DEF GoogleFollows, Googles
<1> QED
  BY <1>2, <1>3, <1>4

\* The job of a call to Google keeps its Apple part.
LEMMA CalmUpdate ==
    ASSUME TypeOK, JobsInv, NEW j \in DOMAIN jobs, NEW x, Updates(j, x)
    PROVE  Turns(j, x) /\ AppleFollows /\ Len(jobs') = Len(jobs) /\ DOMAIN jobs' = DOMAIN jobs
<1>1. x \in Job /\ Turns(j, x) /\ AppleKept(j, x)
  BY DEF Updates
<1>2. Calm(j, x)
  BY <1>1 DEF Calm, AppleKept, JobsInv, Pushed
<1> QED
  BY <1>1, <1>2, CalmJob

LEMMA CalmSchedule ==
    ASSUME TypeOK, NEW x \in Job, Schedules(x)
    PROVE  AppleFollows
BY NoPushType DEF Schedules, AppleFollows, AppleKept, Pushed

\* A step that dates nothing and sends no push.
LEMMA QuietStep ==
    ASSUME AppleInv, AppleFollows, PhonesFollow, PhonesStay, ContentGrows,
           UNCHANGED <<clock, updatedAt, due>>,
           balance' \in [Customers -> Versions], promo' \in Versions,
           object' \in [Customers -> Versions \cup {Absent}],
           Len(jobs') <= MaxMoves, promo' <= Len(jobs'),
           \A c \in Customers : balance'[c] <= Len(jobs'),
           \A k \in DOMAIN jobs' \ DOMAIN jobs : \A c \in Passes(k)' : Content(c)' >= k
    PROVE  AppleInv'
<1> USE DEF AppleInv
<1>1. TypeOK'
  BY DEF TypeOK, AppleFollows, PhonesStay
<1>2. CountsInv'
  BY CountsStay
<1>3. JobsInv'
  BY JobsStand DEF ContentGrows
<1>4. PhonesInv'
  BY PhonesStand DEF ContentGrows
<1>5. DatesInv'
  BY DatesStand
<1>6. DueInv'
  BY DueStands
<1>7. OpenInv'
  BY OpenStands
<1>8. PushInv'
  BY PushesStand
<1> QED
  BY <1>1, <1>2, <1>3, <1>4, <1>5, <1>6, <1>7, <1>8

\* A step of jobs, phones or objects only.
LEMMA QuietTurn ==
    ASSUME AppleInv, AppleFollows, PhonesFollow, PhonesStay,
           UNCHANGED <<balance, promo, clock, updatedAt, due>>,
           object' \in [Customers -> Versions \cup {Absent}],
           Len(jobs') = Len(jobs), DOMAIN jobs' = DOMAIN jobs
    PROVE  AppleInv'
<1>1. ContentGrows
  BY SameContents DEF AppleInv
<1>2. Len(jobs') <= MaxMoves /\ promo' <= Len(jobs') /\ \A c \in Customers : balance'[c] <= Len(jobs')
  BY DEF AppleInv, TypeOK, CountsInv
<1>3. balance' \in [Customers -> Versions] /\ promo' \in Versions
  BY DEF AppleInv, TypeOK
<1> QED
  BY <1>1, <1>2, <1>3, QuietStep

LEMMA SamePhones ==
    ASSUME AppleInv, UNCHANGED <<phone, registered>>
    PROVE  PhonesFollow /\ PhonesStay
<1>1. phone' \in [Devices -> Phone]
  BY DEF AppleInv, TypeOK
<1> QED
  BY <1>1, Unchanging DEF AppleInv

LEMMA QuietJob ==
    ASSUME AppleInv, GoogleInv, NEW j \in DOMAIN jobs,
           \E x : Turns(j, x) /\ Calm(j, x) /\ Googles(j, x),
           UNCHANGED <<balance, promo, clock, updatedAt, registered, phone, due, object>>
    PROVE  AppleInv' /\ GoogleInv'
<1>1. PICK x : Turns(j, x) /\ Calm(j, x) /\ Googles(j, x)
  OBVIOUS
<1>2. AppleFollows /\ GoogleFollows /\ Len(jobs') = Len(jobs) /\ DOMAIN jobs' = DOMAIN jobs
  BY <1>1, CalmJob DEF AppleInv
<1>3. AppleInv'
  BY <1>2, SamePhones, QuietTurn DEF AppleInv, TypeOK
<1>4. GoogleInv'
  BY <1>2, GoogleStands DEF AppleInv, GoogleInv
<1> QED
  BY <1>3, <1>4

LEMMA StepLose ==
    ASSUME AppleInv, GoogleInv, NEW j \in DOMAIN jobs, Lose(j) \/ PushesOver(j)
    PROVE  AppleInv' /\ GoogleInv'
<1>1. UNCHANGED <<balance, promo, clock, updatedAt, registered, phone, due, object>>
  BY DEF Lose, PushesOver
<1>2. \E x : Turns(j, x) /\ Calm(j, x) /\ Googles(j, x)
  BY Loses, PushesEnd DEF AppleInv
<1> QED
  BY <1>1, <1>2, QuietJob

LEMMA StepTimeOut ==
    ASSUME AppleInv, GoogleInv, NEW j \in DOMAIN jobs, NEW d \in Devices, NEW c \in ApplePasses,
           TimeOut(j, d, c)
    PROVE  AppleInv' /\ GoogleInv'
<1>1. UNCHANGED <<balance, promo, clock, updatedAt, registered, phone, due, object>>
  BY DEF TimeOut
<1>2. PICK p : p = Failed(jobs[j].push[d][c])
  OBVIOUS
<1>3. Attempting(j, d, c) /\ jobs' = [jobs EXCEPT ![j].push[d][c] = p]
  BY <1>2 DEF TimeOut
<1>4. \E x : Turns(j, x) /\ Calm(j, x) /\ Googles(j, x)
  BY <1>2, <1>3, Attempted DEF AppleInv
<1> QED
  BY <1>1, <1>4, QuietJob

LEMMA StepPhone ==
    ASSUME AppleInv, GoogleInv, NEW d \in Devices, PhoneStep(d)
    PROVE  AppleInv' /\ GoogleInv'
<1>1. /\ PhonesFollow /\ PhonesStay
      /\ UNCHANGED <<balance, promo, jobs, clock, updatedAt, due, object>>
  BY PhoneSteps DEF AppleInv
<1>2. AppleFollows /\ GoogleFollows
  BY <1>1, SameJobs DEF AppleInv
<1>3. AppleInv'
  BY <1>1, <1>2, QuietTurn DEF AppleInv, TypeOK
<1>4. GoogleInv'
  BY <1>1, <1>2, GoogleStands DEF AppleInv, GoogleInv
<1> QED
  BY <1>3, <1>4

LEMMA StepGoogle ==
    ASSUME AppleInv, GoogleInv, NEW j \in DOMAIN jobs, GoogleStep(j)
    PROVE  AppleInv' /\ GoogleInv'
<1>1. /\ \E x : Updates(j, x)
      /\ UNCHANGED <<balance, promo, clock, updatedAt, registered, phone, due>>
  BY GoogleSteps DEF AppleInv, GoogleInv
<1>2. PICK x : Updates(j, x)
  BY <1>1
<1>3. object' \in [Customers -> Versions \cup {Absent}] /\ GoogleInv'
  BY <1>1, <1>2, GoogleUpdates DEF AppleInv, GoogleInv
<1>4. AppleFollows /\ Len(jobs') = Len(jobs) /\ DOMAIN jobs' = DOMAIN jobs
  BY <1>2, CalmUpdate DEF AppleInv
<1>5. AppleInv'
  BY <1>1, <1>3, <1>4, SamePhones, QuietTurn
<1> QED
  BY <1>3, <1>5

LEMMA StepSave ==
    ASSUME AppleInv, GoogleInv, NEW c \in Customers, Save(c)
    PROVE  AppleInv' /\ GoogleInv'
<1>1. UNCHANGED <<balance, promo, jobs, clock, updatedAt, registered, phone, due>>
  BY DEF Save
<1>2. object' \in [Customers -> Versions \cup {Absent}] /\ GoogleInv'
  BY Saves DEF AppleInv, GoogleInv
<1>3. AppleFollows
  BY <1>1, SameJobs DEF AppleInv
<1>4. AppleInv'
  BY <1>1, <1>2, <1>3, SamePhones, QuietTurn
<1> QED
  BY <1>2, <1>4

LEMMA StepMovement ==
    ASSUME AppleInv, GoogleInv, NEW c \in Customers, Movement(c)
    PROVE  AppleInv' /\ GoogleInv'
<1>1. GoogleInv'
  BY GoogleMoves DEF AppleInv, GoogleInv
<1>2. PICK x \in Job :
             /\ Schedules(x) /\ x.customer = c
             /\ balance' = [balance EXCEPT ![c] = Len(jobs) + 1]
             /\ UNCHANGED <<promo, clock, updatedAt, registered, phone, due, object>>
  BY Moves DEF AppleInv
<1>3. PICK n : n = Len(jobs)
  OBVIOUS
<1>4. n \in Nat /\ n < MaxMoves /\ DOMAIN jobs = 1..n
  BY <1>2, <1>3, JobsAre, ConstantTypes DEF AppleInv, Schedules
<1>5. Len(jobs') = n + 1 /\ DOMAIN jobs' = DOMAIN jobs \cup {n + 1} /\ jobs'[n + 1] = x
  BY <1>2, <1>3 DEF Schedules
<1>6. /\ promo <= n /\ promo \in Versions
      /\ \A b \in Customers : balance[b] \in Versions /\ balance[b] <= n
      /\ balance \in [Customers -> Versions]
  BY <1>3 DEF AppleInv, TypeOK, CountsInv
<1>7. n + 1 \in Versions /\ \A v \in Versions : v \in Int
  BY <1>4, ConstantTypes DEF Versions
<1>8. /\ balance' \in [Customers -> Versions] /\ promo' \in Versions
      /\ \A b \in Customers : balance'[b] = IF b = c THEN n + 1 ELSE balance[b]
  BY <1>2, <1>3, <1>6, <1>7
<1>9. promo' <= n + 1 /\ promo <= promo' /\ \A b \in Customers : balance[b] <= balance'[b] /\ balance'[b] <= n + 1
  BY <1>2, <1>4, <1>6, <1>7, <1>8
<1>10. ContentGrows /\ \A b \in Customers : Content(b)' >= balance'[b]
  BY <1>8, <1>9, Contents DEF AppleInv
<1>11. \A k \in DOMAIN jobs' \ DOMAIN jobs : \A b \in Passes(k)' : Content(b)' >= k
  <2>1. Passes(n + 1)' \subseteq {c}
    BY <1>2, <1>5, ConstantTypes DEF Passes, PassesOf
  <2>2. Content(c)' >= n + 1
    BY <1>8, <1>10
  <2> QED
    BY <1>5, <2>1, <2>2
<1>12. AppleFollows /\ PhonesFollow /\ PhonesStay
  BY <1>2, CalmSchedule, SamePhones DEF AppleInv
<1>13. object' \in [Customers -> Versions \cup {Absent}]
  BY <1>2 DEF AppleInv, TypeOK
<1>14. Len(jobs') <= MaxMoves /\ promo' <= Len(jobs') /\ \A b \in Customers : balance'[b] <= Len(jobs')
  BY <1>4, <1>5, <1>9, ConstantTypes
<1>15. AppleInv'
  BY <1>2, <1>8, <1>10, <1>11, <1>12, <1>13, <1>14, QuietStep
<1> QED
  BY <1>1, <1>15

LEMMA StepPromotion ==
    ASSUME AppleInv, GoogleInv, Promotion
    PROVE  AppleInv' /\ GoogleInv'
<1>1. PICK x \in Job :
             /\ Schedules(x) /\ x.customer = None /\ x.google = "over" /\ ~x.alone
             /\ promo' = Len(jobs) + 1
             /\ UNCHANGED <<balance, clock, updatedAt, registered, phone, due, object>>
  BY Promotes DEF AppleInv
<1>2. PICK n : n = Len(jobs)
  OBVIOUS
<1>3. n \in Nat /\ n < MaxMoves /\ DOMAIN jobs = 1..n
  BY <1>1, <1>2, JobsAre, ConstantTypes DEF AppleInv, Schedules
<1>4. Len(jobs') = n + 1 /\ DOMAIN jobs' = DOMAIN jobs \cup {n + 1} /\ jobs'[n + 1] = x
  BY <1>1, <1>2 DEF Schedules
<1>5. /\ promo <= n /\ promo \in Versions
      /\ \A b \in Customers : balance[b] \in Versions /\ balance[b] <= n
      /\ balance' \in [Customers -> Versions]
  BY <1>1, <1>2 DEF AppleInv, TypeOK, CountsInv
<1>6. n + 1 \in Versions /\ \A v \in Versions : v \in Int
  BY <1>3, ConstantTypes DEF Versions
<1>7. promo' \in Versions /\ promo' = n + 1
  BY <1>1, <1>2, <1>6
<1>8. promo <= promo' /\ \A b \in Customers : balance[b] <= balance'[b] /\ balance'[b] <= n + 1
  <2>1. promo \in Int /\ promo <= promo'
    BY <1>3, <1>5, <1>6, <1>7
  <2>2. balance' = balance
    BY <1>1
  <2>3. \A b \in Customers : balance[b] \in Int /\ balance[b] <= n
    BY <1>5, <1>6
  <2> QED
    BY <1>3, <2>1, <2>2, <2>3
<1>9. ContentGrows /\ \A b \in Customers : Content(b)' >= promo'
  BY <1>5, <1>7, <1>8, Contents DEF AppleInv
<1>10. \A k \in DOMAIN jobs' \ DOMAIN jobs : \A b \in Passes(k)' : Content(b)' >= k
  <2>1. Passes(n + 1)' \subseteq Customers
    BY ConstantTypes DEF Passes, PassesOf
  <2> QED
    BY <1>4, <1>7, <1>9, <2>1
<1>11. AppleFollows /\ PhonesFollow /\ PhonesStay
  BY <1>1, CalmSchedule, SamePhones DEF AppleInv
<1>12. object' \in [Customers -> Versions \cup {Absent}]
  BY <1>1 DEF AppleInv, TypeOK
<1>13. Len(jobs') <= MaxMoves /\ promo' <= Len(jobs') /\ \A b \in Customers : balance'[b] <= Len(jobs')
  BY <1>3, <1>4, <1>7, <1>8, ConstantTypes
<1>14. AppleInv'
  BY <1>1, <1>5, <1>7, <1>9, <1>10, <1>11, <1>12, <1>13, QuietStep
<1>15. GoogleFollows
  BY <1>1, <1>2, <1>4 DEF Schedules, GoogleFollows, AppleKept
<1>16. GoogleInv'
  BY <1>1, <1>15, GoogleStands DEF AppleInv, GoogleInv
<1> QED
  BY <1>14, <1>16

\* The push leaves the phone something to ask, or it knew.
LEMMA StepSent ==
    ASSUME AppleInv, GoogleInv, NEW j \in DOMAIN jobs, NEW d \in Devices, NEW c \in ApplePasses,
           Sent(j, d, c)
    PROVE  AppleInv' /\ GoogleInv'
<1>1. PICK wakes \in BOOLEAN, accepted \in BOOLEAN :
         /\ jobs' = [jobs EXCEPT ![j].push[d][c] = IF accepted THEN NoPush ELSE Failed(@)]
         /\ phone' = [phone EXCEPT ![d].alerted = @ \/ wakes]
         /\ due' = IF wakes /\ c \notin jobs[j].overtaken
                   THEN [due EXCEPT ![d][c] = Max({@, j})] ELSE due
  BY DEF Sent
<1>2. Attempting(j, d, c) /\ UNCHANGED <<balance, promo, clock, updatedAt, registered, object>>
  BY DEF Sent
<1>3. PICK p : p = IF accepted THEN NoPush ELSE Failed(jobs[j].push[d][c])
  OBVIOUS
<1>4. p = NoPush \/ p = Failed(jobs[j].push[d][c])
  BY <1>3
<1>5. jobs' = [jobs EXCEPT ![j].push[d][c] = p]
  BY <1>1, <1>3
<1>6. PICK x : Turns(j, x) /\ Calm(j, x) /\ Googles(j, x)
  BY <1>2, <1>4, <1>5, Attempted DEF AppleInv
<1>7. AppleFollows /\ GoogleFollows /\ Len(jobs') = Len(jobs) /\ DOMAIN jobs' = DOMAIN jobs
  BY <1>6, CalmJob DEF AppleInv
<1>8. PhonesFollow /\ PhonesStay /\ (wakes => phone'[d].alerted)
  BY <1>1, <1>2, Wakes DEF AppleInv
<1>9. GoogleInv'
  BY <1>2, <1>7, GoogleStands DEF AppleInv, GoogleInv
<1>10. ContentGrows
  BY <1>2, SameContents DEF AppleInv
<1>11. /\ jobs[j].apple = "pushing" /\ Pushed(j, d, c)
       /\ c \in Passes(j) /\ j <= Content(c) /\ j \in Versions /\ c \in Customers
  <2>1. jobs[j].apple = "pushing" /\ Pushed(j, d, c)
    BY <1>2 DEF Attempting, Pushed
  <2>2. c \in Passes(j) /\ c \in Customers
    BY <2>1, ConstantTypes DEF AppleInv, JobsInv
  <2>3. Content(c) >= j /\ j \in Nat /\ j <= MaxMoves /\ Content(c) \in Int
    BY <2>2, JobsAre, ContentIs, ConstantTypes DEF AppleInv, JobsInv, Versions
  <2> QED
    BY <2>1, <2>2, <2>3, ConstantTypes DEF Versions
<1>12. PICK n \in Versions : n = due[d][c]
  BY DEF AppleInv, TypeOK
<1>13. n \in Int /\ j \in Int
  BY <1>11, ConstantTypes DEF Versions
<1>14. PICK m \in {n, j} : m = (IF n >= j THEN n ELSE j)
  OBVIOUS
<1>15. /\ due' \in [Devices -> [ApplePasses -> Versions]]
       /\ \A e \in Devices, b \in ApplePasses : due'[e][b] = due[e][b] \/ (e = d /\ b = c)
       /\ due'[d][c] = n \/ (due'[d][c] = m /\ wakes /\ c \notin jobs[j].overtaken)
  <2>1. CASE wakes /\ c \notin jobs[j].overtaken
    <3>1. Max({n, j}) = m
      BY <1>13, <1>14, MaxPair
    <3>2. due' = [due EXCEPT ![d][c] = m]
      BY <1>1, <1>12, <2>1, <3>1
    <3>3. m \in Versions
      BY <1>11, <1>12, <1>14
    <3> QED
      BY <2>1, <3>2, <3>3 DEF AppleInv, TypeOK
  <2>2. CASE ~(wakes /\ c \notin jobs[j].overtaken)
    BY <1>1, <1>12, <2>2 DEF AppleInv, TypeOK
  <2> QED
    BY <2>1, <2>2
<1>16. PICK old : old = due
  OBVIOUS
<1>17. TypeOK'
  BY <1>2, <1>7, <1>8, <1>15 DEF AppleInv, TypeOK, AppleFollows, PhonesStay
<1>18. CountsInv'
  BY <1>2, <1>7, <1>8, CountsStay DEF AppleInv, CountsInv
<1>19. JobsInv'
  BY <1>7, <1>10, JobsStand DEF AppleInv, ContentGrows
<1>20. PhonesInv'
  <2> SUFFICES ASSUME NEW e \in Devices, NEW b \in ApplePasses
               PROVE  /\ b \in phone'[e].wants => phone'[e].shown[b] # Absent
                      /\ phone'[e].fetching = b =>
                            /\ phone'[e].shown[b] # Absent
                            /\ phone'[e].shown[b] <= phone'[e].fetched /\ phone'[e].fetched <= Content(b)'
                      /\ phone'[e].shown[b] <= Content(b)'
                      /\ due'[e][b] <= Content(b)'
    BY DEF PhonesInv
  <2>1. Content(b)' = Content(b)
    BY <1>2 DEF Content
  <2>2. due'[e][b] <= Content(b)
    <3>1. due[e][b] <= Content(b)
      BY DEF AppleInv, PhonesInv
    <3>2. CASE due'[e][b] = due[e][b]
      BY <3>1, <3>2
    <3>3. CASE e = d /\ b = c
      BY <1>11, <1>12, <1>14, <1>15, <3>1, <3>3
    <3> QED
      BY <1>15, <3>2, <3>3
  <2> QED
    BY <1>8, <2>1, <2>2 DEF PhonesStay
<1>21. DatesInv'
  BY <1>2, <1>7, <1>8, DatesStand DEF AppleInv
<1>22. DueInv'
  <2> SUFFICES ASSUME NEW e \in Devices, NEW b \in ApplePasses, phone'[e].shown[b] # Absent
               PROVE  \E v : v = due'[e][b] /\ (Coming(e, b, v)' \/ (phone'[e].alerted /\ Newer(e, b)'))
    BY DEF DueInv, Coming, Known
  <2>1. PICK v \in 0..Content(b) : v = due'[e][b]
    <3>1. due'[e][b] \in Nat /\ Content(b)' = Content(b) /\ Content(b) \in Nat
      BY <1>2, <1>15, ConstantTypes, ContentIs DEF Content, Versions, AppleInv
    <3> QED
      BY <1>20, <3>1 DEF PhonesInv
  <2>2. phone[e].shown[b] # Absent =>
           Coming(e, b, v) \/ (Newer(e, b) /\ (phone[e].alerted \/ phone'[e].alerted))
    <3>1. CASE v = due[e][b]
      BY <3>1 DEF AppleInv, DueInv
    <3>2. CASE v # due[e][b] /\ phone[e].shown[b] # Absent
      <4>1. e = d /\ b = c /\ v = j /\ wakes /\ c \notin jobs[j].overtaken
        BY <1>12, <1>14, <1>15, <2>1, <3>2
      <4>2. Newer(d, c) \/ Coming(d, c, j)
        BY <1>11, <3>2, <4>1 DEF AppleInv, PushInv
      <4> QED
        BY <1>8, <4>1, <4>2
    <3> QED
      BY <3>1, <3>2
  <2>3. Coming(e, b, v)' \/ (phone'[e].alerted /\ Newer(e, b)')
    BY <1>2, <1>8, <2>2, Answered
  <2> QED
    BY <2>1, <2>3
<1>23. OpenInv'
  BY <1>2, <1>7, <1>8, OpenStands DEF AppleInv
<1>24. PushInv'
  BY <1>2, <1>7, <1>8, PushesStand DEF AppleInv
<1> QED
  BY <1>9, <1>17, <1>18, <1>19, <1>20, <1>21, <1>22, <1>23, <1>24 DEF AppleInv

\* The date of a bump that begins is later than what any phone has seen.
LEMMA StepBeginBump ==
    ASSUME AppleInv, GoogleInv, NEW j \in DOMAIN jobs, BeginBump(j)
    PROVE  AppleInv' /\ GoogleInv'
<1>1. PICK x \in Job : /\ Turns(j, x) /\ GoogleKept(j, x)
                       /\ x.apple = "begun" /\ x.started = clock + 1
                       /\ x.overtaken = jobs[j].overtaken /\ x.push = jobs[j].push
                       /\ clock + 1 <= MaxMoves
  BY Begins DEF AppleInv
<1>2. /\ jobs' \in Seq(Job) /\ Len(jobs') = Len(jobs) /\ DOMAIN jobs' = DOMAIN jobs
      /\ jobs'[j] = x /\ \A k \in DOMAIN jobs : k # j => jobs'[k] = jobs[k]
  BY <1>1, JobTurns DEF AppleInv, Turns
<1>3. /\ clock' = clock + 1 /\ jobs[j].apple = "scheduled" /\ clock \in Nat
      /\ UNCHANGED <<balance, promo, updatedAt, registered, phone, due, object>>
  BY ConstantTypes DEF BeginBump, AppleInv, TypeOK
<1>4. x.customer = jobs[j].customer
  BY <1>1 DEF GoogleKept
<1>5. \A k \in DOMAIN jobs : Passes(k)' = Passes(k)
  BY <1>2, <1>4 DEF Passes, PassesOf
<1>6. \A d \in Devices, c \in ApplePasses : ~Pushed(j, d, c) /\ ~Pushed(j, d, c)'
  BY <1>1, <1>2, <1>3 DEF AppleInv, JobsInv, Pushed
<1>7. \A k \in DOMAIN jobs, d \in Devices, c \in ApplePasses : Pushed(k, d, c)' = Pushed(k, d, c)
  BY <1>1, <1>2 DEF Pushed
<1>8. GoogleInv'
  <2>1. GoogleFollows
    BY <1>1, <1>2 DEF GoogleFollows, GoogleKept
  <2> QED
    BY <1>3, <2>1, GoogleStands DEF AppleInv, GoogleInv
<1>9. TypeOK'
  <2>1. clock' \in 0..MaxMoves
    BY <1>1, <1>3, ConstantTypes
  <2> QED
    BY <1>2, <1>3, <2>1 DEF AppleInv, TypeOK
<1>10. CountsInv'
  <2>1. PICK S : S = {k \in DOMAIN jobs : jobs[k].apple # "scheduled"}
    OBVIOUS
  <2>2. {k \in DOMAIN jobs' : jobs'[k].apple # "scheduled"} = S \cup {j} /\ j \notin S
    BY <1>1, <1>2, <1>3, <2>1
  <2>3. IsFiniteSet(S)
    <3>1. PICK n \in Nat : n = Len(jobs)
      <4>1. Len(jobs) \in Nat
        BY LenProperties DEF AppleInv, TypeOK
      <4> QED
        BY <4>1, Zenon
    <3>2. S \subseteq 1..n /\ IsFiniteSet(1..n)
      BY <2>1, <3>1, JobsAre, FS_Interval DEF AppleInv
    <3> QED
      BY <3>2, FS_Subset
  <2>4. Cardinality(S \cup {j}) = Cardinality(S) + 1 /\ Cardinality(S) \in Nat
    BY <2>2, <2>3, FS_AddElement, FS_CardinalityType
  <2>5. clock <= Cardinality(S)
    BY <2>1 DEF AppleInv, CountsInv
  <2>6. clock' <= Cardinality(S \cup {j})
    BY <1>3, <2>4, <2>5
  <2> QED
    BY <1>2, <1>3, <2>2, <2>6 DEF AppleInv, CountsInv
<1>11. \A c \in Customers : Content(c)' = Content(c)
  BY <1>3 DEF Content
<1>12. JobsInv'
  <2> SUFFICES ASSUME NEW k \in DOMAIN jobs
               PROVE  /\ \A c \in Passes(k) : Content(c) >= k
                      /\ \A d \in Devices, c \in ApplePasses : Pushed(k, d, c)' =>
                           c \in Passes(k) /\ jobs'[k].apple \in {"bumped", "pushing"}
    BY <1>2, <1>3, <1>5 DEF JobsInv, Content
  <2> QED
    BY <1>2, <1>6, <1>7 DEF AppleInv, JobsInv
<1>13. PhonesInv'
  BY <1>3 DEF AppleInv, PhonesInv, Content
<1>14. DatesInv'
  <2>1. \A c \in ApplePasses : updatedAt[c] \in Nat /\ updatedAt[c] <= clock
    BY ConstantTypes DEF AppleInv, TypeOK, DatesInv
  <2>2. \A d \in Devices : phone[d].since <= clock + 1
    <3> SUFFICES ASSUME NEW d \in Devices PROVE phone[d].since <= clock + 1
      OBVIOUS
    <3>1. phone[d].since \in Int /\ phone[d].since <= clock
      BY PhoneIs DEF AppleInv, DatesInv
    <3> QED
      BY <1>3, <3>1
  <2>3. ASSUME NEW k \in DOMAIN jobs, Waiting(k)'
        PROVE  /\ jobs'[k].started <= clock + 1
               /\ \A i \in DOMAIN jobs : Waiting(i)' /\ jobs'[i].started = jobs'[k].started => i = k
               /\ \A c \in Passes(k) \ jobs'[k].overtaken : \A b \in ApplePasses \ {c} :
                    updatedAt[b] < jobs'[k].started
    <3>1. \A i \in DOMAIN jobs \ {j} :
            Waiting(i)' => Waiting(i) /\ jobs'[i] = jobs[i] /\ jobs[i].started \in Int /\ jobs[i].started <= clock
      BY <1>2, JobsAre, ConstantTypes DEF Waiting, AppleInv, DatesInv, Job
    <3>2. CASE k = j
      BY <1>1, <1>2, <1>3, <2>1, <3>1, <3>2
    <3>3. CASE k # j
      <4>1. Waiting(k) /\ jobs'[k] = jobs[k] /\ jobs[k].started \in Int /\ jobs[k].started <= clock
        BY <2>3, <3>1, <3>3
      <4>2. \A i \in DOMAIN jobs : Waiting(i) /\ jobs[i].started = jobs[k].started => i = k
        BY <4>1 DEF AppleInv, DatesInv
      <4>3. \A c \in Passes(k) \ jobs[k].overtaken : \A b \in ApplePasses \ {c} : updatedAt[b] < jobs[k].started
        BY <4>1 DEF AppleInv, DatesInv
      <4>4. jobs'[j].started # jobs'[k].started
        BY <1>1, <1>2, <1>3, <4>1
      <4> QED
        BY <1>3, <3>1, <4>1, <4>2, <4>3, <4>4
    <3> QED
      BY <3>2, <3>3
  <2>4. \A c \in ApplePasses : updatedAt[c] <= clock + 1
    BY <1>3, <2>1
  <2> QED
    BY <1>2, <1>3, <1>5, <2>2, <2>3, <2>4 DEF DatesInv
<1>15. DueInv'
  BY <1>3, SamePhones, DueStands DEF AppleInv
<1>16. OpenInv'
  <2> SUFFICES ASSUME NEW k \in DOMAIN jobs, NEW d \in Devices, Waiting(k)',
                      NEW c \in Passes(k) \ jobs'[k].overtaken, phone[d].shown[c] # Absent
               PROVE  /\ jobs'[k].started > phone[d].since \/ Coming(d, c, k)
                      /\ Pushed(k, d, c)' => registered[d][c] # 0 \/ Coming(d, c, k)
    BY <1>2, <1>3, <1>5 DEF OpenInv, Coming, Known
  <2>1. CASE k = j
    <3>1. c \in ApplePasses
      BY DEF Passes, PassesOf
    <3>2. phone[d].since <= clock /\ phone[d].since \in Int
      BY PhoneIs DEF AppleInv, DatesInv
    <3> QED
      BY <1>1, <1>2, <1>3, <1>6, <2>1, <3>1, <3>2
  <2>2. CASE k # j
    BY <1>2, <2>2 DEF AppleInv, OpenInv, Waiting, Pushed
  <2> QED
    BY <2>1, <2>2
<1>17. PushInv'
  <2> SUFFICES ASSUME NEW k \in DOMAIN jobs, NEW d \in Devices, jobs'[k].apple = "pushing",
                      NEW c \in Passes(k) \ jobs'[k].overtaken,
                      phone[d].shown[c] # Absent, Pushed(k, d, c)'
               PROVE  Newer(d, c) \/ Coming(d, c, k)
    BY <1>2, <1>3, <1>5 DEF PushInv, Coming, Known, Newer
  <2>1. k # j
    BY <1>1, <1>2
  <2> QED
    BY <1>2, <2>1 DEF AppleInv, PushInv, Pushed
<1> QED
  BY <1>8, <1>9, <1>10, <1>12, <1>13, <1>14, <1>15, <1>16, <1>17 DEF AppleInv

LEMMA StepBump ==
    ASSUME AppleInv, GoogleInv, NEW j \in DOMAIN jobs, Bump(j)
    PROVE  AppleInv' /\ GoogleInv'
<1>1. PICK x \in Job : /\ Turns(j, x) /\ GoogleKept(j, x)
                       /\ x.apple = "bumped" /\ x.started = jobs[j].started
                       /\ x.overtaken = jobs[j].overtaken
                       /\ \A d \in Devices, c \in ApplePasses :
                            x.push[d][c] # NoPush => c \in Passes(j) /\ registered[d][c] # 0
  BY Bumps DEF AppleInv
<1>2. /\ jobs' \in Seq(Job) /\ Len(jobs') = Len(jobs) /\ DOMAIN jobs' = DOMAIN jobs
      /\ jobs'[j] = x /\ \A k \in DOMAIN jobs : k # j => jobs'[k] = jobs[k]
  BY <1>1, JobTurns DEF AppleInv, Turns
<1>3. /\ jobs[j].apple = "begun" /\ Waiting(j)
      /\ UNCHANGED <<balance, promo, clock, updatedAt, registered, phone, due, object>>
  BY DEF Bump, Waiting
<1>4. x.customer = jobs[j].customer
  BY <1>1 DEF GoogleKept
<1>5. ASSUME NEW k \in DOMAIN jobs
      PROVE  /\ Passes(k)' = Passes(k) /\ jobs'[k].overtaken = jobs[k].overtaken
             /\ jobs'[k].started = jobs[k].started /\ (Waiting(k)' <=> Waiting(k))
  <2>1. CASE k = j
    BY <1>1, <1>2, <1>3, <1>4, <2>1 DEF Passes, PassesOf, Waiting
  <2>2. CASE k # j
    BY <1>2, <2>2 DEF Passes, PassesOf, Waiting
  <2> QED
    BY <2>1, <2>2
<1>6. GoogleInv'
  <2>1. GoogleFollows
    BY <1>1, <1>2 DEF GoogleFollows, GoogleKept
  <2> QED
    BY <1>3, <2>1, GoogleStands DEF AppleInv, GoogleInv
<1>7. TypeOK'
  BY <1>2, <1>3 DEF AppleInv, TypeOK
<1>8. CountsInv'
  <2>1. {k \in DOMAIN jobs' : jobs'[k].apple # "scheduled"} = {k \in DOMAIN jobs : jobs[k].apple # "scheduled"}
    BY <1>1, <1>2, <1>3
  <2> QED
    BY <1>2, <1>3, <2>1 DEF AppleInv, CountsInv
<1>9. JobsInv'
  <2>1. \A c : Content(c)' = Content(c)
    BY <1>3 DEF Content
  <2> SUFFICES ASSUME NEW k \in DOMAIN jobs
               PROVE  /\ \A c \in Passes(k) : Content(c) >= k
                      /\ \A d \in Devices, c \in ApplePasses : Pushed(k, d, c)' =>
                           c \in Passes(k) /\ jobs'[k].apple \in {"bumped", "pushing"}
    BY <1>2, <1>3, <1>5, <2>1 DEF JobsInv
  <2> QED
    BY <1>1, <1>2 DEF AppleInv, JobsInv, Pushed
<1>10. PhonesInv'
  BY <1>3 DEF AppleInv, PhonesInv, Content
<1>11. DatesInv'
  BY <1>2, <1>3, <1>5 DEF AppleInv, DatesInv
<1>12. DueInv'
  BY <1>3, SamePhones, DueStands DEF AppleInv
<1>13. OpenInv'
  <2> SUFFICES ASSUME NEW k \in DOMAIN jobs, NEW d \in Devices, Waiting(k),
                      NEW c \in Passes(k) \ jobs[k].overtaken, phone[d].shown[c] # Absent
               PROVE  /\ jobs[k].started > phone[d].since \/ Coming(d, c, k)
                      /\ Pushed(k, d, c)' => registered[d][c] # 0 \/ Coming(d, c, k)
    BY <1>2, <1>3, <1>5 DEF OpenInv, Coming, Known
  <2>1. c \in ApplePasses
    BY DEF Passes, PassesOf
  <2>2. jobs[k].started > phone[d].since \/ Coming(d, c, k)
    BY DEF AppleInv, OpenInv
  <2>3. Pushed(k, d, c)' => registered[d][c] # 0 \/ Coming(d, c, k)
    BY <1>1, <1>2, <2>1 DEF AppleInv, OpenInv, Pushed
  <2> QED
    BY <2>2, <2>3
<1>14. PushInv'
  <2> SUFFICES ASSUME NEW k \in DOMAIN jobs, NEW d \in Devices, jobs'[k].apple = "pushing",
                      NEW c \in Passes(k) \ jobs'[k].overtaken,
                      phone[d].shown[c] # Absent, Pushed(k, d, c)'
               PROVE  Newer(d, c) \/ Coming(d, c, k)
    BY <1>2, <1>3, <1>5 DEF PushInv, Coming, Known, Newer
  <2>1. k # j
    BY <1>1, <1>2
  <2> QED
    BY <1>2, <2>1 DEF AppleInv, PushInv, Pushed
<1> QED
  BY <1>6, <1>7, <1>8, <1>9, <1>10, <1>11, <1>12, <1>13, <1>14 DEF AppleInv

\* The pass of a bump that commits has its date: a phone that does not know
\* the movement has seen none as late.  Where that is not so, it is overtaken.
LEMMA StepCommitBump ==
    ASSUME AppleInv, GoogleInv, NEW j \in DOMAIN jobs, CommitBump(j)
    PROVE  AppleInv' /\ GoogleInv'
<1>1. /\ jobs' \in Seq(Job) /\ Len(jobs') = Len(jobs) /\ DOMAIN jobs' = DOMAIN jobs
      /\ jobs[j].apple = "bumped" /\ jobs'[j].apple = "pushing"
      /\ jobs'[j].overtaken = jobs[j].overtaken
      /\ \A k \in DOMAIN jobs :
           /\ GoogleKept(k, jobs'[k])
           /\ jobs'[k].started = jobs[k].started /\ jobs'[k].push = jobs[k].push
           /\ k # j => /\ jobs'[k].apple = jobs[k].apple
                       /\ jobs[k].overtaken \subseteq jobs'[k].overtaken
           /\ k # j /\ jobs[k].apple = "pushing" =>
                \A d \in Devices : Passes(k) \cap Back(j, d) \subseteq jobs'[k].overtaken
           /\ k # j /\ Waiting(k) /\ jobs[k].started < jobs[j].started =>
                \A c \in Passes(k) : c \notin jobs'[k].overtaken => Passes(j) = {c}
      /\ \A c \in ApplePasses :
           updatedAt'[c] = IF c \in Passes(j) THEN jobs[j].started ELSE updatedAt[c]
      /\ \A d \in Devices, c \in ApplePasses :
           due'[d][c] = IF c \in Back(j, d) THEN 0 ELSE due[d][c]
      /\ updatedAt' \in [ApplePasses -> 0..MaxMoves]
      /\ due' \in [Devices -> [ApplePasses -> Versions]]
      /\ UNCHANGED <<balance, promo, clock, registered, phone, object>>
  BY Commits DEF AppleInv
<1>2. UNCHANGED <<balance, promo, clock, registered, phone, object>>
  BY <1>1
<1>3. ASSUME NEW k \in DOMAIN jobs
      PROVE  /\ Passes(k)' = Passes(k) /\ Passes(k) \subseteq ApplePasses
             /\ jobs'[k].started = jobs[k].started
             /\ \A d \in Devices, c \in ApplePasses : Pushed(k, d, c)' <=> Pushed(k, d, c)
             /\ jobs[k].overtaken \subseteq jobs'[k].overtaken
             /\ Waiting(k)' => Waiting(k) /\ k # j
  BY <1>1 DEF GoogleKept, Passes, PassesOf, Pushed, Waiting
<1>4. /\ jobs[j].started \in Int /\ jobs[j].started <= clock /\ clock \in Int /\ Waiting(j)
      /\ \A c \in ApplePasses : updatedAt[c] \in Int /\ updatedAt[c] <= clock
  <2>1. Waiting(j)
    BY <1>1 DEF Waiting
  <2> QED
    BY <2>1, JobsAre, ConstantTypes DEF AppleInv, DatesInv, TypeOK, Job
<1>5. GoogleInv'
  <2>1. GoogleFollows
    BY <1>1 DEF GoogleFollows, GoogleKept
  <2> QED
    BY <1>2, <2>1, GoogleStands DEF AppleInv, GoogleInv
<1>6. TypeOK'
  BY <1>1, <1>2 DEF AppleInv, TypeOK
<1>7. CountsInv'
  <2>1. \A k \in DOMAIN jobs : jobs'[k].apple # "scheduled" <=> jobs[k].apple # "scheduled"
    BY <1>1
  <2>2. {k \in DOMAIN jobs' : jobs'[k].apple # "scheduled"} = {k \in DOMAIN jobs : jobs[k].apple # "scheduled"}
    BY <1>1, <2>1
  <2> QED
    BY <1>1, <1>2, <2>2 DEF AppleInv, CountsInv
<1>8. JobsInv'
  <2>1. \A c : Content(c)' = Content(c)
    BY <1>2 DEF Content
  <2> SUFFICES ASSUME NEW k \in DOMAIN jobs
               PROVE  /\ \A c \in Passes(k) : Content(c) >= k
                      /\ \A d \in Devices, c \in ApplePasses : Pushed(k, d, c) =>
                           c \in Passes(k) /\ jobs'[k].apple \in {"bumped", "pushing"}
    BY <1>1, <1>2, <1>3, <2>1 DEF JobsInv
  <2> QED
    BY <1>1 DEF AppleInv, JobsInv
<1>9. PhonesInv'
  <2>1. \A c \in ApplePasses : Content(c) \in Nat
    BY ContentIs, ConstantTypes DEF AppleInv, Versions
  <2>2. \A d \in Devices, c \in ApplePasses : due'[d][c] <= Content(c)
    BY <1>1, <2>1 DEF AppleInv, PhonesInv
  <2> QED
    BY <1>2, <2>2 DEF AppleInv, PhonesInv, Content
<1>10. DatesInv'
  <2>1. ASSUME NEW k \in DOMAIN jobs, Waiting(k), k # j,
               NEW c \in Passes(k) \ jobs'[k].overtaken, NEW b \in ApplePasses \ {c}
        PROVE  updatedAt'[b] < jobs[k].started
    <3>1. /\ updatedAt[b] < jobs[k].started
          /\ jobs[k].started # jobs[j].started
          /\ jobs[k].started \in Int
      BY <1>3, <1>4, <2>1, JobsAre, ConstantTypes DEF AppleInv, DatesInv, Job
    <3>2. CASE b \in Passes(j)
      <4>1. ~(jobs[k].started < jobs[j].started)
        BY <1>1, <2>1, <3>2
      <4> QED
        BY <1>1, <1>4, <3>1, <3>2, <4>1
    <3>3. CASE b \notin Passes(j)
      BY <1>1, <3>1, <3>3
    <3> QED
      BY <3>2, <3>3
  <2>2. \A c \in ApplePasses : updatedAt'[c] <= clock
    BY <1>1, <1>4
  <2>3. \A k \in DOMAIN jobs : Waiting(k) =>
           /\ jobs[k].started <= clock
           /\ \A i \in DOMAIN jobs : Waiting(i) /\ jobs[i].started = jobs[k].started => i = k
    BY DEF AppleInv, DatesInv
  <2>4. \A d \in Devices : phone[d].since <= clock
    BY DEF AppleInv, DatesInv
  <2> QED
    BY <1>1, <1>2, <1>3, <2>1, <2>2, <2>3, <2>4 DEF DatesInv
<1>11. ASSUME NEW d \in Devices, NEW c \in ApplePasses, c \notin Back(j, d), Newer(d, c)
       PROVE  Newer(d, c)'
  <2>1. phone[d].since \in Int
    BY PhoneIs DEF AppleInv
  <2>2. CASE c \in Passes(j)
    BY <1>1, <1>2, <1>4, <1>11, <2>1, <2>2 DEF Newer, Back
  <2>3. CASE c \notin Passes(j)
    BY <1>1, <1>2, <1>11, <2>3 DEF Newer
  <2> QED
    BY <2>2, <2>3
<1>12. DueInv'
  <2> SUFFICES ASSUME NEW d \in Devices, NEW c \in ApplePasses, phone[d].shown[c] # Absent
               PROVE  \E v : v = due'[d][c] /\ (Coming(d, c, v) \/ (phone[d].alerted /\ Newer(d, c)'))
    BY <1>2 DEF DueInv, Coming, Known
  <2>1. CASE c \in Back(j, d)
    <3>1. due'[d][c] = 0
      BY <1>1, <2>1
    <3>2. Known(d, c) >= 0
      BY PhoneIs DEF AppleInv, Known, Absent
    <3> QED
      BY <3>1, <3>2 DEF Coming
  <2>2. CASE c \notin Back(j, d)
    <3>1. due'[d][c] = due[d][c]
      BY <1>1, <2>2
    <3>2. Coming(d, c, due[d][c]) \/ (phone[d].alerted /\ Newer(d, c))
      BY DEF AppleInv, DueInv
    <3> QED
      BY <1>11, <2>2, <3>1, <3>2
  <2> QED
    BY <2>1, <2>2
<1>13. OpenInv'
  <2> SUFFICES ASSUME NEW k \in DOMAIN jobs, NEW d \in Devices, Waiting(k),
                      NEW c \in Passes(k) \ jobs[k].overtaken, phone[d].shown[c] # Absent
               PROVE  /\ jobs[k].started > phone[d].since \/ Coming(d, c, k)
                      /\ Pushed(k, d, c) => registered[d][c] # 0 \/ Coming(d, c, k)
    BY <1>1, <1>2, <1>3 DEF OpenInv, Coming, Known
  <2> QED
    BY DEF AppleInv, OpenInv
<1>14. PushInv'
  <2> SUFFICES ASSUME NEW k \in DOMAIN jobs, NEW d \in Devices, jobs'[k].apple = "pushing",
                      NEW c \in Passes(k) \ jobs'[k].overtaken,
                      phone[d].shown[c] # Absent, Pushed(k, d, c)
               PROVE  Newer(d, c)' \/ Coming(d, c, k)
    BY <1>1, <1>2, <1>3 DEF PushInv, Coming, Known
  <2>1. c \in ApplePasses
    BY <1>3
  <2>2. CASE k = j
    <3>1. c \in Passes(j) \ jobs[j].overtaken
      BY <1>1, <2>2
    <3>2. (jobs[j].started > phone[d].since /\ registered[d][c] # 0) \/ Coming(d, c, j)
      BY <1>4, <2>2, <3>1 DEF AppleInv, OpenInv
    <3> QED
      BY <1>1, <1>2, <2>1, <2>2, <3>1, <3>2 DEF Newer
  <2>3. CASE k # j
    <3>1. jobs[k].apple = "pushing" /\ c \notin Back(j, d) /\ c \notin jobs[k].overtaken
      BY <1>1, <1>3, <2>3
    <3>2. Newer(d, c) \/ Coming(d, c, k)
      BY <3>1 DEF AppleInv, PushInv
    <3> QED
      BY <1>11, <2>1, <3>1, <3>2
  <2> QED
    BY <2>2, <2>3
<1> QED
  BY <1>5, <1>6, <1>7, <1>8, <1>9, <1>10, <1>12, <1>13, <1>14 DEF AppleInv

----------------------------------------------------------------------------
(* The theorems.                                                           *)

LEMMA Initially == Init => AppleInv /\ GoogleInv
<1> SUFFICES ASSUME Init PROVE AppleInv /\ GoogleInv
  OBVIOUS
<1>1. /\ jobs = <<>> /\ Len(jobs) = 0 /\ DOMAIN jobs = {} /\ jobs \in Seq(Job)
  BY DEF Init
<1>2. \A c \in Customers : balance[c] = 0 /\ object[c] = Absent
  BY DEF Init
<1>3. PICK y : y = [token |-> 1, changes |-> 0, alerted |-> FALSE, since |-> Absent,
                    wants |-> {}, fetching |-> None, fetched |-> 0,
                    shown |-> [c \in ApplePasses |-> 0]]
  OBVIOUS
<1>4. y \in Phone
  <2>1. 1 \in 1..MaxChanges + 1 /\ 0 \in 0..MaxChanges /\ 0 \in Versions
    BY ConstantTypes DEF Versions
  <2> QED
    BY <1>3, <2>1 DEF Phone
<1>5. phone \in [Devices -> Phone] /\ \A d \in Devices : phone[d] = y
  BY <1>3, <1>4 DEF Init
<1>6. TypeOK
  <2>1. 0 \in Versions /\ 0 \in 0..MaxMoves /\ 1 \in 0..MaxChanges + 1
    BY ConstantTypes DEF Versions
  <2>2. balance \in [Customers -> Versions] /\ promo \in Versions /\ clock \in 0..MaxMoves
    BY <2>1 DEF Init
  <2>3. /\ updatedAt \in [ApplePasses -> 0..MaxMoves]
        /\ registered \in [Devices -> [ApplePasses -> 0..MaxChanges + 1]]
    BY <2>1 DEF Init
  <2>4. due \in [Devices -> [ApplePasses -> Versions]] /\ object \in [Customers -> Versions \cup {Absent}]
    BY <2>1 DEF Init
  <2>5. Len(jobs) <= MaxMoves
    BY <1>1, ConstantTypes
  <2> QED
    BY <1>1, <1>5, <2>2, <2>3, <2>4, <2>5 DEF TypeOK
<1>7. CountsInv
  <2>1. {j \in DOMAIN jobs : jobs[j].apple # "scheduled"} = {}
    BY <1>1
  <2>2. clock <= Cardinality({j \in DOMAIN jobs : jobs[j].apple # "scheduled"})
    BY <2>1, FS_EmptySet DEF Init
  <2>3. \A d \in Devices : phone[d].token <= phone[d].changes + 1
    BY <1>3, <1>5
  <2> QED
    BY <1>1, <1>2, <2>2, <2>3 DEF CountsInv, Init
<1>8. \A c \in ApplePasses : Content(c) \in Nat
  BY <1>6, ContentIs, ConstantTypes DEF Versions
<1>9. PhonesInv
  <2>1. None \notin ApplePasses
    BY ConstantTypes
  <2>2. \A d \in Devices, c \in ApplePasses : phone[d].shown[c] = 0 /\ due[d][c] = 0
    BY <1>3, <1>5 DEF Init
  <2> QED
    BY <1>3, <1>5, <1>8, <2>1, <2>2 DEF PhonesInv
<1>10. DatesInv
  BY <1>1, <1>3, <1>5 DEF DatesInv, Init, Absent
<1>11. DueInv
  <2> SUFFICES ASSUME NEW d \in Devices, NEW c \in ApplePasses PROVE Coming(d, c, due[d][c])
    BY DEF DueInv
  <2>1. phone[d].shown[c] = 0 /\ phone[d].fetched = 0 /\ due[d][c] = 0
    BY <1>3, <1>5 DEF Init
  <2> QED
    BY <2>1 DEF Coming, Known
<1>12. JobsInv /\ OpenInv /\ PushInv /\ SnapshotsInv /\ AloneInv /\ GoogleInSync
  BY <1>1 DEF JobsInv, OpenInv, PushInv, SnapshotsInv, AloneInv, GoogleInSync
<1> QED
  BY <1>6, <1>7, <1>9, <1>10, <1>11, <1>12 DEF AppleInv, GoogleInv

LEMMA Inductive == AppleInv /\ GoogleInv /\ [Next]_vars => (AppleInv /\ GoogleInv)'
<1> SUFFICES ASSUME AppleInv, GoogleInv, [Next]_vars PROVE AppleInv' /\ GoogleInv'
  OBVIOUS
<1>1. CASE Promotion
  BY <1>1, StepPromotion
<1>2. ASSUME NEW c \in Movers, Movement(c) PROVE AppleInv' /\ GoogleInv'
  BY <1>2, StepMovement, ConstantTypes
<1>3. ASSUME NEW c \in Movers, Save(c) PROVE AppleInv' /\ GoogleInv'
  BY <1>3, StepSave, ConstantTypes
<1>4. ASSUME NEW j \in DOMAIN jobs, Lose(j) PROVE AppleInv' /\ GoogleInv'
  BY <1>4, StepLose
<1>5. ASSUME NEW j \in DOMAIN jobs, AppleStep(j) PROVE AppleInv' /\ GoogleInv'
  BY <1>5, StepBeginBump, StepBump, StepCommitBump, StepLose DEF AppleStep
<1>6. ASSUME NEW j \in DOMAIN jobs, GoogleStep(j) PROVE AppleInv' /\ GoogleInv'
  BY <1>6, StepGoogle
<1>7. ASSUME NEW j \in DOMAIN jobs, NEW d \in Devices, NEW c \in ApplePasses, PushStep(j, d, c)
      PROVE  AppleInv' /\ GoogleInv'
  BY <1>7, StepTimeOut, StepSent DEF PushStep
<1>8. ASSUME NEW d \in Devices, PhoneStep(d) PROVE AppleInv' /\ GoogleInv'
  BY <1>8, StepPhone
<1>9. CASE UNCHANGED vars
  <2>1. UNCHANGED <<balance, promo, jobs, clock, updatedAt, registered, phone, due, object>>
    BY <1>9 DEF vars
  <2>2. AppleFollows /\ GoogleFollows
    BY <2>1, SameJobs DEF AppleInv
  <2>3. AppleInv'
    BY <2>1, <2>2, SamePhones, QuietTurn DEF AppleInv, TypeOK
  <2>4. GoogleInv'
    BY <2>1, <2>2, GoogleStands DEF AppleInv, GoogleInv
  <2> QED
    BY <2>3, <2>4
<1> QED
  BY <1>1, <1>2, <1>3, <1>4, <1>5, <1>6, <1>7, <1>8, <1>9 DEF Next

LEMMA Invariance == Spec => [](AppleInv /\ GoogleInv)
BY Initially, Inductive, PTL DEF Spec

\* Every variable keeps its type: no push and no call to Google is attempted
\* more often than its retries allow.
THEOREM TypeCorrect == Spec => []TypeOK
<1>1. AppleInv => TypeOK
  BY DEF AppleInv
<1> QED
  BY <1>1, Invariance, PTL

\* A phone that was woken for a movement or a promotion, and has asked and
\* fetched, shows it: however many phones, passes, tokens and bumps there are,
\* and however coarse the tags of the web service.
THEOREM AppleShows == Spec => []AppleInSync
<1>1. AppleInv => AppleInSync
  <2> SUFFICES ASSUME AppleInv, NEW d \in Devices, Settled(d), NEW c \in ApplePasses,
                      phone[d].shown[c] # Absent
               PROVE  phone[d].shown[c] >= due[d][c]
    BY DEF AppleInSync
  <2>1. Coming(d, c, due[d][c]) \/ (phone[d].alerted /\ Newer(d, c))
    BY DEF AppleInv, DueInv
  <2>2. ~phone[d].alerted /\ c \notin phone[d].wants /\ phone[d].fetching # c
    BY ConstantTypes DEF Settled
  <2> QED
    BY <2>1, <2>2 DEF Coming, Known
<1> QED
  BY <1>1, Invariance, PTL

\* The object at Google has the balance of the last movement whose
\* notification was accepted and that no other of the customer overlapped.
THEOREM GoogleShows == Spec => []GoogleInSync
<1>1. GoogleInv => GoogleInSync
  BY DEF GoogleInv
<1> QED
  BY <1>1, Invariance, PTL
=============================================================================
