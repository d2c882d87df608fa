-------------------------- MODULE DirectoryProofs --------------------------
(***************************************************************************)
(* What holds of Directory for every set of customers, names and page      *)
(* sizes.  The argument: rows are only added to what a search finds, so    *)
(* the rows before a customer only become more, and whoever a trail has    *)
(* not shown stays behind the last page it has turned; the count that      *)
(* says which page is the last comes after the rows, so it counts whoever  *)
(* they left behind.                                                       *)
(***************************************************************************)
EXTENDS Directory, FiniteSetTheorems, TLAPS

\* A customer whom a search finds behind its first pages.
Behind(c, q, size, pages) ==
    c \in Matching(q) /\ pages * size <= Cardinality(Before(c, q))

\* The page being served is the next one of the trail.
Continues == ask.q = trail.q /\ ask.size = trail.size /\ ask.page = trail.reached + 1

TrailInv == \A c \in trail.unseen : Behind(c, trail.q, trail.size, trail.reached)

\* The rows that were read left nobody between the pages.
ListedInv ==
    stage = "listed" =>
        /\ ask.page = 1 => \A c \in ask.there \ ask.rows : Behind(c, ask.q, ask.size, 1)
        /\ Continues => \A c \in trail.unseen \ ask.rows : Behind(c, ask.q, ask.size, ask.page)

\* A page that was redirected to is still there.
RedirectInv ==
    /\ stage \in {"asked", "listed"} /\ ask.redirects > 0
       => ask.redirects = 1 /\ ask.page <= LastPage(Total(ask.q), ask.size)
    /\ stage = "idle" => ask.redirects = 0

IInv == TypeOK /\ TrailInv /\ ListedInv /\ NobodySkipped /\ RedirectInv

----------------------------------------------------------------------------
(* Pages and counts.                                                       *)

\* What a search finds is finite, as are the rows before one of them.
LEMMA Finite ==
    ASSUME NEW q
    PROVE  /\ IsFiniteSet(Matching(q)) /\ Total(q) \in Nat
           /\ \A c : IsFiniteSet(Before(c, q)) /\ Cardinality(Before(c, q)) \in Nat
<1>1. Matching(q) \in SUBSET Customers
  BY DEF Matching
<1>2. IsFiniteSet(Matching(q))
  BY <1>1, CustomersAssumption, FS_Subset
<1>3. \A c : Before(c, q) \in SUBSET Matching(q)
  BY DEF Before
<1>4. \A c : IsFiniteSet(Before(c, q))
  BY <1>2, <1>3, FS_Subset
<1> QED
  BY <1>2, <1>4, FS_CardinalityType DEF Total

\* A row is not before itself, so fewer rows are before it than there are.
LEMMA BeforeIsLess ==
    ASSUME TypeOK, NEW q, NEW c \in Matching(q)
    PROVE  Cardinality(Before(c, q)) < Total(q)
<1>1. Before(c, q) \in SUBSET Matching(q)
  BY DEF Before
<1>2. c \notin Before(c, q)
  BY DEF Before, TypeOK, Row, Matching
<1> QED
  BY <1>1, <1>2, Finite, FS_Subset DEF Total

\* All rows are on the pages up to the last, and more rows do not make fewer
\* pages.
LEMMA Pages ==
    ASSUME NEW total \in Nat, NEW size \in Nat \ {0}
    PROVE  /\ LastPage(total, size) \in Nat \ {0}
           /\ total <= LastPage(total, size) * size
           /\ \A more \in Nat : total <= more => LastPage(total, size) <= LastPage(more, size)
<1>1. \A n \in Nat : n \div size \in Nat /\ (n \div size) * size <= n /\ n < (n \div size + 1) * size
  OBVIOUS
<1> QED
  BY <1>1 DEF LastPage

\* Fewer pages are fewer rows.
LEMMA Fewer ==
    ASSUME NEW a \in Nat, NEW b \in Nat, a <= b, NEW size \in Nat
    PROVE  a * size <= b * size
OBVIOUS

----------------------------------------------------------------------------
(* Registrations.                                                          *)

Registers == \E c \in Customers : Enroll(c) \/ End(c)

\* What a search found it still finds, behind at least as many rows.
LEMMA Growth ==
    ASSUME TypeOK, Registers, NEW q
    PROVE  /\ Matching(q) \subseteq Matching(q)'
           /\ Total(q) <= Total(q)'
           /\ \A c \in Matching(q) : Cardinality(Before(c, q)) <= Cardinality(Before(c, q)')
<1>1. \A d \in Matching(q) : row'[d].at = "saved" /\ row'[d].name = row[d].name
                             /\ row'[d].created = row[d].created
  <2> SUFFICES ASSUME NEW d \in Matching(q), NEW c \in Customers, Enroll(c) \/ End(c)
               PROVE  row'[d].at = "saved" /\ row'[d].name = row[d].name
                      /\ row'[d].created = row[d].created
    BY DEF Registers
  <2>1. d # c /\ row'[d] = row[d]
    BY DEF Enroll, End, Matching, TypeOK
  <2> QED
    BY <2>1 DEF Matching
<1>2. Matching(q) \subseteq Matching(q)'
  BY <1>1 DEF Matching
<1>3. \A c \in Matching(q) : Before(c, q) \subseteq Before(c, q)'
  BY <1>1, <1>2 DEF Before
<1>4. IsFiniteSet(Matching(q)')
  <2>1. Matching(q)' \in SUBSET Customers
    BY DEF Matching
  <2> QED
    BY <2>1, CustomersAssumption, FS_Subset
<1>5. \A c : IsFiniteSet(Before(c, q)')
  <2>1. \A c : Before(c, q)' \in SUBSET Matching(q)'
    BY DEF Before
  <2> QED
    BY <2>1, <1>4, FS_Subset
<1> QED
  BY <1>2, <1>3, <1>4, <1>5, FS_Subset DEF Total

\* So whoever is behind some pages stays there.
LEMMA StaysBehind ==
    ASSUME TypeOK, Registers, NEW q, NEW size \in Nat, NEW pages \in Nat,
           NEW c, Behind(c, q, size, pages)
    PROVE  Behind(c, q, size, pages)'
<1>1. /\ Cardinality(Before(c, q)) <= Cardinality(Before(c, q)') /\ c \in Matching(q)'
      /\ Cardinality(Before(c, q)) \in Nat
  BY Growth, Finite DEF Behind
<1>2. Cardinality(Before(c, q)') \in Nat
  <2>1. /\ Matching(q)' \in SUBSET Customers
        /\ Before(c, q)' \in SUBSET Matching(q)'
    BY DEF Matching, Before
  <2> QED
    BY <2>1, CustomersAssumption, FS_Subset, FS_CardinalityType
<1> QED
  BY <1>1, <1>2 DEF Behind

\* A registration moves nothing but the rows.
LEMMA RegisterStep ==
    ASSUME IInv, Registers
    PROVE  IInv'
<1> USE DEF IInv
<1>1. UNCHANGED <<stage, ask, view, trail>>
  BY DEF Registers, Enroll, End
<1>2. TypeOK'
  <2>1. row' \in [Customers -> Row] /\ clock' \in Nat
    BY DEF Registers, Enroll, End, TypeOK, Row
  <2> QED
    BY <1>1, <2>1 DEF TypeOK
<1>3. trail.size \in Nat /\ trail.reached \in Nat /\ ask.size \in Nat /\ ask.page \in Nat
      /\ ask.size # 0 /\ ask.page # 0
  BY PagesAssumption DEF TypeOK, Trail, Ask
<1>4. TrailInv'
  BY <1>1, <1>3, StaysBehind DEF TrailInv
<1>5. ListedInv'
  BY <1>1, <1>3, StaysBehind DEF ListedInv, Continues
<1>6. NobodySkipped'
  BY <1>1 DEF NobodySkipped
<1>7. RedirectInv'
  <2> SUFFICES ASSUME NEW q, q = ask.q, NEW size, size = ask.size
               PROVE  LastPage(Total(q), size) <= LastPage(Total(q)', size)
                      /\ {LastPage(Total(q), size), LastPage(Total(q)', size)} \subseteq Nat
    BY <1>1, <1>3 DEF RedirectInv
  <2>1. Total(q)' \in Nat
    <3>1. Matching(q)' \in SUBSET Customers
      BY DEF Matching
    <3> QED
      BY <3>1, CustomersAssumption, FS_Subset, FS_CardinalityType DEF Total
  <2> QED
    BY <1>3, <2>1, Finite, Growth, Pages
<1> QED
  BY <1>2, <1>4, <1>5, <1>6, <1>7

----------------------------------------------------------------------------
(* The tab.                                                                *)

\* With an unchanged table the searches find what they found.
LEMMA SameTable ==
    ASSUME UNCHANGED Table, NEW q, NEW c, NEW size, NEW pages
    PROVE  /\ Matching(q)' = Matching(q) /\ Total(q)' = Total(q)
           /\ Behind(c, q, size, pages)' = Behind(c, q, size, pages)
BY DEF Table, Matching, Total, Behind, Before

\* A trail stays true while the table and the trail do.
LEMMA SameTrail ==
    ASSUME IInv, UNCHANGED <<Table, trail>>
    PROVE  TrailInv'
BY SameTable DEF IInv, TrailInv

\* A navigation asks for a page that was not redirected to.
LEMMA GoStep ==
    ASSUME IInv, NEW q \in Queries, NEW size \in PageSizes, NEW page \in Nat \ {0}, Go(q, size, page)
    PROVE  IInv'
<1>1. ask' \in Ask
  BY DEF Go, Asked, Ask
<1> QED
  BY <1>1, SameTrail
     DEF IInv, Go, Asked, Table, TypeOK, Stages, ListedInv, NobodySkipped, RedirectInv

Navigates == Visit \/ Search \/ Clear \/ Resize \/ Previous \/ Following

LEMMA NavigateStep ==
    ASSUME IInv, Navigates
    PROVE  IInv'
<1>1. PICK q \in Queries, size \in PageSizes, page \in Nat \ {0} : Go(q, size, page)
  <2>1. view.q \in Queries /\ view.size \in PageSizes /\ view.page \in Nat \ {0}
    BY DEF IInv, TypeOK, View
  <2>2. None \in Queries /\ DefaultSize \in PageSizes
    BY PagesAssumption DEF Queries
  <2>3. CASE Visit
    BY <2>3 DEF Visit
  <2>4. CASE Search
    BY <2>1, <2>4 DEF Search
  <2>5. CASE Clear
    BY <2>2, <2>5 DEF Clear
  <2>6. CASE Resize
    BY <2>1, <2>6 DEF Resize
  <2>7. CASE Previous
    BY <2>1, <2>7 DEF Previous
  <2>8. CASE Following
    BY <2>1, <2>8 DEF Following
  <2> QED
    BY <2>3, <2>4, <2>5, <2>6, <2>7, <2>8 DEF Navigates
<1> QED
  BY <1>1, GoStep

\* A request that fails leaves the trail where it was.
LEMMA FailStep ==
    ASSUME IInv, Fail
    PROVE  IInv'
<1>1. ask' \in Ask /\ view' \in View
  BY PagesAssumption DEF IInv, TypeOK, Fail, Answered, Asked, Ask, Blank, View, Queries
<1> QED
  BY <1>1, SameTrail
     DEF IInv, Fail, Answered, Asked, Blank, Table, TypeOK, Stages, ListedInv, NobodySkipped,
         RedirectInv

----------------------------------------------------------------------------
(* The pages.                                                              *)

\* The rows of a page leave nobody between it and the rows after it.
LEMMA PageShows ==
    ASSUME NEW q, NEW size \in Nat, NEW page \in Nat \ {0}, NEW c,
           Behind(c, q, size, page - 1), c \notin RowsOfPage(q, size, page)
    PROVE  Behind(c, q, size, page)
BY Finite DEF Behind, RowsOfPage

LEMMA ListStep ==
    ASSUME IInv, List
    PROVE  IInv'
<1>1. ask.q \in Queries /\ ask.size \in Nat /\ ask.page \in Nat \ {0}
  BY PagesAssumption DEF IInv, TypeOK, Ask
<1>2. /\ ask'.q = ask.q /\ ask'.size = ask.size /\ ask'.page = ask.page
      /\ ask'.redirects = ask.redirects
      /\ ask'.rows = RowsOfPage(ask.q, ask.size, ask.page) /\ ask'.there = Matching(ask.q)
      /\ ask' \in Ask
  <2>1. RowsOfPage(ask.q, ask.size, ask.page) \subseteq Customers /\ Matching(ask.q) \subseteq Customers
    BY DEF RowsOfPage, Matching
  <2> QED
    BY <2>1 DEF IInv, TypeOK, Ask, List
<1>3. TypeOK'
  BY <1>2 DEF IInv, TypeOK, Stages, List, Table
<1>4. UNCHANGED <<Table, view, trail>>
  BY DEF List
<1>5. \A c \in ask'.there \ ask'.rows : ask.page = 1 => Behind(c, ask.q, ask.size, 1)
  <2> SUFFICES ASSUME NEW c \in ask'.there \ ask'.rows, ask.page = 1
               PROVE  Behind(c, ask.q, ask.size, 1)
    OBVIOUS
  <2>1. Behind(c, ask.q, ask.size, ask.page - 1)
    BY <1>1, <1>2, Finite DEF Behind
  <2> QED
    BY <1>1, <1>2, <2>1, PageShows
<1>6. Continues => \A c \in trail.unseen \ ask'.rows : Behind(c, ask.q, ask.size, ask.page)
  <2> SUFFICES ASSUME Continues, NEW c \in trail.unseen \ ask'.rows
               PROVE  Behind(c, ask.q, ask.size, ask.page)
    OBVIOUS
  <2>1. trail.reached \in Nat
    BY DEF IInv, TypeOK, Trail
  <2>2. Behind(c, ask.q, ask.size, ask.page - 1)
    BY <2>1 DEF IInv, TrailInv, Continues
  <2> QED
    BY <1>1, <1>2, <2>2, PageShows
<1>7. ListedInv'
  BY <1>2, <1>4, <1>5, <1>6, SameTable DEF ListedInv, Continues
<1>8. NobodySkipped'
  BY <1>4 DEF IInv, NobodySkipped
<1>9. RedirectInv'
  BY <1>2, <1>4, SameTable DEF IInv, RedirectInv, List
<1> QED
  BY <1>3, <1>4, <1>7, <1>8, <1>9, SameTrail DEF IInv

\* The page a request is redirected to is there: it is not redirected again.
LEMMA RedirectStep ==
    ASSUME IInv, Redirect
    PROVE  IInv'
<1> DEFINE last == LastPage(Total(ask.q), ask.size)
<1>1. last \in Nat \ {0}
  BY Finite, Pages, PagesAssumption DEF IInv, TypeOK, Ask
<1>2. ask.redirects = 0
  BY <1>1 DEF IInv, RedirectInv, Redirect, Beyond, TypeOK, Ask
<1>3. /\ ask'.q = ask.q /\ ask'.size = ask.size /\ ask'.page = last
      /\ ask'.redirects = 1 /\ ask' \in Ask
  <2>1. ask' = [ask EXCEPT !.page = last, !.redirects = 1, !.rows = {}, !.there = {}]
    BY <1>2 DEF Redirect
  <2> HIDE DEF last
  <2> QED
    BY <1>1, <2>1 DEF IInv, TypeOK, Ask
<1>4. UNCHANGED <<Table, view, trail>> /\ stage' = "asked"
  BY DEF Redirect
<1>5. TypeOK'
  BY <1>3, <1>4 DEF IInv, TypeOK, Table, Stages
<1>6. ListedInv' /\ NobodySkipped'
  BY <1>4 DEF IInv, ListedInv, NobodySkipped
<1>7. RedirectInv'
  BY <1>1, <1>3, <1>4, SameTable DEF RedirectInv
<1> QED
  BY <1>4, <1>5, <1>6, <1>7, SameTrail DEF IInv

\* A page that follows the trail leaves whoever is unseen behind it.
LEMMA FollowStep ==
    ASSUME IInv, Render
    PROVE  TrailInv' /\ trail' \in Trail
<1>1. /\ UNCHANGED Table /\ trail' = Follow /\ stage = "listed"
      /\ ask \in Ask /\ trail \in Trail
  BY DEF IInv, TypeOK, Render
<1>2. CASE ask.page = 1
  <2>1. trail' = [q |-> ask.q, size |-> ask.size, reached |-> 1, unseen |-> ask.there \ ask.rows]
    BY <1>1, <1>2 DEF Follow
  <2>2. \A c \in trail'.unseen : Behind(c, ask.q, ask.size, 1)
    BY <1>1, <1>2, <2>1 DEF IInv, ListedInv
  <2> QED
    BY <1>1, <2>1, <2>2, SameTable DEF TrailInv, Trail, Ask
<1>3. CASE ask.page # 1 /\ ask.q = trail.q /\ ask.size = trail.size
  <2>1. trail' = [trail EXCEPT !.unseen = @ \ ask.rows,
                               !.reached = IF ask.page = @ + 1 THEN @ + 1 ELSE @]
    BY <1>1, <1>3 DEF Follow
  <2>2. /\ trail'.q = trail.q /\ trail'.size = trail.size /\ trail'.unseen = trail.unseen \ ask.rows
        /\ trail'.reached = (IF ask.page = trail.reached + 1 THEN ask.page ELSE trail.reached)
        /\ trail' \in Trail
    <3> DEFINE further == IF ask.page = trail.reached + 1 THEN ask.page ELSE trail.reached
    <3>1. further \in Nat
      BY <1>1 DEF Trail, Ask
    <3>2. trail' = [trail EXCEPT !.unseen = trail.unseen \ ask.rows, !.reached = further]
      BY <2>1
    <3> HIDE DEF further
    <3>3. /\ trail'.q = trail.q /\ trail'.size = trail.size
          /\ trail'.unseen = trail.unseen \ ask.rows /\ trail'.reached = further
          /\ trail' \in Trail
      BY <1>1, <3>1, <3>2 DEF Trail
    <3> QED
      BY <3>3 DEF further
  <2>3. \A c \in trail'.unseen : Behind(c, trail.q, trail.size, trail'.reached)
    BY <1>1, <1>3, <2>2 DEF IInv, ListedInv, TrailInv, Continues
  <2> QED
    BY <1>1, <2>2, <2>3, SameTable DEF TrailInv
<1>4. CASE ask.page # 1 /\ ~(ask.q = trail.q /\ ask.size = trail.size)
  <2>1. trail' = trail
    BY <1>1, <1>4 DEF Follow
  <2> QED
    BY <1>1, <2>1, SameTrail
<1> QED
  BY <1>2, <1>3, <1>4

\* The count of the last page counts whoever is left behind it: nobody is.
LEMMA RenderStep ==
    ASSUME IInv, Render
    PROVE  IInv'
<1> DEFINE total == Total(ask.q)
           last == LastPage(total, ask.size)
<1>1. /\ ask.q \in Queries /\ ask.size \in PageSizes /\ ask.size \in Nat \ {0}
      /\ ask.page \in Nat \ {0} /\ ask.rows \subseteq Customers
  BY PagesAssumption DEF IInv, TypeOK, Ask
<1>2. total \in Nat /\ last \in Nat \ {0} /\ total <= last * ask.size
  BY <1>1, Finite, Pages
<1>3. /\ view' = [ok |-> TRUE, q |-> ask.q, size |-> ask.size,
                  page |-> IF ask.page < last THEN ask.page ELSE last, last |-> last,
                  rows |-> ask.rows]
      /\ stage' = "idle" /\ ask' = Asked(None, DefaultSize, 1) /\ UNCHANGED Table
  BY DEF Render, Answered
<1>4. view' \in View
  BY <1>1, <1>2, <1>3 DEF View
<1>5. ask' \in Ask /\ ask'.redirects = 0
  BY <1>3, PagesAssumption DEF Asked, Ask, Queries
<1>6. TypeOK'
  BY <1>3, <1>4, <1>5, FollowStep DEF IInv, TypeOK, Table, Stages
<1>7. NobodySkipped'
  <2> SUFFICES ASSUME trail'.q = ask.q, trail'.size = ask.size, trail'.reached >= last,
                      NEW c \in trail'.unseen
               PROVE  FALSE
    BY <1>3 DEF NobodySkipped
  <2>1. trail'.reached \in Nat
    BY FollowStep DEF Trail
  <2>2. Behind(c, ask.q, ask.size, trail'.reached)
    <3>1. Behind(c, trail.q, trail.size, trail.reached)'
      BY FollowStep DEF TrailInv
    <3> QED
      BY <1>3, <3>1 DEF Table, Behind, Matching, Before
  <2>3. last * ask.size <= trail'.reached * ask.size
    BY <1>1, <1>2, <2>1, Fewer
  <2>4. Cardinality(Before(c, ask.q)) < total /\ Cardinality(Before(c, ask.q)) \in Nat
    BY <2>2, BeforeIsLess, Finite DEF IInv, Behind
  <2>5. trail'.reached * ask.size <= Cardinality(Before(c, ask.q))
    BY <2>2 DEF Behind
  <2>6. last * ask.size \in Nat /\ trail'.reached * ask.size \in Nat
    BY <1>1, <1>2, <2>1
  <2> QED
    BY <1>2, <2>3, <2>4, <2>5, <2>6
<1>8. ListedInv' /\ RedirectInv'
  BY <1>3, <1>5 DEF ListedInv, RedirectInv
<1> QED
  BY <1>6, <1>7, <1>8, FollowStep DEF IInv

----------------------------------------------------------------------------
(* The theorems.                                                           *)

LEMMA InitInv == Init => IInv
<1> SUFFICES ASSUME Init PROVE IInv
  OBVIOUS
<1>1. TypeOK
  <2>1. row \in [Customers -> Row] /\ clock \in Nat
    BY DEF Init, Row
  <2> QED
    BY <2>1, PagesAssumption
       DEF Init, TypeOK, Stages, Asked, Ask, Blank, View, Trail, Queries
<1> QED
  BY <1>1 DEF Init, IInv, TrailInv, ListedInv, NobodySkipped, RedirectInv, Asked, Blank

LEMMA NextInv == IInv /\ [Next]_vars => IInv'
<1> SUFFICES ASSUME IInv, [Next]_vars PROVE IInv'
  OBVIOUS
<1>1. CASE Registers
  BY <1>1, RegisterStep
<1>2. CASE Navigates
  BY <1>2, NavigateStep
<1>3. CASE List
  BY <1>3, ListStep
<1>4. CASE Fail
  BY <1>4, FailStep
<1>5. CASE Redirect
  BY <1>5, RedirectStep
<1>6. CASE Render
  BY <1>6, RenderStep
<1>7. CASE UNCHANGED vars
  BY <1>7 DEF vars, IInv, TypeOK, TrailInv, ListedInv, Continues, NobodySkipped, RedirectInv,
              Behind, Before, Matching, Total
<1> QED
  BY <1>1, <1>2, <1>3, <1>4, <1>5, <1>6, <1>7 DEF Next, Registers, Navigates

\* The inductive invariant holds in every reachable state.
LEMMA Invariance == Spec => []IInv
BY InitInv, NextInv, PTL DEF Spec

\* Every variable keeps its type, for any customers and page sizes: there is
\* no page 0, and no count below 0.
THEOREM TypeCorrect == Spec => []TypeOK
<1>1. IInv => TypeOK
  BY DEF IInv
<1> QED
  BY <1>1, Invariance, PTL

\* Whoever turns the pages from the first to the last has seen every customer
\* who was there at the first, for any size of a page and any registrations.
THEOREM NobodyIsSkipped == Spec => []NobodySkipped
<1>1. IInv => NobodySkipped
  BY DEF IInv
<1> QED
  BY <1>1, Invariance, PTL

\* No URL is redirected more than once, whatever is registered meanwhile.
THEOREM RedirectedOnce == Spec => []OneRedirect
<1>1. IInv => OneRedirect
  BY DEF IInv, TypeOK, Ask, Stages, RedirectInv, OneRedirect
<1> QED
  BY <1>1, Invariance, PTL
============================================================================
