----------------------------- MODULE Directory -----------------------------
(***************************************************************************)
(* The owner's directory of customers (customers/page.tsx and the search   *)
(* of customers/logic.ts): a browser tab turns the pages of a list that    *)
(* registrations make longer while it is read.                             *)
(*                                                                         *)
(* A page is two statements of one READ COMMITTED transaction, its rows    *)
(* and then their count, so a registration can commit between them.  Rows  *)
(* are in the descending order of created_at, the instant their            *)
(* transaction began, which is not the order of the commits: a row can     *)
(* appear in the middle.  Customers are never deleted or edited.  Two      *)
(* transactions do not begin in the same microsecond.                      *)
(***************************************************************************)
EXTENDS Integers, FiniteSets

CONSTANTS
    Customers,      \* the registrations of the business
    Names,          \* what a customer can be found by
    None,           \* the empty search
    PageSizes,      \* PAGE_SIZE_OPTIONS
    DefaultSize,    \* DEFAULT_PAGE_SIZE
    MaxPage         \* bound: pages typed into a URL

ASSUME CustomersAssumption == IsFiniteSet(Customers)
ASSUME NamesAssumption == None \notin Names
ASSUME PagesAssumption ==
    PageSizes \subseteq Nat \ {0} /\ DefaultSize \in PageSizes /\ MaxPage \in Nat \ {0}

VARIABLES
    row,            \* each registration: its stage, name and created_at
    clock,          \* transactions that have begun
    stage,          \* what the server does for the tab
    ask,            \* the request it does it for
    view,           \* the page the tab displays
    trail           \* history: the pages turned since the first

vars == <<row, clock, stage, ask, view, trail>>
Table == <<row, clock>>

Queries == Names \cup {None}
Row == [at : {"new", "open", "saved", "gone"}, name : Names, created : Nat]
Stages == {"idle", "asked", "listed"}

\* The URL; how often it was redirected; the rows read for it and, as history,
\* the customers who could have been.
Ask == [q : Queries, size : PageSizes, page : Nat \ {0}, redirects : Nat,
        rows : SUBSET Customers, there : SUBSET Customers]
View == [ok : BOOLEAN, q : Queries, size : PageSizes, page : Nat \ {0}, last : Nat \ {0},
         rows : SUBSET Customers]
\* Who was there at the first page and is still unseen, and how far it got.
Trail == [q : Queries, size : PageSizes, reached : Nat, unseen : SUBSET Customers]

----------------------------------------------------------------------------
(* customers/logic.ts                                                      *)

\* customerSearchWhere: the same filter for the rows and for their count.
Matching(q) == {c \in Customers : row[c].at = "saved" /\ (q = None \/ row[c].name = q)}

\* The rows that come before a row.
Before(c, q) == {d \in Matching(q) : row[d].created > row[c].created}

\* searchCustomers: ORDER BY created_at DESC LIMIT size OFFSET (page - 1) * size.
RowsOfPage(q, size, page) ==
    {c \in Matching(q) : /\ (page - 1) * size <= Cardinality(Before(c, q))
                         /\ Cardinality(Before(c, q)) < page * size}

\* countCustomers
Total(q) == Cardinality(Matching(q))

\* Slip: the page that is not full is not counted.
LastPageFull(total, size) == IF total < size THEN 1 ELSE total \div size

\* Math.max(1, Math.ceil(total / size))
LastPage(total, size) == IF total = 0 THEN 1 ELSE (total + size - 1) \div size

----------------------------------------------------------------------------
(* Registrations (createCustomerForSession, enroll_customer_public).       *)

\* BEGIN: created_at will be this instant.
Enroll(c) ==
    /\ row[c].at = "new"
    /\ clock' = clock + 1
    /\ row' = [row EXCEPT ![c].at = "open", ![c].created = clock + 1]
    /\ UNCHANGED <<stage, ask, view, trail>>

\* COMMIT, or ROLLBACK.
End(c) ==
    /\ row[c].at = "open"
    /\ \E at \in {"saved", "gone"} : row' = [row EXCEPT ![c].at = at]
    /\ UNCHANGED <<clock, stage, ask, view, trail>>

----------------------------------------------------------------------------
(* The tab.                                                                *)

\* searchParams, of a request that is yet to be served.
Asked(q, size, page) ==
    [q |-> q, size |-> size, page |-> page, redirects |-> 0, rows |-> {}, there |-> {}]

\* buildCustomersUrl and a navigation, which drops the one under way.
Go(q, size, page) ==
    /\ stage' = "asked"
    /\ ask' = Asked(q, size, page)
    /\ UNCHANGED <<Table, view, trail>>

\* A URL is typed, opened again or gone back to.
Visit == \E q \in Queries, size \in PageSizes, page \in 1..MaxPage : Go(q, size, page)

\* "Buscar": the form carries the size of the page and no page.
Search == \E q \in Queries : Go(q, view.size, 1)

\* "Limpiar"
Clear == view.q # None /\ Go(None, DefaultSize, 1)

\* The list and its controls are displayed when there are rows.
Listed == view.ok /\ view.rows # {}

\* "Clientes por página": another size starts over.
Resize == Listed /\ \E size \in PageSizes : Go(view.q, size, 1)

Previous == Listed /\ view.page > 1 /\ Go(view.q, view.size, view.page - 1)

\* "Siguiente"
Following == Listed /\ view.page < view.last /\ Go(view.q, view.size, view.page + 1)

----------------------------------------------------------------------------
(* CustomersPage and searchCustomersForSession.                            *)

\* The request is answered, and gone.
Answered == stage' = "idle" /\ ask' = Asked(None, DefaultSize, 1)

\* The first statement: the rows.
List ==
    /\ stage = "asked"
    /\ stage' = "listed"
    /\ ask' = [ask EXCEPT !.rows = RowsOfPage(ask.q, ask.size, ask.page),
                          !.there = Matching(ask.q)]
    /\ UNCHANGED <<Table, view, trail>>

\* A page without a list, of a search and a size.
Blank(q, size) ==
    [ok |-> FALSE, q |-> q, size |-> size, page |-> 1, last |-> 1, rows |-> {}]

\* The rate limiter refuses before the first statement, or one fails: the tab
\* says so and lists nothing.
Fail ==
    /\ stage # "idle"
    /\ Answered
    /\ view' = Blank(ask.q, ask.size)
    /\ UNCHANGED <<Table, trail>>

\* The second statement counted no page like the one asked for.
Beyond(total) == ask.page > LastPage(total, ask.size) /\ total > 0

\* redirect() to the last page, with the same search and size.
Redirect ==
    /\ stage = "listed" /\ Beyond(Total(ask.q))
    /\ stage' = "asked"
    /\ ask' = [ask EXCEPT !.page = LastPage(Total(ask.q), ask.size), !.redirects = @ + 1,
                          !.rows = {}, !.there = {}]
    /\ UNCHANGED <<Table, view, trail>>

\* History: the first page begins a trail; a page of the same search and size
\* shows its rows, and the next one in order takes the trail further.
Follow ==
    IF ask.page = 1
    THEN [q |-> ask.q, size |-> ask.size, reached |-> 1, unseen |-> ask.there \ ask.rows]
    ELSE IF ask.q = trail.q /\ ask.size = trail.size
    THEN [trail EXCEPT !.unseen = @ \ ask.rows,
                       !.reached = IF ask.page = @ + 1 THEN @ + 1 ELSE @]
    ELSE trail

\* The second statement, and the page is drawn.
Render ==
    LET total == Total(ask.q)
        last == LastPage(total, ask.size)
    IN
    /\ stage = "listed" /\ ~Beyond(total)
    /\ Answered
    /\ view' = [ok |-> TRUE, q |-> ask.q, size |-> ask.size,
                page |-> IF ask.page < last THEN ask.page ELSE last, last |-> last,
                rows |-> ask.rows]
    /\ trail' = Follow
    /\ UNCHANGED Table

----------------------------------------------------------------------------

Init ==
    /\ row \in [Customers -> {[at |-> "new", name |-> name, created |-> 0] : name \in Names}]
    /\ clock = 0
    /\ stage = "idle"
    /\ ask = Asked(None, DefaultSize, 1)
    /\ view = Blank(None, DefaultSize)
    /\ trail = [q |-> None, size |-> DefaultSize, reached |-> 0, unseen |-> {}]

Next ==
    \/ \E c \in Customers : Enroll(c) \/ End(c)
    \/ Visit \/ Search \/ Clear \/ Resize \/ Previous \/ Following
    \/ List \/ Fail \/ Redirect \/ Render

Spec == Init /\ [][Next]_vars

----------------------------------------------------------------------------
(* Properties.                                                             *)

\* Every variable has its type: there is no page 0.
TypeOK ==
    /\ row \in [Customers -> Row] /\ clock \in Nat
    /\ stage \in Stages
    /\ ask \in Ask /\ view \in View /\ trail \in Trail

\* Whoever turns the pages from the first to the last has seen every customer
\* who was there at the first, however many registrations pushed the rows
\* down, or squeezed in between, meanwhile.
NobodySkipped ==
    (/\ view.ok /\ view.q = trail.q /\ view.size = trail.size
     /\ trail.reached >= view.last)
    => trail.unseen = {}

\* A page that is not there is redirected once, to one that is: no URL sends
\* the browser from page to page.
OneRedirect == ask.redirects <= 1
============================================================================
