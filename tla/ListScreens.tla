---------------------------- MODULE ListScreens ----------------------------
(***************************************************************************)
(* The screens that show rows under filters: service agreements,           *)
(* customers, visits with the generation drawer, the dispatch board and    *)
(* the calendar; and the walk that loads every customer for a selector.    *)
(***************************************************************************)
EXTENDS Browser

CONSTANTS
  Question,    \* what the filters, the range and the page can ask for; 1 is the first page
  MaxSites,    \* sites a new customer is entered with
  Customer,    \* customers, in the order the API lists them
  PageSize     \* customers per page of the walk

ASSUME ListsAssumption ==
  /\ 1 \in Question /\ Question \subseteq Nat /\ None \notin Question
  /\ Customer \subseteq Nat /\ IsFiniteSet(Customer)
  /\ PageSize \in Nat \ {0} /\ MaxSites \in Nat

ListPages == {"agreements", "customers", "visits", "dispatch", "calendar"}
others == <<screen, pager, polls, editor, desk, server>>

Idle ==
  [of |-> 1, rows |-> None, loading |-> FALSE, error |-> FALSE, busy |-> FALSE, astray |-> FALSE,
   crews |-> None, operations |-> None, open |-> FALSE, impact |-> None, previewing |-> FALSE]

Loading(l, q) == [l EXCEPT !.of = q, !.loading = TRUE, !.error = FALSE]
Shown(l, q) == [l EXCEPT !.rows = q, !.loading = FALSE, !.astray = @ /\ q # l.of]
Sends(kind) == wire' = wire \cup {[kind |-> kind, of |-> lists.of, current |-> TRUE]}

\* Every page treats a failure alike: the error of the newest request is shown.
ListFails(c) ==
  /\ c.kind \in {"rows", "crews"}
  /\ wire' = wire \ {c}
  /\ lists' = IF c.current THEN [lists EXCEPT !.loading = FALSE, !.error = TRUE] ELSE lists
  /\ UNCHANGED <<clicks, others>>

-----------------------------------------------------------------------------
(* Service agreements (service-agreements/page.tsx).                       *)

\* A new filter makes a new load, which the effect runs.
AgreementsFilter(q) ==
  /\ screen = "agreements" /\ Click
  /\ lists' = Loading(lists, q)
  /\ wire' = Asked({"rows"}, q)
  /\ UNCHANGED others

AgreementsLoaded(c) ==
  /\ screen = "agreements" /\ c.kind = "rows"
  /\ wire' = wire \ {c}
  /\ lists' = IF c.current THEN Shown(lists, c.of) ELSE lists
  /\ UNCHANGED <<clicks, others>>

\* Creating an agreement in the drawer and switching one on or off, one at a time.
AgreementsChange ==
  /\ screen = "agreements" /\ Click /\ ~lists.busy
  /\ lists' = [lists EXCEPT !.busy = TRUE]
  /\ Sends("change")
  /\ UNCHANGED others

\* Handlers refresh through the newest load, whatever was filtered when they began.
Reload(c) == lists.of

AgreementsChanged(c) ==
  /\ screen = "agreements" /\ c.kind = "change"
  /\ lists' = [lists EXCEPT !.busy = FALSE, !.loading = TRUE, !.error = FALSE]
  /\ wire' = Asked({"rows"}, Reload(c)) \ {c}
  /\ UNCHANGED <<clicks, others>>

-----------------------------------------------------------------------------
(* Customers (customers/page.tsx).  Question 1 is the first page.          *)

CustomersAsk(q) ==
  /\ screen = "customers" /\ Click
  /\ lists' = Loading(lists, q)
  /\ wire' = Asked({"rows"}, q)
  /\ UNCHANGED others

\* A page past the end of a list that has become shorter is no answer: the
\* screen turns to the first page, and the effect loads that.
CustomersLoaded(c, empty) ==
  /\ screen = "customers" /\ c.kind = "rows"
  /\ IF c.current /\ empty /\ c.of > 1
       THEN /\ lists' = IF lists.of = 1 THEN [lists EXCEPT !.loading = FALSE] ELSE Loading(lists, 1)
            /\ wire' = (IF lists.of = 1 THEN wire ELSE Asked({"rows"}, 1)) \ {c}
       ELSE /\ lists' = IF c.current THEN Shown(lists, c.of) ELSE lists
            /\ wire' = wire \ {c}
  /\ UNCHANGED <<clicks, others>>

CustomersSubmit ==
  /\ screen = "customers" /\ Click /\ ~lists.busy
  /\ lists' = [lists EXCEPT !.busy = TRUE]
  /\ wire' = wire \cup {[kind |-> "create", of |-> lists.of, current |-> TRUE, left |-> MaxSites]}
  /\ UNCHANGED others

\* The customer first, then its sites one by one; a site that fails is named
\* at the end and stops nothing.  Only then the drawer closes and the handler
\* refreshes through the load of its own render.
CustomersCreated(c) ==
  /\ screen = "customers" /\ c.kind = "create"
  /\ IF c.left > 0
       THEN wire' = (wire \ {c}) \cup {[c EXCEPT !.left = @ - 1]} /\ UNCHANGED lists
       ELSE /\ lists' = [Loading(lists, lists.of) EXCEPT !.busy = FALSE, !.astray = @ \/ c.of # lists.of]
            /\ wire' = Asked({"rows"}, c.of) \ {c}
  /\ UNCHANGED <<clicks, others>>

CustomersRefused(c) ==
  /\ screen = "customers" /\ c.kind = "create" /\ c.left = MaxSites
  /\ lists' = [lists EXCEPT !.busy = FALSE]
  /\ wire' = wire \ {c}
  /\ UNCHANGED <<clicks, others>>

-----------------------------------------------------------------------------
(* The calendar board (calendar/calendar-board.tsx): no changes are made   *)
(* here; the range moves with the buttons and with midnight.               *)

CalendarMoves(q) ==
  /\ screen = "calendar" /\ Click
  /\ lists' = Loading(lists, q)
  /\ wire' = Asked({"rows"}, q)
  /\ UNCHANGED others

CalendarLoaded(c) ==
  /\ screen = "calendar" /\ c.kind = "rows"
  /\ wire' = wire \ {c}
  /\ lists' = IF c.current THEN Shown(lists, c.of) ELSE lists
  /\ UNCHANGED <<clicks, others>>

-----------------------------------------------------------------------------
(* The visits calendar (visits/page.tsx) and the drawer that previews and  *)
(* confirms a generation (visits/generation-impact-drawer.tsx).            *)

\* Opening the drawer, or moving the range while it is open, asks for the
\* preview of the range in view and takes the shown one away.
Preview(l) == IF l.open THEN [l EXCEPT !.previewing = TRUE, !.impact = None] ELSE l
PreviewSent(l, w, q) ==
  IF l.open
    THEN {IF c.kind = "preview" THEN [c EXCEPT !.current = FALSE] ELSE c : c \in w}
           \cup {[kind |-> "preview", of |-> q, current |-> TRUE]}
    ELSE w

VisitsMove(q) ==
  /\ screen = "visits" /\ Click
  /\ lists' = Preview(Loading(lists, q))
  /\ wire' = PreviewSent(lists, Asked({"rows"}, q), q)
  /\ UNCHANGED others

VisitsLoaded(c) ==
  /\ screen = "visits" /\ c.kind = "rows"
  /\ wire' = wire \ {c}
  /\ lists' = IF c.current THEN Shown(lists, c.of) ELSE lists
  /\ UNCHANGED <<clicks, others>>

\* A visit is dropped on another day and the move confirmed with a reason.
MayMove == ~lists.busy /\ lists.rows # None
VisitsConfirmMove ==
  /\ screen = "visits" /\ Click /\ MayMove
  /\ lists' = [lists EXCEPT !.busy = TRUE]
  /\ Sends("adjust")
  /\ UNCHANGED others

\* The handler refreshes through the load of its own render, which wins over
\* the load of a range the user has moved to meanwhile.
VisitsAdjusted(c) ==
  /\ screen = "visits" /\ c.kind = "adjust"
  /\ lists' = [Loading(lists, lists.of) EXCEPT !.busy = FALSE, !.astray = @ \/ c.of # lists.of]
  /\ wire' = Asked({"rows"}, c.of) \ {c}
  /\ UNCHANGED <<clicks, others>>

GenerateOpens ==
  /\ screen = "visits" /\ Click /\ ~lists.open
  /\ lists' = Preview([lists EXCEPT !.open = TRUE])
  /\ wire' = PreviewSent(lists', wire, lists.of)
  /\ UNCHANGED others

\* Closing asks for nothing and invalidates nothing.
GenerateCloses ==
  /\ screen = "visits" /\ Click /\ lists.open
  /\ lists' = [lists EXCEPT !.open = FALSE]
  /\ UNCHANGED <<wire, others>>

Previewed(c, works) ==
  /\ screen = "visits" /\ c.kind = "preview"
  /\ lists' = IF c.current
                THEN [lists EXCEPT !.previewing = FALSE, !.impact = IF works THEN c.of ELSE None]
                ELSE lists
  /\ wire' = wire \ {c}
  /\ UNCHANGED <<clicks, others>>

\* The button is live when an impact is shown; what it confirms is the range
\* in view, not the impact.
MayConfirm ==
  lists.open /\ ~lists.previewing /\ lists.impact # None /\ {c \in wire : c.kind = "generate"} = {}
GenerateConfirms ==
  /\ screen = "visits" /\ Click /\ MayConfirm
  /\ Sends("generate")
  /\ UNCHANGED <<lists, others>>

\* Applied: the page reloads through the callback of that render, the drawer closes.
GenerateApplied(c) ==
  /\ screen = "visits" /\ c.kind = "generate"
  /\ lists' = [Loading(lists, lists.of) EXCEPT !.open = FALSE, !.astray = @ \/ c.of # lists.of]
  /\ wire' = Asked({"rows"}, c.of) \ {c}
  /\ UNCHANGED <<clicks, others>>

-----------------------------------------------------------------------------
(* The dispatch board (dispatch-board/page.tsx).  Visits first, then the   *)
(* assignments of those that have one; the day's totals beside them.       *)

DispatchAsk(q) ==
  /\ screen = "dispatch" /\ Click
  /\ lists' = [Loading(lists, q) EXCEPT !.operations = None]
  /\ wire' = {IF c.kind = "crews" THEN [c EXCEPT !.current = FALSE] ELSE c :
                c \in Asked({"rows", "operations"}, q)}
  /\ UNCHANGED others

DispatchVisits(c) ==
  /\ screen = "dispatch" /\ c.kind = "rows"
  /\ lists' = IF c.current THEN [lists EXCEPT !.rows = c.of] ELSE lists
  /\ wire' = IF c.current THEN (wire \ {c}) \cup {[c EXCEPT !.kind = "crews"]} ELSE wire \ {c}
  /\ UNCHANGED <<clicks, others>>

DispatchCrews(c) ==
  /\ screen = "dispatch" /\ c.kind = "crews"
  /\ lists' = IF c.current THEN [Shown(lists, lists.rows) EXCEPT !.crews = c.of] ELSE lists
  /\ wire' = wire \ {c}
  /\ UNCHANGED <<clicks, others>>

DispatchOperations(c, works) ==
  /\ screen = "dispatch" /\ c.kind = "operations"
  /\ lists' = IF c.current THEN [lists EXCEPT !.operations = IF works THEN c.of ELSE None] ELSE lists
  /\ wire' = wire \ {c}
  /\ UNCHANGED <<clicks, others>>

\* The editor over the board has changed a crew, and calls the load it was given
\* when it began.
DispatchChange ==
  /\ screen = "dispatch" /\ Click /\ ~lists.busy
  /\ lists' = [lists EXCEPT !.busy = TRUE]
  /\ Sends("change")
  /\ UNCHANGED others
DispatchChanged(c) ==
  /\ screen = "dispatch" /\ c.kind = "change"
  /\ lists' = [Loading(lists, lists.of) EXCEPT !.busy = FALSE, !.operations = None,
                                               !.astray = @ \/ c.of # lists.of]
  /\ wire' = {IF d.kind = "crews" THEN [d EXCEPT !.current = FALSE] ELSE d :
                d \in Asked({"rows", "operations"}, c.of) \ {c}}
  /\ UNCHANGED <<clicks, others>>

\* A change, a move or a generation that was refused leaves the rows alone.
ChangeRefused(c) ==
  /\ c.kind \in {"change", "adjust", "generate"}
  /\ lists' = [lists EXCEPT !.busy = @ /\ c.kind = "generate"]
  /\ wire' = wire \ {c}
  /\ UNCHANGED <<clicks, others>>

-----------------------------------------------------------------------------
(* Every customer for a selector (lib/load-all-customers.ts): page after   *)
(* page of a list the API keeps in order, while it may change.             *)

WalkInit == [page |-> 1, got |-> {}, done |-> "no", gone |-> {}]

\* Page n: the customers that PageSize times n - 1 others go before, and the next.
PageOf(book, n) ==
  {x \in book : Cardinality({y \in book : y < x}) \div PageSize = n - 1}

\* Rows are owed as long as the newest total says so.
Owed(got, total) == Cardinality(got) < total

\* One page.  It ends when as many rows are held as the newest total says; an
\* empty page, or one that brings nothing new, while rows are owed is an error.
WalkPage ==
  /\ screen = "walk" /\ lists.done = "no"
  /\ LET items == PageOf(server, lists.page)
         got   == lists.got \cup items
     IN  lists' = [lists EXCEPT !.got = got, !.page = @ + 1,
                     !.done = IF ~Owed(got, Cardinality(server)) THEN "all"
                              ELSE IF items \subseteq lists.got THEN "failed" ELSE "no"]
  /\ UNCHANGED <<clicks, wire, others>>

\* Meanwhile customers are added, and switched off.
CustomerAdded(x) ==
  /\ screen = "walk" /\ lists.done = "no" /\ x \notin server
  /\ server' = server \cup {x}
  /\ UNCHANGED <<clicks, screen, wire, lists, pager, polls, editor, desk>>
CustomerLeaves(x) ==
  /\ screen = "walk" /\ lists.done = "no" /\ x \in server
  /\ server' = server \ {x}
  /\ lists' = [lists EXCEPT !.gone = @ \cup {x}]
  /\ UNCHANGED <<clicks, screen, wire, pager, polls, editor, desk>>

=============================================================================
