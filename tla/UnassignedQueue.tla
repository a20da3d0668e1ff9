-------------------------- MODULE UnassignedQueue --------------------------
(***************************************************************************)
(* The queue of visits without a crew (unassigned-visits/page.tsx) and the *)
(* drawer that shows one visit and locks it (visits/visit-detail-drawer).  *)
(*                                                                         *)
(* Neither fences its requests: every answer is taken, whichever render    *)
(* asked for it.  `current` only records which request was the last, for   *)
(* the properties to say what a late answer may do.                        *)
(***************************************************************************)
EXTENDS ListScreens, CrewEditor

\* Opened from the menu, or by a link that names a visit.
QueueOpens(v) ==
  [focus |-> v, of |-> 1, rows |-> {}, answers |-> None, loading |-> TRUE, error |-> "no",
   busy |-> FALSE, astray |-> FALSE,
   open |-> None, shown |-> None, reading |-> FALSE, unread |-> FALSE, late |-> FALSE, saving |-> FALSE]

\* What is asked: the visit that was named, and then no filter; else the filters.
Query(l) == IF l.focus # None THEN l.focus ELSE l.of

QueueRequest(l) == [kind |-> "queue", of |-> Query(l), current |-> TRUE, seen |-> None]

Fetching(l) == [l EXCEPT !.loading = TRUE, !.error = "no"]
Fetches(w, kind, q) ==
  {IF c.kind = kind THEN [c EXCEPT !.current = FALSE] ELSE c : c \in w}
    \cup {[kind |-> kind, of |-> q, current |-> TRUE, seen |-> None]}

\* A new filter, date or page; under a link as well, where nothing of it is sent.
QueueAsk(q) ==
  /\ screen = "queue" /\ Click /\ lists.open = None
  /\ lists' = Fetching([lists EXCEPT !.of = q])
  /\ wire' = Fetches(wire, "queue", Query(lists'))
  /\ UNCHANGED others

\* Another link is followed, or the way back to the whole queue.
QueueFollows(v) ==
  /\ screen = "queue" /\ Click /\ lists.open = None /\ v # lists.focus
  /\ lists' = Fetching([lists EXCEPT !.focus = v])
  /\ wire' = Fetches(wire, "queue", Query(lists'))
  /\ UNCHANGED others

QueueLoaded(c, found) ==
  /\ screen = "queue" /\ c.kind = "queue"
  /\ lists' = [lists EXCEPT !.rows = found, !.answers = c.of, !.loading = FALSE,
                            !.astray = ~c.current \/ (@ /\ c.of # Query(lists))]
  /\ wire' = wire \ {c}
  /\ UNCHANGED <<clicks, others>>

\* An id that is none is refused; only a link sends one.
QueueFails(c, why) ==
  /\ screen = "queue" /\ c.kind = "queue" /\ (why = "VALIDATION_FAILED" => c.of \in Visit)
  /\ lists' = [lists EXCEPT !.error = why, !.loading = FALSE, !.astray = @ \/ ~c.current]
  /\ wire' = wire \ {c}
  /\ UNCHANGED <<clicks, others>>

\* A row that is not the visit that was asked for is not an answer to it.
FocusNotFound(l) ==
  /\ l.focus # None
  /\ IF l.error # "no" THEN l.error = "VALIDATION_FAILED" ELSE l.rows # {l.focus}

Displayed(l) == IF l.loading \/ FocusNotFound(l) \/ l.error # "no" THEN {} ELSE l.rows

\* An empty list says that everything is staffed only under no filter at all.
SaysAllIsStaffed(l) ==
  ~l.loading /\ ~FocusNotFound(l) /\ l.error = "no" /\ l.rows = {} /\ l.of = 1

\* The crew editor, opened over a row, calls the load of the render it ended in.
QueueAssigns ==
  /\ screen = "queue" /\ Click /\ ~lists.busy /\ Displayed(lists) # {}
  /\ lists' = [lists EXCEPT !.busy = TRUE]
  /\ wire' = wire \cup {[kind |-> "change", of |-> Query(lists), current |-> TRUE]}
  /\ UNCHANGED others
ReadsQueue(l, q) == [Fetching(l) EXCEPT !.astray = @ \/ q # Query(l)]
QueueAssigned(c) ==
  /\ screen = "queue" /\ c.kind = "change"
  /\ lists' = [ReadsQueue(lists, c.of) EXCEPT !.busy = FALSE]
  /\ wire' = Fetches(wire \ {c}, "queue", c.of)
  /\ UNCHANGED <<clicks, others>>

-----------------------------------------------------------------------------
(* The drawer.  `server` holds the visits that are locked.                 *)

Reads(l) == [l EXCEPT !.shown = None, !.reading = TRUE, !.unread = FALSE]

OpenDetail(v) ==
  /\ screen = "queue" /\ Click /\ lists.open = None /\ v \in Displayed(lists)
  /\ lists' = [Reads(lists) EXCEPT !.open = v, !.late = FALSE]
  /\ wire' = Fetches(wire, "visit", v)
  /\ UNCHANGED others

\* Closed, it keeps the visit it showed and the requests it made.
CloseDetail ==
  /\ screen = "queue" /\ Click /\ lists.open # None
  /\ lists' = [lists EXCEPT !.open = None]
  /\ UNCHANGED <<wire, others>>

DetailServed(c) ==
  /\ screen = "queue" /\ c.kind = "visit" /\ c.seen = None
  /\ wire' = (wire \ {c}) \cup {[c EXCEPT !.seen = [visit |-> c.of, isLocked |-> c.of \in server]]}
  /\ UNCHANGED <<clicks, lists, others>>
DetailArrives(c) ==
  /\ screen = "queue" /\ c.kind = "visit" /\ c.seen # None
  /\ lists' = [lists EXCEPT !.shown = c.seen, !.reading = FALSE, !.late = @ \/ ~c.current]
  /\ wire' = wire \ {c}
  /\ UNCHANGED <<clicks, others>>
DetailFails(c) ==
  /\ screen = "queue" /\ c.kind = "visit"
  /\ lists' = [lists EXCEPT !.unread = TRUE, !.reading = FALSE, !.late = @ \/ ~c.current]
  /\ wire' = wire \ {c}
  /\ UNCHANGED <<clicks, others>>

\* Lock or release what is shown; a second click of the same tick does nothing.
ToggleVisitLock ==
  /\ screen = "queue" /\ Click /\ lists.open # None /\ lists.shown # None /\ ~lists.saving
  /\ lists' = [lists EXCEPT !.saving = TRUE]
  /\ wire' = wire \cup {[kind |-> "lock", of |-> Query(lists), visit |-> lists.shown.visit,
                         opened |-> lists.open, to |-> ~lists.shown.isLocked, done |-> FALSE]}
  /\ UNCHANGED others

LockServed(c) ==
  /\ screen = "queue" /\ c.kind = "lock" /\ ~c.done
  /\ server' = IF c.to THEN server \cup {c.visit} ELSE server \ {c.visit}
  /\ wire' = (wire \ {c}) \cup {[c EXCEPT !.done = TRUE]}
  /\ UNCHANGED <<clicks, lists, screen, pager, polls, editor, desk>>

\* Then the drawer and the queue are read again, both as of the click.
LockAnswered(c) ==
  /\ screen = "queue" /\ c.kind = "lock" /\ c.done
  /\ lists' = [Reads(ReadsQueue(lists, c.of)) EXCEPT !.saving = FALSE, !.late = @ \/ c.opened # lists.open]
  /\ wire' = Fetches(Fetches(wire \ {c}, "visit", c.opened), "queue", c.of)
  /\ UNCHANGED <<clicks, others>>
\* Refused, or its answer lost: nothing is read again.
LockFails(c) ==
  /\ screen = "queue" /\ c.kind = "lock"
  /\ lists' = [lists EXCEPT !.saving = FALSE, !.late = @ \/ c.done]
  /\ wire' = wire \ {c}
  /\ UNCHANGED <<clicks, others>>

-----------------------------------------------------------------------------
(* What must hold.                                                         *)

\* A queue opened on one visit never shows another, whatever answer lands last
\* (page.tsx, focusNotFound).  Unless an answer was overtaken by a later one, or
\* a handler reloaded the question it began with, the rows, and the claim that
\* everything is staffed, answer the question the page asks now.
QueueAnswersItsQuestion ==
  screen = "queue" =>
    /\ lists.focus # None => Displayed(lists) \subseteq {lists.focus}
    /\ ~lists.loading /\ lists.error = "no" /\ ~lists.astray =>
         lists.answers = IF lists.focus = None THEN lists.of ELSE lists.focus
    /\ SaysAllIsStaffed(lists) /\ ~lists.astray => lists.focus = None /\ lists.answers = 1

\* With no lock on its way, the drawer shows the visit it was opened on and the
\* lock that visit really has, so that the button it offers reverses what is so;
\* the exception is an answer that was overtaken or lost.
DetailTellsTheLock ==
  screen = "queue" /\ lists.open # None /\ lists.shown # None /\ ~lists.saving /\ ~lists.late =>
    /\ lists.shown.visit = lists.open
    /\ lists.shown.isLocked = (lists.open \in server)

=============================================================================
