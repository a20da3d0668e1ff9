----------------------------- MODULE RunHistory -----------------------------
(***************************************************************************)
(* The run list (schedule-history/page.tsx): pages of runs, the panel fed  *)
(* from page 1, the schedule in force, and a poll while a run is active.   *)
(*                                                                         *)
(* The requests in flight are a sequence, oldest first: the panel has two  *)
(* sources, and their order is what its fence is about.                    *)
(***************************************************************************)
EXTENDS Browser

CONSTANTS
  Page,        \* pages of runs; 1 is the newest
  MaxPolls     \* bound: requests in flight when the timer fires

ASSUME HistoryAssumption == 1 \in Page /\ Page \subseteq Nat /\ None \notin Page

elsewhere == <<screen, wire, lists, editor, desk, server>>

Pager ==
  [page |-> 1, rows |-> None, loading |-> FALSE, error |-> FALSE, pending |-> FALSE, active |-> FALSE,
   panel |-> FALSE, force |-> "CHECKING", busy |-> {}, target |-> FALSE, astray |-> FALSE, disorder |-> FALSE]

\* Requests of a kind that lose their place; `foreground` is the second fence.
Behind(s, kind) ==
  [i \in DOMAIN s |->
     IF s[i].kind = kind THEN [s[i] EXCEPT !.current = FALSE, !.older = FALSE] ELSE s[i]]
Outrun(s) == [i \in DOMAIN s |-> [s[i] EXCEPT !.foreground = FALSE]]
Call(kind, p, foreground) ==
  [kind |-> kind, page |-> p, current |-> TRUE, foreground |-> foreground, older |-> FALSE]

\* load: every load is newer than all before it; only those somebody waits for
\* take the spinner over.
Load(s, p, silent) ==
  Append(Behind(IF silent THEN s ELSE Outrun(s), "rows"), Call("rows", p, ~silent))

\* loadSummary: page 1 is on screen already when it is the page in view.
Summary(s, p) == IF p = 1 THEN s ELSE Append(Behind(s, "summary"), Call("summary", 1, FALSE))

\* A load in the foreground holds the pager down and keeps the poll away.
Waiting(r) == [r EXCEPT !.loading = TRUE, !.pending = TRUE, !.error = FALSE]

\* What the panel shows came later than what was asked for before it.
ShowsPanel(s, i) ==
  [j \in DOMAIN s |->
     IF j < i /\ s[j].current /\ s[j].kind \in {"rows", "summary"} THEN [s[j] EXCEPT !.older = TRUE] ELSE s[j]]

MayTurn == ~pager.loading
TurnPage(p) ==
  /\ screen = "history" /\ MayTurn /\ p # pager.page /\ Click
  /\ pager' = Waiting([pager EXCEPT !.page = p])
  /\ polls' = Summary(Load(polls, p, FALSE), p)
  /\ UNCHANGED elsewhere

\* Mutant: the poll refreshes the list whatever the user is waiting for.
PollList(s) == Load(s, pager.page, TRUE)
\* The poll stands aside while a page change waits for its rows.
PollRows(s) == IF pager.pending THEN s ELSE Load(s, pager.page, TRUE)

Poll ==
  /\ screen = "history" /\ pager.active /\ Len(polls) < MaxPolls
  /\ polls' = Summary(PollRows(polls), pager.page)
  /\ pager' = [pager EXCEPT !.error = @ /\ pager.pending]
  /\ UNCHANGED <<clicks, elsewhere>>

\* Only the newest request somebody waits for lets go of the pager.
LetGo(r, c) == IF c.foreground THEN [r EXCEPT !.loading = FALSE, !.pending = FALSE] ELSE r

\* Rows arrive.  A page past the end turns to the first; page 1 also feeds the
\* panel and leaves every earlier answer for it behind.
RowsArrive(i, empty, active) ==
  LET c    == polls[i]
      s    == RemoveAt(polls, i)
      turn == c.current /\ empty /\ c.page > 1
  IN
  /\ c.kind = "rows"
  /\ IF turn
       THEN /\ pager' = IF pager.page = 1 THEN LetGo(pager, c) ELSE Waiting([pager EXCEPT !.page = 1])
            /\ polls' = IF pager.page = 1 THEN s ELSE Load(s, 1, FALSE)
       ELSE /\ pager' = LetGo(
                 IF c.current
                   THEN [pager EXCEPT !.rows = c.page, !.active = active, !.panel = @ \/ c.page = 1,
                                      !.astray = @ /\ c.page # pager.page,
                                      !.disorder = @ \/ (c.page = 1 /\ c.older /\ ~pager.astray)]
                   ELSE pager, c)
            /\ polls' = IF c.current /\ c.page = 1
                          THEN RemoveAt(Behind(ShowsPanel(polls, i), "summary"), i) ELSE s
  /\ UNCHANGED <<clicks, elsewhere>>

\* A page change that fails lets go as well, with the rows of the page before
\* under the new number; the next poll takes the error away before it answers.
RowsFail(i) ==
  LET c == polls[i] IN
  /\ c.kind = "rows"
  /\ pager' = LetGo([pager EXCEPT !.error = @ \/ c.current,
                                  !.astray = @ \/ (c.current /\ pager.rows # pager.page)], c)
  /\ polls' = RemoveAt(polls, i)
  /\ UNCHANGED <<clicks, elsewhere>>

SummaryArrives(i, active) ==
  LET c == polls[i] IN
  /\ c.kind = "summary"
  /\ pager' = IF c.current
                THEN [pager EXCEPT !.panel = TRUE, !.active = active, !.disorder = @ \/ c.older] ELSE pager
  /\ polls' = RemoveAt(IF c.current THEN ShowsPanel(polls, i) ELSE polls, i)
  /\ UNCHANGED <<clicks, elsewhere>>

\* A failed summary leaves the last known one standing.
SummaryFails(i) ==
  /\ polls[i].kind = "summary"
  /\ polls' = RemoveAt(polls, i)
  /\ UNCHANGED <<clicks, pager, elsewhere>>

\* The schedule in force, asked for once a minute and after publishing.
InForce(s) == Append(Behind(s, "current"), Call("current", 1, FALSE))
Minute ==
  /\ screen = "history" /\ Len(polls) < MaxPolls
  /\ {i \in DOMAIN polls : polls[i].kind = "current"} = {}
  /\ pager' = [pager EXCEPT !.force = "CHECKING"]
  /\ polls' = InForce(polls)
  /\ UNCHANGED <<clicks, elsewhere>>
InForceArrives(i, works) ==
  /\ polls[i].kind = "current"
  /\ pager' = IF polls[i].current THEN [pager EXCEPT !.force = IF works THEN "READY" ELSE "ERROR"] ELSE pager
  /\ polls' = RemoveAt(polls, i)
  /\ UNCHANGED <<clicks, elsewhere>>

\* Start, cancel and publish: one of each at a time, each resuming with the
\* page of the render it was clicked in.
MayAct(what) == what \notin pager.busy
Acts(what) ==
  /\ MayAct(what)
  /\ pager' = [pager EXCEPT !.busy = @ \cup {what}]
  /\ polls' = Append(polls, Call(what, pager.page, FALSE))
  /\ UNCHANGED elsewhere
HandleStart == screen = "history" /\ Click /\ Acts("start")
HandleCancel == screen = "history" /\ Click /\ pager.active /\ Acts("cancel")
OpenPublish ==
  /\ screen = "history" /\ Click /\ pager.rows # None /\ ~pager.target
  /\ pager' = [pager EXCEPT !.target = TRUE]
  /\ UNCHANGED <<polls, elsewhere>>
\* Acknowledgements and the reason are given, or the button does nothing.
ConfirmPublish == screen = "history" /\ Click /\ pager.target /\ Acts("publish")

Acted(i, works) ==
  LET c == polls[i]
      s == RemoveAt(polls, i)
      done == [pager EXCEPT !.busy = @ \ {c.kind}, !.target = @ /\ c.kind # "publish"]
      loads == Summary(Load(s, c.page, FALSE), c.page)
  IN
  /\ c.kind \in {"start", "cancel", "publish"}
  /\ IF works
       THEN /\ pager' = [Waiting(done) EXCEPT !.astray = @ \/ c.page # pager.page,
                           !.force = IF c.kind = "publish" THEN "CHECKING" ELSE @]
            /\ polls' = IF c.kind = "publish" THEN InForce(loads) ELSE loads
       ELSE /\ pager' = [pager EXCEPT !.busy = @ \ {c.kind}]
            /\ polls' = s
  /\ UNCHANGED <<clicks, elsewhere>>

-----------------------------------------------------------------------------
(* What must hold.                                                         *)

\* When the pager can be used again, the rows under its number are that page's:
\* no poll or summary that raced the page change has put others there, unless a
\* handler begun on another page has reloaded its own, or the page failed to load.
PageIsShown ==
  screen = "history" =>
    (~pager.loading /\ ~pager.error /\ ~pager.astray /\ pager.rows # None => pager.rows = pager.page)

\* The panel never goes back to an answer asked for before the one it shows
\* (a handler that reloads page 1 from page 2 can make it).
PanelKeepsOrder == screen = "history" => ~pager.disorder

=============================================================================
