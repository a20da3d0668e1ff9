--------------------------- MODULE PublishDialog ---------------------------
(***************************************************************************)
(* The rows of the run list (schedule-history/page.tsx): the run a link    *)
(* names, which is fetched when the page does not hold it, and the dialog  *)
(* in which a run is published over the doubts its manager has signed.     *)
(*                                                                         *)
(* When the list itself is read is RunHistory's; here it is refreshed at   *)
(* any moment, with any of the runs on the page.                           *)
(***************************************************************************)
EXTENDS Browser

CONSTANTS
  Run

beside == <<screen, pager, polls, editor, desk, server>>

\* Some of its visits have no crew; some rest on source data nobody confirmed.
Gate == {"partial", "provenance"}

ASSUME DialogAssumption ==
  /\ None \notin Run /\ None # "published"
  /\ \A gates \in SUBSET Gate : gates # None
  /\ None \notin [id : Run, status : {"RUNNING", "SUCCEEDED"}, gates : SUBSET Gate, over : {None} \cup SUBSET Gate]

\* What the API has of a run; `over` is what it was published over.
Solving(r) == [id |-> r, status |-> "RUNNING", gates |-> {}, over |-> None]

NewHistory ==
  [rows |-> {}, focus |-> None, linked |-> None, lost |-> FALSE,
   target |-> None, acks |-> {}, reason |-> FALSE, publishing |-> FALSE, signed |-> {}]

-----------------------------------------------------------------------------
(* The run a link names.                                                   *)

OnPage(l) == \E row \in l.rows : row.id = l.focus
IsLinked(l) == l.linked # None /\ l.linked.id = l.focus

\* The effect: it runs when one of these has changed, and asks for the run when
\* there is one to be found.
LinkDeps(l) == <<l.focus, OnPage(l), IF l.linked = None THEN None ELSE l.linked.id>>
Missing(l) == l.focus # None /\ ~OnPage(l) /\ ~IsLinked(l)
Renders(l, w) ==
  IF Missing(l) /\ LinkDeps(l) # LinkDeps(lists)
    THEN /\ lists' = [l EXCEPT !.lost = FALSE]
         /\ wire' = {IF c.kind = "linked" THEN [c EXCEPT !.current = FALSE] ELSE c : c \in w}
                      \cup {[kind |-> "linked", of |-> l.focus, current |-> TRUE]}
    ELSE lists' = l /\ wire' = w

\* The linked run rides at the top while the page does not hold it.
displayRuns(l) == l.rows \cup (IF IsLinked(l) /\ ~OnPage(l) THEN {l.linked} ELSE {})

FollowRunLink(r) ==
  /\ screen = "publish" /\ Click /\ r # lists.focus
  /\ Renders([lists EXCEPT !.focus = r], wire)
  /\ UNCHANGED beside

\* A poll, or another page; a page of one run is enough.
ListRefreshed(r) ==
  /\ screen = "publish"
  /\ Renders([lists EXCEPT !.rows = {server[r]}], wire)
  /\ UNCHANGED <<clicks, beside>>

LinkedArrives(c) ==
  /\ screen = "publish" /\ c.kind = "linked"
  /\ IF c.current THEN Renders([lists EXCEPT !.linked = server[c.of]], wire \ {c})
     ELSE wire' = wire \ {c} /\ UNCHANGED lists
  /\ UNCHANGED <<clicks, beside>>

\* Not found, or not to be seen: nothing is shown for it, and nobody asks again.
LinkedFails(c) ==
  /\ screen = "publish" /\ c.kind = "linked"
  /\ IF c.current THEN Renders([lists EXCEPT !.linked = None, !.lost = TRUE], wire \ {c})
     ELSE wire' = wire \ {c} /\ UNCHANGED lists
  /\ UNCHANGED <<clicks, beside>>

-----------------------------------------------------------------------------
(* The dialog.                                                             *)

canPublishRun(row) == row.status = "SUCCEEDED" /\ row.over = None

Offers(row) == row \in displayRuns(lists) /\ canPublishRun(row)

\* Opening starts it afresh, whatever was ticked for the run before.
OpenDialog(row) ==
  /\ screen = "publish" /\ Click /\ lists.target = None
  /\ Offers(row)
  /\ lists' = [lists EXCEPT !.target = row, !.acks = {}, !.reason = FALSE,
                            !.signed = {s \in @ : s[1] # row.id}]
  /\ UNCHANGED <<wire, beside>>

\* Leaving, like giving the reason below, happens once for each opening.
Dismiss ==
  /\ screen = "publish" /\ lists.target # None
  /\ lists' = [lists EXCEPT !.target = None]
  /\ UNCHANGED <<clicks, wire, beside>>

\* A box is there for every doubt the row had when the dialog opened.
Acknowledge(g) ==
  /\ screen = "publish" /\ Click /\ lists.target # None /\ g \in lists.target.gates
  /\ lists' = [lists EXCEPT !.acks   = SymDiff(@, {g}),
                            !.signed = SymDiff(@, {<<lists.target.id, g>>})]
  /\ UNCHANGED <<wire, beside>>
GiveReason ==
  /\ screen = "publish" /\ lists.target # None /\ ~lists.reason
  /\ lists' = [lists EXCEPT !.reason = TRUE]
  /\ UNCHANGED <<clicks, wire, beside>>

\* Every doubt is ticked, and with one of them there is a reason.
MayPublish(l) ==
  /\ l.target # None /\ ~l.publishing
  /\ l.target.gates \subseteq l.acks /\ (l.target.gates # {} => l.reason)
Publish ==
  /\ screen = "publish" /\ Click /\ MayPublish(lists)
  /\ lists' = [lists EXCEPT !.publishing = TRUE]
  /\ wire' = wire \cup {[kind |-> "publish", of |-> lists.target.id, acks |-> lists.target.gates,
                         signed |-> {g \in Gate : <<lists.target.id, g>> \in lists.signed},
                         answer |-> None]}
  /\ UNCHANGED beside

\* The API weighs the run as it is now.
PublishServed(c) ==
  /\ screen = "publish" /\ c.kind = "publish" /\ c.answer = None
  /\ LET run   == server[c.of]
         works == run.status = "SUCCEEDED" /\ run.over = None /\ run.gates \subseteq c.acks
     IN  /\ server' = IF works THEN [server EXCEPT ![c.of].over = run.gates] ELSE server
         /\ wire' = (wire \ {c}) \cup {[c EXCEPT !.answer = IF works THEN "published" ELSE "refused"]}
  /\ UNCHANGED <<clicks, lists, screen, pager, polls, editor, desk>>

\* Published: whatever dialog is open by now closes.
PublishAnswered(c) ==
  /\ screen = "publish" /\ c.kind = "publish" /\ c.answer # None
  /\ lists' = [lists EXCEPT !.publishing = FALSE,
                            !.target = IF c.answer = "published" THEN None ELSE @]
  /\ wire' = wire \ {c}
  /\ UNCHANGED <<clicks, beside>>
PublishLost(c) ==
  /\ screen = "publish" /\ c.kind = "publish"
  /\ lists' = [lists EXCEPT !.publishing = FALSE]
  /\ wire' = wire \ {c}
  /\ UNCHANGED <<clicks, beside>>

\* Meanwhile a run ends, with every visit crewed or without, and a source its
\* plan rests on comes into doubt.
RunEnds(r, gates) ==
  /\ screen = "publish" /\ server[r].status = "RUNNING"
  /\ server' = [server EXCEPT ![r].status = "SUCCEEDED", ![r].gates = gates]
  /\ UNCHANGED <<clicks, screen, wire, lists, pager, polls, editor, desk>>
SourceDoubted(r) ==
  /\ screen = "publish" /\ server[r].status = "SUCCEEDED" /\ server[r].over = None
  /\ server' = [server EXCEPT ![r].gates = @ \cup {"provenance"}]
  /\ UNCHANGED <<clicks, screen, wire, lists, pager, polls, editor, desk>>

-----------------------------------------------------------------------------
(* What must hold.                                                         *)

\* No run is published over a doubt its manager has not ticked, in the dialog
\* as opened for that run: not by a tick given to another run, and not over a
\* doubt that arose after the dialog opened (confirmPublish and publish).
PublishesWhatWasSigned ==
  screen = "publish" =>
    \A c \in wire : c.kind = "publish" =>
      /\ c.acks \subseteq c.signed
      /\ c.answer = "published" => server[c.of].over \subseteq c.signed

\* The run a link names is on show as soon as it has been read, whichever page
\* the list has been turned to and whatever other run was linked before.
LinkIsShown ==
  screen = "publish" /\ lists.focus # None /\ ~lists.lost
    /\ (\A c \in wire : c.kind = "linked" => ~c.current)
      => \E row \in displayRuns(lists) : row.id = lists.focus

=============================================================================
