----------------------------- MODULE CrewEditor -----------------------------
(***************************************************************************)
(* The crew editor of a visit (visits/assignment-editor-drawer.tsx).       *)
(*                                                                         *)
(* One drawer serves every visit; opening another one does not start it    *)
(* afresh.  What it shows is the answer of a load; the form is filled from *)
(* that, and every edit of the form is put to the eligibility engine and   *)
(* to the list of who is free.  Three fences keep late answers out.        *)
(***************************************************************************)
EXTENDS Browser

CONSTANTS
  Visit,
  Person,      \* who can be on a crew
  Window       \* from when to when the crew is planned

ASSUME EditorAssumption == None \notin Visit /\ None \notin Person /\ Window # {}

\* What a visit's assignment can be: none, a draft that may be pinned, history.
Assignment ==
  {[crew |-> {}, driver |-> None, status |-> "none", pinned |-> FALSE]}
    \cup {[crew |-> {p}, driver |-> None, status |-> s, pinned |-> b] :
            p \in Person, s \in {"draft", "published"}, b \in BOOLEAN}
Unassigned == CHOOSE a \in Assignment : a.status = "none"

FirstWindow == CHOOSE w \in Window : TRUE

ClosedEditor ==
  [visitId |-> None, shown |-> None, assignment |-> Unassigned,
   form |-> [crew |-> {}, driver |-> None, window |-> FirstWindow],
   formVisit |-> None, reason |-> FALSE, loading |-> FALSE, error |-> FALSE,
   check |-> None, checking |-> FALSE, free |-> None, locking |-> FALSE,
   saving |-> FALSE, removing |-> FALSE, astray |-> FALSE]

away == <<screen, lists, pager, polls, desk, server>>

History(e) == e.assignment.status = "published"
Pinned(e) == e.assignment.pinned
Blocked(e) == History(e) \/ Pinned(e) \/ e.loading \/ e.error \/ e.locking

\* What the drawer lets be done.  The picker offers nobody before the list of
\* who is free has come; a driver is one of the crew.
MayEdit(e) == e.visitId # None /\ ~Blocked(e)
Offered(e, p) == e.free # None /\ p \notin e.form.crew
MayDrive(e, p) == p \in e.form.crew /\ p # e.form.driver
MayRemoveCrew(e) == MayEdit(e) /\ ~e.removing /\ e.assignment.status # "none"
MayLock(e) ==
  /\ e.visitId # None /\ e.assignment.status = "draft"
  /\ ~e.locking /\ ~e.loading /\ ~e.error

-----------------------------------------------------------------------------
(* Effects: what a render with new values runs.                            *)

Late(w, kind) == {IF c.kind = kind THEN [c EXCEPT !.current = FALSE] ELSE c : c \in w}
Asks(w, kind, v, f) == Late(w, kind) \cup {[kind |-> kind, visit |-> v, form |-> f, current |-> TRUE]}

\* load: of the visit of the render it was made in; nothing when none is open.
Loads(e) == [e EXCEPT !.loading = TRUE, !.error = FALSE, !.formVisit = None, !.free = None]
LoadSent(w, kind, v) ==
  Late(Late(Late(w, "load"), "reload"), "free")
    \cup {[kind |-> kind, visit |-> v, form |-> None, current |-> TRUE]}

\* The check of the form, debounced; a form nobody is on is not checked.
Checks(e) ==
  e.visitId # None /\ e.shown # None /\ ~History(e) /\ ~Pinned(e) /\ e.form.crew # {}
CheckSent(w, e) ==
  IF Checks(e) THEN Asks(w, "check", e.visitId, e.form) ELSE Late(w, "check")
Checked(e) == [e EXCEPT !.check = None, !.checking = Checks(e)]

\* Who is free, for the visit and window of a form that has been filled.
AsksFree(e) == e.visitId # None /\ e.shown = e.visitId /\ e.formVisit = e.visitId /\ ~History(e)
FreeSent(w, e) ==
  IF AsksFree(e) THEN Asks(w, "free", e.visitId, [window |-> e.form.window]) ELSE Late(w, "free")

\* A driver who is no longer on the crew is taken off the van.
Driven(f) == [f EXCEPT !.driver = IF @ \in f.crew THEN @ ELSE None]

\* Filled from the assignment, or empty in the visit's own window.
Filled(e, v, a) ==
  [e EXCEPT !.shown = v, !.assignment = a, !.formVisit = v, !.loading = FALSE, !.free = None,
            !.form = Driven([crew |-> a.crew, driver |-> a.driver, window |-> FirstWindow]),
            !.astray = @ /\ v # e.visitId]

-----------------------------------------------------------------------------
(* Opening, closing, loading.                                              *)

\* The reason belongs to the change being composed and goes when another visit
\* opens; the form goes when its load is answered.
OpenVisit(v) ==
  /\ screen = "editor" /\ Click /\ v # editor.visitId
  /\ LET e == Loads([editor EXCEPT !.visitId = v, !.reason = FALSE])
     IN  editor' = Checked(e) /\ wire' = CheckSent(LoadSent(wire, "load", v), e)
  /\ UNCHANGED away

\* Closing keeps what is shown, and keeps what is on its way.
CloseDrawer ==
  /\ screen = "editor" /\ Click /\ editor.visitId # None
  /\ LET e == [editor EXCEPT !.visitId = None, !.reason = FALSE, !.free = None]
     IN  editor' = Checked(e) /\ wire' = Late(CheckSent(wire, e), "free")
  /\ UNCHANGED away

\* Mutant: a slow response for a previous visit repopulates the drawer.
AnyAnswer(c) == TRUE
Newest(c) == c.current

\* Mutant: an answer that came too late leaves the buttons of the lock held.
LetsGoIfNewest(e, c) == [e EXCEPT !.locking = @ /\ ~(c.kind = "reload" /\ c.current)]
\* A lock waits for the reload it started before it lets go of its buttons.
LetsGo(e, c) == [e EXCEPT !.locking = @ /\ c.kind # "reload"]

\* The answer fills the drawer.
Loaded(c, a) ==
  /\ screen = "editor" /\ c.kind \in {"load", "reload"}
  /\ LET w == wire \ {c}
         f == LetsGo(editor, c)
         e == Filled(f, c.visit, a)
     IN  IF Newest(c)
           THEN /\ editor' = Checked(e)
                /\ wire' = FreeSent(CheckSent(w, e), e)
           ELSE editor' = f /\ wire' = w
  /\ UNCHANGED <<clicks, away>>

LoadFails(c) ==
  /\ screen = "editor" /\ c.kind \in {"load", "reload"}
  /\ wire' = wire \ {c}
  /\ editor' = [LetsGo(editor, c) EXCEPT !.loading = @ /\ ~c.current, !.error = @ \/ c.current]
  /\ UNCHANGED <<clicks, away>>

CheckArrives(c, eligible) ==
  /\ screen = "editor" /\ c.kind = "check"
  /\ wire' = wire \ {c}
  /\ editor' = IF c.current
                 THEN [editor EXCEPT !.checking = FALSE,
                         !.check = [visit |-> c.visit, form |-> c.form, eligible |-> eligible]]
                 ELSE editor
  /\ UNCHANGED <<clicks, away>>

FreeArrives(c) ==
  /\ screen = "editor" /\ c.kind = "free"
  /\ wire' = wire \ {c}
  /\ editor' = IF c.current THEN [editor EXCEPT !.free = [visit |-> c.visit, form |-> c.form]] ELSE editor
  /\ UNCHANGED <<clicks, away>>

\* A check or a list that fails leaves nothing to go by.
AdviceFails(c) ==
  /\ screen = "editor" /\ c.kind \in {"check", "free"}
  /\ wire' = wire \ {c}
  /\ editor' = IF c.current /\ c.kind = "check" THEN [editor EXCEPT !.checking = FALSE] ELSE editor
  /\ UNCHANGED <<clicks, away>>

-----------------------------------------------------------------------------
(* The form.                                                               *)

Edited(f) ==
  /\ screen = "editor" /\ Click /\ MayEdit(editor)
  /\ LET e == [editor EXCEPT !.form = Driven(f)] IN
       IF f.window # editor.form.window
         THEN editor' = [Checked(e) EXCEPT !.free = None] /\ wire' = FreeSent(CheckSent(wire, e), e)
         ELSE editor' = Checked(e) /\ wire' = CheckSent(wire, e)
  /\ UNCHANGED away

SetWindow(w) == w # editor.form.window /\ Edited([editor.form EXCEPT !.window = w])
AddMember(p) == Offered(editor, p) /\ Edited([editor.form EXCEPT !.crew = @ \cup {p}])
RemoveMember(p) == p \in editor.form.crew /\ Edited([editor.form EXCEPT !.crew = @ \ {p}])
ChooseDriver(p) == MayDrive(editor, p) /\ Edited([editor.form EXCEPT !.driver = p])
TypeReason ==
  /\ screen = "editor" /\ Click /\ MayEdit(editor) /\ ~editor.reason
  /\ editor' = [editor EXCEPT !.reason = TRUE]
  /\ UNCHANGED <<wire, away>>

-----------------------------------------------------------------------------
(* What the drawer sends.                                                  *)

\* saveBlockedReason: nothing is missing.
Savable(e) ==
  /\ MayEdit(e) /\ ~e.saving
  /\ e.form.crew # {} /\ ~e.checking
  /\ e.check # None /\ e.check.eligible
  /\ e.reason

Save ==
  /\ screen = "editor" /\ Click /\ Savable(editor)
  /\ editor' = [editor EXCEPT !.saving = TRUE]
  /\ wire' = Asks(wire, "save", editor.visitId, editor.form)
  /\ UNCHANGED away

RemoveCrew ==
  /\ screen = "editor" /\ Click /\ MayRemoveCrew(editor)
  /\ editor' = [editor EXCEPT !.removing = TRUE]
  /\ wire' = Asks(wire, "remove", editor.visitId, None)
  /\ UNCHANGED away

\* Saved or removed: the handler resumes with the load of the visit it was
\* called for, which is the newest load from then on.
Reloads(e, w, c) ==
  /\ editor' = [Loads(e) EXCEPT !.astray = @ \/ c.visit # e.visitId]
  /\ wire' = LoadSent(w \ {c}, "load", c.visit)
Saved(c) ==
  /\ screen = "editor" /\ c.kind = "save"
  /\ Reloads([editor EXCEPT !.saving = FALSE, !.reason = FALSE], wire, c)
  /\ UNCHANGED <<clicks, away>>
Removed(c) ==
  /\ screen = "editor" /\ c.kind = "remove"
  /\ Reloads([editor EXCEPT !.removing = FALSE], wire, c)
  /\ UNCHANGED <<clicks, away>>

\* A refusal leaves the form, and the words already typed, in place.
Refused(c) ==
  /\ screen = "editor" /\ c.kind \in {"save", "remove", "lock"}
  /\ wire' = wire \ {c}
  /\ editor' = [editor EXCEPT !.saving = @ /\ c.kind # "save", !.removing = @ /\ c.kind # "remove",
                              !.locking = @ /\ c.kind # "lock"]
  /\ UNCHANGED <<clicks, away>>

\* Pinning or releasing a part of the assignment on show.
ToggleLock ==
  /\ screen = "editor" /\ Click /\ MayLock(editor)
  /\ editor' = [editor EXCEPT !.locking = TRUE]
  /\ wire' = Asks(wire, "lock", editor.visitId, None)
  /\ UNCHANGED away

\* This handler looks whether its visit is still the one that is open.
Toggled(c) ==
  /\ screen = "editor" /\ c.kind = "lock"
  /\ IF editor.visitId = c.visit
       THEN /\ editor' = Loads(editor)
            /\ wire' = LoadSent(wire \ {c}, "reload", c.visit)
       ELSE editor' = [editor EXCEPT !.locking = FALSE] /\ wire' = wire \ {c}
  /\ UNCHANGED <<clicks, away>>

-----------------------------------------------------------------------------
(* What must hold.                                                         *)

\* Once a visit has been loaded the drawer shows that visit and its form was
\* filled from it, whichever loads of other visits answer late, unless a save
\* or a removal begun on another visit has reloaded that one.
EditorShowsItsVisit ==
  screen = "editor" /\ editor.visitId # None =>
    (~editor.loading /\ ~editor.error /\ ~editor.astray =>
       editor.shown = editor.visitId /\ editor.formVisit = editor.visitId)

\* What can be saved is what the engine has accepted: the very visit, crew,
\* driver and window, not those of an answer that came late.
SavesWhatWasChecked ==
  screen = "editor" /\ Savable(editor) =>
    editor.check.visit = editor.visitId /\ editor.check.form = editor.form

\* Who is offered is free in the window of the form, on the visit that is open.
OffersWhoIsFree ==
  screen = "editor" /\ editor.free # None =>
    editor.free.visit = editor.visitId /\ editor.free.form.window = editor.form.window

=============================================================================
