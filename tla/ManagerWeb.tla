----------------------------- MODULE ManagerWeb -----------------------------
(***************************************************************************)
(* The manager portal: one screen is open, the user clicks, answers come   *)
(* in any order or not at all.                                             *)
(***************************************************************************)
EXTENDS UnassignedQueue, RunHistory, PublishDialog, RepairDesk

\* Every screen loads when it opens, but for the editor, which opens on a visit.
Mounted(s) ==
  CASE s \in ListPages \ {"dispatch"} -> {[kind |-> "rows", of |-> 1, current |-> TRUE]}
    [] s = "dispatch" -> {[kind |-> k, of |-> 1, current |-> TRUE] : k \in {"rows", "operations"}}
    [] s = "desk" -> {[kind |-> "findings", of |-> 1, answer |-> None]}
    [] OTHER -> {}

Init ==
  /\ screen \in ListPages \cup {"queue", "walk", "history", "publish", "editor", "desk"}
  /\ clicks = 0
  /\ CASE screen = "walk" -> lists = WalkInit
       [] screen = "queue" -> lists \in {QueueOpens(v) : v \in Visit \cup {None}}
       [] screen = "publish" -> lists = NewHistory
       [] screen \in ListPages -> lists = Loading(Idle, 1)
       [] OTHER -> lists = Idle
  /\ wire = IF screen = "queue" THEN {QueueRequest(lists)} ELSE Mounted(screen)
  /\ pager = IF screen = "history" THEN Waiting(Pager) ELSE Pager
  /\ polls = IF screen = "history" THEN InForce(Load(<<>>, 1, FALSE)) ELSE <<>>
  /\ editor = ClosedEditor
  /\ desk = NewDesk
  /\ CASE screen = "desk" -> server = NewServer
       [] screen = "walk" -> server \in SUBSET Customer
       [] screen = "queue" -> server = {}
       [] screen = "publish" -> server = [r \in Run |-> Solving(r)]
       [] OTHER -> server = None

ListsNext ==
  \/ \E q \in Question :
       AgreementsFilter(q) \/ CustomersAsk(q) \/ CalendarMoves(q) \/ VisitsMove(q) \/ DispatchAsk(q)
  \/ AgreementsChange \/ CustomersSubmit \/ VisitsConfirmMove \/ GenerateOpens \/ GenerateCloses
  \/ GenerateConfirms \/ DispatchChange
  \/ \E x \in Customer : CustomerAdded(x) \/ CustomerLeaves(x)

QueueNext ==
  \/ \E q \in Question : QueueAsk(q)
  \/ \E v \in Visit \cup {None} : QueueFollows(v)
  \/ \E v \in Visit : OpenDetail(v)
  \/ QueueAssigns \/ CloseDetail \/ ToggleVisitLock

QueueAnswered ==
  \E c \in wire :
    \/ \E found \in SUBSET Visit : QueueLoaded(c, found)
    \/ \E why \in {"VALIDATION_FAILED", "other"} : QueueFails(c, why)
    \/ QueueAssigned(c) \/ DetailServed(c) \/ DetailArrives(c) \/ DetailFails(c)
    \/ LockServed(c) \/ LockAnswered(c) \/ LockFails(c)

ListsAnswered ==
  \/ \E c \in wire :
       \/ AgreementsLoaded(c) \/ AgreementsChanged(c) \/ CalendarLoaded(c) \/ VisitsLoaded(c)
       \/ VisitsAdjusted(c) \/ GenerateApplied(c) \/ DispatchVisits(c) \/ DispatchCrews(c)
       \/ DispatchChanged(c) \/ CustomersCreated(c) \/ CustomersRefused(c)
       \/ ListFails(c) \/ ChangeRefused(c)
       \/ \E b \in BOOLEAN : CustomersLoaded(c, b) \/ Previewed(c, b) \/ DispatchOperations(c, b)
  \/ WalkPage

HistoryNext ==
  \/ \E p \in Page : TurnPage(p)
  \/ Poll \/ Minute \/ HandleStart \/ HandleCancel \/ OpenPublish \/ ConfirmPublish

PollAnswered(i) ==
  \/ \E e, b \in BOOLEAN : RowsArrive(i, e, b)
  \/ \E b \in BOOLEAN : SummaryArrives(i, b) \/ InForceArrives(i, b) \/ Acted(i, b)
  \/ RowsFail(i) \/ SummaryFails(i)
HistoryAnswered == \E i \in DOMAIN polls : PollAnswered(i)

DialogNext ==
  \/ \E r \in Run : FollowRunLink(r) \/ ListRefreshed(r) \/ SourceDoubted(r)
  \/ \E r \in Run, gates \in SUBSET {"partial"} : RunEnds(r, gates)
  \/ screen = "publish" /\ \E row \in displayRuns(lists) : OpenDialog(row)
  \/ \E g \in Gate : Acknowledge(g)
  \/ GiveReason \/ Dismiss \/ Publish

LinkAnswered == \E c \in wire : LinkedArrives(c) \/ LinkedFails(c)
DialogAnswered == \E c \in wire : PublishServed(c) \/ PublishAnswered(c) \/ PublishLost(c)

EditorNext ==
  \/ \E v \in Visit : OpenVisit(v)
  \/ \E w \in Window : SetWindow(w)
  \/ \E p \in Person : AddMember(p) \/ RemoveMember(p) \/ ChooseDriver(p)
  \/ CloseDrawer \/ TypeReason \/ Save \/ RemoveCrew \/ ToggleLock

EditorAnswered ==
  \E c \in wire :
    \/ \E a \in Assignment : Loaded(c, a)
    \/ \E b \in BOOLEAN : CheckArrives(c, b)
    \/ LoadFails(c) \/ FreeArrives(c) \/ AdviceFails(c) \/ Saved(c) \/ Removed(c) \/ Refused(c) \/ Toggled(c)

DeskNext ==
  \/ \E f \in Finding : ToggleFinding(f) \/ OthersRepair(f)
  \/ \E words \in 1..2 : Confirm(words)
  \/ Refresh \/ LoadMore \/ AcknowledgeToday \/ BuildPlan \/ Apply

DeskAnswered ==
  \E c \in wire :
    \/ Serve(c) \/ ServeApply(c) \/ FindingsArrive(c) \/ FindingsFail(c)
    \/ PlanArrives(c) \/ PlanFails(c) \/ ApplyArrives(c) \/ ApplyFails(c)

Next ==
  \/ ListsNext \/ ListsAnswered \/ QueueNext \/ QueueAnswered \/ HistoryNext \/ HistoryAnswered
  \/ DialogNext \/ LinkAnswered \/ DialogAnswered
  \/ EditorNext \/ EditorAnswered \/ DeskNext \/ DeskAnswered

\* Every request is answered or fails in the end, the oldest poll included,
\* however often the timers fire.  The user owes nothing.
Answers ==
  /\ WF_portal(ListsAnswered) /\ WF_portal(QueueAnswered) /\ WF_portal(DialogAnswered) /\ WF_portal(EditorAnswered) /\ WF_portal(DeskAnswered)
  /\ WF_portal(polls # <<>> /\ PollAnswered(1))

Spec == Init /\ [][Next]_portal /\ Answers

-----------------------------------------------------------------------------
(* Properties.                                                             *)

\* A screen at rest shows the rows its filters, range or page number ask for,
\* whatever was answered late, polled meanwhile or reloaded by a handler; the
\* exception is a handler begun under another question that reloads its own.
ScreensShowWhatIsAsked ==
  /\ screen \in ListPages /\ ~lists.astray =>
       /\ ~lists.loading /\ ~lists.error /\ lists.rows # None => lists.rows = lists.of
       /\ screen = "dispatch" => lists.operations \in {None, lists.of}
  /\ screen \in {"agreements", "calendar"} => ~lists.astray
  /\ QueueAnswersItsQuestion /\ PageIsShown /\ PanelKeepsOrder /\ LinkIsShown

\* What a screen sends is about what it shows: the generation confirmed is the
\* one previewed, the crew saved the one checked on the visit that is open, the
\* repair retried the one reviewed, and the list of customers is whole.
ActsOnWhatIsShown ==
  /\ screen = "visits" /\ MayConfirm => lists.impact = lists.of
  /\ DetailTellsTheLock /\ EditorShowsItsVisit /\ SavesWhatWasChecked /\ OffersWhoIsFree
  /\ PublishesWhatWasSigned /\ StaleMeansNotApplied /\ TodayIsAcknowledged
  /\ screen = "walk" /\ lists.done = "all" /\ lists.gone = {} => lists.got = server

\* When the user stops, every screen comes to rest: no spinner, no button held
\* down and no wait for a check stays for ever, though polls go on.
AtRest ==
  /\ screen \in ListPages => ~lists.loading /\ ~lists.busy /\ ~lists.previewing
  /\ screen = "walk" => lists.done # "no"
  /\ screen = "publish" => ~lists.publishing
  /\ screen = "queue" => ~lists.loading /\ ~lists.busy /\ ~lists.reading /\ ~lists.saving
  /\ ~pager.loading /\ pager.busy = {}
  /\ ~(editor.loading \/ editor.checking \/ editor.locking \/ editor.saving \/ editor.removing)
  /\ screen = "desk" => ~(desk.loading \/ desk.more \/ desk.planning \/ desk.applying)
ScreensComeToRest == <>[]AtRest

=============================================================================
