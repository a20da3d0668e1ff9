----------------------------- MODULE ReadModels -----------------------------
(* What managers and crews are shown of the same visits and assignments: the  *)
(* day of the dispatch board with the history of its visits, as the API tells *)
(* it and as the portal reads it, the calendar, the list of visits, the visit *)
(* itself, the queue of unstaffed work and an employee's own list.            *)
(* Each picks among the assignments of a visit by rules of its own.  Rows are *)
(* numbered in the order they came into force, which is the order of their    *)
(* publishedAt and updatedAt; a nullable answer is a set of at most one row.  *)
EXTENDS RepairPlanner, SequencesExt

CONSTANT MaxLineage   \* MAX_PUBLISHED_ASSIGNMENT_LINEAGE_ENTRIES
ASSUME LineageAssumption == MaxLineage \in Nat \ {0}

WithStatus(versions, status) == {a \in versions : a.status = status}
Newest(versions) == {a \in versions : \A b \in versions : b.id <= a.id}

-----------------------------------------------------------------------------
(* The history of a visit, as the dispatch board tells it.                   *)

\* Draft and proposed rows are never published history.
PublishedVersions(versions) == {a \in versions : a.status # "DRAFT"}
ByDate(versions) ==
  [i \in 1 .. Cardinality(versions) |->
     CHOOSE a \in versions : Cardinality({b \in versions : b.id < a.id}) = i - 1]

\* successorByPredecessor: of two that claim one predecessor the earlier is
\* believed.
Heir(versions, a) ==
  LET heirs == {b \in versions : b.supersedes = a.id}
  IN {b \in heirs : \A c \in heirs : b.id <= c.id}

\* appendChain: a version and those that replaced it, as far as nobody has told
\* of them; it has no more turns than there are versions.
AppendChain(versions, told, a) ==
  FoldLeft(LAMBDA acc, i :
             IF acc.next \subseteq Range(acc.told) THEN acc
             ELSE LET b == CHOOSE b \in acc.next : TRUE
                  IN [told |-> Append(acc.told, b), next |-> Heir(versions, b)],
           [told |-> told, next |-> {a}], ByDate(versions)).told

\* Chains in the order they began; then whatever is left, reachable only from
\* within a cycle.
Begins(versions, a) == ~ \E b \in versions : b.id = a.supersedes
Lineage(versions) ==
  LET chains == FoldLeft(LAMBDA told, a : IF Begins(versions, a) THEN AppendChain(versions, told, a) ELSE told,
                         <<>>, ByDate(versions))
  IN FoldLeft(LAMBDA told, a : AppendChain(versions, told, a), chains, ByDate(versions))

\* publishedAssignmentLineage: the oldest versions are left out of a long story.
History(versions, current) ==
  LET story == Lineage(versions)
      omitted == Max({0, Len(story) - MaxLineage})
      entries == SubSeq(story, omitted + 1, Len(story))
  IN [entries |-> entries, omitted |-> omitted,
      current |-> {a.id : a \in current} \cap {a.id : a \in Range(entries)},
      withdrawn |-> story # <<>> /\ current = {}]

-----------------------------------------------------------------------------
(* The dispatch board                                                        *)

\* A published assignment is judged again each time it is shown.
Violations(v, dispatch) ==
  IF dispatch = {} THEN visits[v].reasons
  ELSE UNION {RuleConflicts(AsItStands(v, a), {AsItStands(v, a)}) : a \in dispatch}

OperationState(dispatch, proposed, violations) ==
  CASE "MULTIPLE_LIVE_ASSIGNMENTS" \in violations -> "EXCEPTION"
    [] dispatch # {} -> IF violations = {} THEN "READY" ELSE "EXCEPTION"
    [] OTHER -> IF proposed # {} THEN "PROPOSED" ELSE "UNASSIGNED"

\* toItem.  The day and the histories come from two queries: seen are the rows of
\* the visit in the first, versions those in the second.
DayItem(v, seen, versions) ==
  LET dispatches == WithStatus(seen, "PUBLISHED")
      proposals == WithStatus(seen, "DRAFT")
      several == {c \in {"MULTIPLE_LIVE_ASSIGNMENTS"} :
                    Cardinality(dispatches) > 1 \/ Cardinality(proposals) > 1}
      dispatch == Newest(dispatches)
      violations == Violations(v, dispatch) \cup several
  IN [visit |-> v, status |-> visits[v].status, dispatch |-> dispatch, proposed |-> Newest(proposals),
      violations |-> violations, state |-> OperationState(dispatch, proposals, violations),
      history |-> History(PublishedVersions(versions), dispatch)]

\* day
Day(date) == {DayItem(v, rows[v], rows[v]) : v \in {w \in Visit : DayOf[w] = date}}
Unstaffed(items, status) == {i \in items : i.state = "UNASSIGNED" /\ i.status = status}
Summary(items) ==
  [ready |-> Cardinality({i \in items : i.state = "READY"}),
   proposed |-> Cardinality({i \in items : i.state = "PROPOSED"}),
   awaitingStaffing |-> Cardinality(Unstaffed(items, "PENDING")),
   staffingFailed |-> Cardinality(Unstaffed(items, "UNASSIGNED")),
   exceptions |-> Cardinality({i \in items : i.state = "EXCEPTION"})]

-----------------------------------------------------------------------------
(* The same day in the portal, whose client reads every response with care:  *)
(* what a response lacks, or the client does not know, is left out: fields    *)
(* are those of an item it could not read, unread the assignments.           *)

\* A field, or all that an item is judged by.
Losses == {{"state"}, {"violations"}, {"current"}, {"total"}, {"withdrawn"}, {"state", "violations"}}

\* parseAssignment
ReceivedAssignment(assignment, unread) == {a \in assignment : a.id \notin unread}

\* parsePublishedAssignmentLineage: the counters are made anew of what survived.
ReceivedHistory(history, fields, unread) ==
  LET entries == FoldLeft(LAMBDA read, a : IF a.id \in unread THEN read ELSE Append(read, a),
                          <<>>, history.entries)
      reported == IF "total" \in fields THEN Len(entries) ELSE Len(history.entries) + history.omitted
      current == IF "current" \in fields THEN {} ELSE history.current \cap {a.id : a \in Range(entries)}
  IN [entries |-> entries, omitted |-> Max({reported, Len(entries)}) - Len(entries), current |-> current,
      withdrawn |-> entries # <<>> /\ current = {} /\ history.withdrawn /\ "withdrawn" \notin fields]

\* parseOperationsItem: with a state it does not know nothing is dispatched.
Received(item, fields, unread) ==
  LET state == IF "state" \in fields THEN "UNASSIGNED" ELSE item.state IN
    [item EXCEPT !.state = state,
                 !.dispatch = IF state \in {"READY", "EXCEPTION"} THEN ReceivedAssignment(@, unread) ELSE {},
                 !.proposed = ReceivedAssignment(@, unread),
                 !.violations = IF "violations" \in fields THEN {} ELSE @,
                 !.history = ReceivedHistory(@, fields, unread)]

isDispatchableOperation(item) ==
  item.state = "READY" /\ WithStatus(item.dispatch, "PUBLISHED") # {} /\ item.violations = {}

-----------------------------------------------------------------------------
(* The calendar, the list of visits, a visit and an employee's list          *)

\* selectCalendarAssignment: a draft goes before what is published.
CalendarAssignment(v) ==
  LET drafts == WithStatus(rows[v], "DRAFT")
  IN IF drafts # {} THEN Newest(drafts) ELSE Newest(WithStatus(rows[v], "PUBLISHED"))

CalendarEntry(v) == [visit |-> v, status |-> visits[v].status, assignment |-> CalendarAssignment(v)]
\* list
Calendar(from, to) == {CalendarEntry(v) : v \in {w \in Visit : DayOf[w] \in from .. to}}

\* toVisitDto: the crew is that of the newest assignment in force.
VisitRow(v) ==
  [visit |-> v, status |-> visits[v].status, crew |-> UNION {a.crew : a \in Newest(Live(v))},
   isProtected |-> rows[v] # {} \/ visits[v].status \in {"SCHEDULED", "COMPLETED", "CANCELLED"}]
\* list, of the protected visits only or of all: protection is spelled out anew.
VisitList(from, to, protectedOnly) ==
  {VisitRow(v) : v \in
     {w \in Visit : /\ DayOf[w] \in from .. to
                    /\ protectedOnly => \/ visits[w].status \in {"SCHEDULED", "COMPLETED", "CANCELLED"}
                                        \/ rows[w] # {}}}

\* get: what is in force, or else the last that was.
AssignmentOf(v) == IF Live(v) # {} THEN Newest(Live(v)) ELSE Newest(WithStatus(rows[v], "SUPERSEDED"))

\* employeeAssignments
EmployeeAssignments(e, from, to) ==
  UNION {{AsItStands(v, a) : a \in {b \in Published(v) : e \in b.crew}} : v \in {w \in Visit : DayOf[w] \in from .. to}}

-----------------------------------------------------------------------------
(* The queue                                                                 *)

\* unassignedQueue: no live assignment, whether or not anybody has tried; a
\* request for one visit ignores every filter.
Anything == [state |-> "ANY", code |-> "ANY", from |-> 0, to |-> LastDay, focus |-> {}]
QueueState(v) == IF visits[v].reasons # {} THEN "EXCEPTION" ELSE "UNASSIGNED"
\* Mutant: only those somebody has tried and failed to staff.
QueueOfRefusals(q) ==
  {v \in Visit :
     /\ Live(v) = {} /\ visits[v].status = "UNASSIGNED"
     /\ (v \in q.focus \/ (q.focus = {} /\ DayOf[v] \in q.from .. q.to))
     /\ q.state \in {"ANY", QueueState(v)}
     /\ q.code \in {"ANY"} \cup visits[v].reasons}
Queue(q) ==
  {v \in Visit :
     /\ Live(v) = {}
     /\ \/ v \in q.focus
        \/ /\ q.focus = {} /\ DayOf[v] \in q.from .. q.to
           /\ q.state \in {"ANY", QueueState(v)}
           /\ q.code \in {"ANY"} \cup visits[v].reasons}

\* What choosing a code would leave: the code now chosen does not narrow it.
Facet(q, code) == Cardinality({v \in Queue([q EXCEPT !.code = "ANY"]) : code \in visits[v].reasons})

-----------------------------------------------------------------------------
(* Properties                                                                *)

\* No visit is lost between the screens: what the board of a day shows without a
\* crew is what the calendar and the list show empty and what the queue lists, and
\* the totals of the day are those of the queue; what was published and withdrawn
\* is in the queue with the reason; and what is listed as protected is marked so.
NobodyIsForgotten(items, date) ==
  LET ofDay == [Anything EXCEPT !.from = date, !.to = date]
      queue == Queue(ofDay)
  IN /\ {i.visit : i \in {j \in items : j.state = "UNASSIGNED"}} = queue
     /\ {e.visit : e \in {d \in Calendar(date, date) : d.assignment = {}}} = queue
     /\ {r.visit : r \in {s \in VisitList(date, date, FALSE) : s.crew = {}}} = queue
     /\ VisitList(date, date, TRUE) = {r \in VisitList(date, date, FALSE) : r.isProtected}
     /\ {i.visit : i \in {j \in items : j.history.withdrawn}} \subseteq Queue([ofDay EXCEPT !.state = "EXCEPTION"])
     /\ Summary(items).awaitingStaffing + Summary(items).staffingFailed = Cardinality(queue)
     /\ \A c \in UNION {visits[v].reasons : v \in queue} :
          Facet(ofDay, c) = Cardinality(Queue([ofDay EXCEPT !.code = c]))

\* What is ready for dispatch is what the calendar and the visit show and what
\* its crew, and nobody else, has been told; and what an employee has been told
\* is what the board dispatches, or somebody is warned of it.
CrewsAreDispatched(items, date) ==
  \A e \in Employee :
    LET list == EmployeeAssignments(e, date, date)
        mine(i) == {o \in list : o.visit = i.visit}
        dispatched(i) == {AsItStands(i.visit, a) : a \in i.dispatch}
    IN \A i \in items :
         /\ i.state = "READY" =>
              /\ CalendarAssignment(i.visit) = i.dispatch /\ AssignmentOf(i.visit) = i.dispatch
              /\ VisitRow(i.visit).crew = UNION {a.crew : a \in i.dispatch}
              /\ mine(i) = {o \in dispatched(i) : e \in o.crew}
         /\ mine(i) # {} => i.state = "EXCEPTION" \/ mine(i) = dispatched(i)

\* A version stands right behind the one it replaced, nothing that was published
\* is told twice or dropped but the oldest, and what is dispatched is in the story.
StoryIsWhole(item, versions) ==
  LET told == item.history.entries IN
    /\ Cardinality(Range(told)) = Len(told)
    /\ Len(told) + item.history.omitted = Cardinality(PublishedVersions(versions))
    /\ \A i \in 2 .. Len(told) : told[i].supersedes # 0 => told[i - 1].id = told[i].supersedes
    /\ item.history.current = {a.id : a \in item.dispatch}

\* Whatever field or assignment of a response the portal cannot read, it claims no
\* more than the API told: what it calls dispatchable is ready and dispatched, all that was
\* published is told or counted as left out, and nothing is called withdrawn or
\* current that is not.  A response it can read it takes as it is.
ClaimsNoMore(item, versions) ==
  /\ Received(item, {}, {}) = item /\ (isDispatchableOperation(item) <=> item.state = "READY")
  /\ \A a \in versions :
       LET told == Received(item, {}, {a.id}).history
       IN Len(told.entries) + told.omitted = Cardinality(PublishedVersions(versions))
  /\ \A shown \in {Received(item, fields, {}) : fields \in Losses} \cup {Received(item, {}, {a.id}) : a \in versions} :
         /\ isDispatchableOperation(shown) => item.state = "READY" /\ shown.dispatch = item.dispatch
         /\ shown.history.withdrawn => item.dispatch = {}
         /\ shown.history.current \subseteq {a.id : a \in item.dispatch}

\* All screens tell one story of every visit.
ViewsTellOneStory ==
  \A date \in Range(DayOf) :
    LET items == Day(date) IN
      /\ NobodyIsForgotten(items, date) /\ CrewsAreDispatched(items, date)
      /\ \A i \in items : StoryIsWhole(i, rows[i.visit])

\* The published past is never rewritten, and it is told whole even when a repair
\* lands between the board's two queries: then the assignment dispatched in the
\* first is still a version of the second; and whenever it grows, the portal claims
\* no more of it than it is told.
HistoryIsTold ==
  /\ HistoryIsImmutable
  /\ [][\A v \in Visit : rows'[v] # rows[v] =>
           \A item \in {DayItem(v, rows[v], rows'[v])} :
             /\ StoryIsWhole(item, rows'[v])
             /\ PublishedVersions(rows'[v]) # PublishedVersions(rows[v]) => ClaimsNoMore(item, rows'[v])]_vars
=============================================================================
