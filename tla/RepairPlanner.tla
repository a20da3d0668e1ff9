---------------------------- MODULE RepairPlanner ----------------------------
(* How a plan to repair published assignments is proposed.  The administrator *)
(* names the assignments that break a rule; pinned ones, and several of one   *)
(* visit, are to be withdrawn, and the solver looks for crews for the rest    *)
(* among those whom nothing but the sources themselves keeps busy.  Sources   *)
(* are written as the operations that would leave them as they are.           *)
EXTENDS PublishedRepair, FiniteSetsExt

\* sourceProposal
AsItStands(v, a) == [visit |-> v, id |-> a.id, crew |-> a.crew]

\* What plan() accepts: published assignments, none of them historical, with all
\* of their siblings, each breaking a rule as it stands.
Selectable(sources, acknowledged) ==
  /\ sources # {}
  /\ \A o \in sources :
       /\ TimeScope(o.visit) # "HISTORICAL"
       /\ TimeScope(o.visit) = "CURRENT_DAY" => acknowledged
       /\ \A a \in Published(o.visit) : AsItStands(o.visit, a) \in sources
       /\ RuleConflicts(o, {o}) # {}

\* What is given to the solver.
Targets(sources) ==
  {o \in sources : ~ SourceRow(o).pinned /\ \A p \in sources : p.visit = o.visit => p = o}

-----------------------------------------------------------------------------
(* The request to the solver and its answer.                                 *)

\* Mutant: drafts are no reservations.
ReservedByPublished(sources) ==
  {o \in UNION {{AsItStands(v, a) : a \in Published(v)} : v \in Visit} : o \notin sources}
\* Whoever is on an assignment in force is taken, but for all of the sources, the
\* ones to be withdrawn included.
Reservations(sources) ==
  {o \in UNION {{AsItStands(v, a) : a \in Live(v)} : v \in Visit} : o \notin sources}

\* A visit keeps its day.
MayServe(crew, o, sources) ==
  /\ \A e \in crew : ~ Away(e, DayOf[o.visit])
  /\ \A r \in Reservations(sources) : DayOf[r.visit] = DayOf[o.visit] => r.crew \cap crew = {}

\* The crews an answer of the solver may give to some of the targets.
Staffings(sources) ==
  {f \in UNION {[served -> Crews] : served \in SUBSET Targets(sources)} :
     /\ \A o \in DOMAIN f : MayServe(f[o], o, sources)
     /\ \A o, p \in DOMAIN f : o # p /\ DayOf[o.visit] = DayOf[p.visit] => f[o] \cap f[p] = {}}

\* adapter.solve: as many as can be are served.
Answers(sources) ==
  LET most == Max({Cardinality(DOMAIN f) : f \in Staffings(sources)})
  IN {f \in Staffings(sources) : Cardinality(DOMAIN f) = most}

\* mapSolverOperations and protectedWithdrawal: who gets no crew is withdrawn.
Operations(sources, answer) ==
  {[o EXCEPT !.crew = IF o \in DOMAIN answer THEN answer[o] ELSE {}] : o \in sources}

\* What a withdrawal tells the queue.
WithdrawalCodes(o, sources) ==
  LET disposition ==
        {c \in {"ASSIGNMENT_LOCKED", "MULTIPLE_LIVE_ASSIGNMENTS"} :
           IF c = "ASSIGNMENT_LOCKED" THEN SourceRow(o).pinned
           ELSE \E p \in sources \ {o} : p.visit = o.visit}
  IN IF o \in Targets(sources) THEN {"NO_FEASIBLE_CREW"} ELSE disposition \cup RuleConflicts(o, {o})

\* plan
Plans(sources) == {Operations(sources, answer) : answer \in Answers(sources)}

-----------------------------------------------------------------------------
(* Properties                                                                *)

Board == UNION {{AsItStands(v, a) : a \in Live(v)} : v \in Visit}
Selections == {s \in SUBSET Board : \A o \in s : SourceRow(o).status = "PUBLISHED"}

\* The assignments of a board that break a rule.
Broken(board) ==
  {o \in board : \/ \E e \in o.crew : Away(e, DayOf[o.visit])
                 \/ \E p \in board \ {o} : DayOf[p.visit] = DayOf[o.visit] /\ p.crew \cap o.crew # {}}

\* A plan passes its own review and heals: unless something changes while it is
\* made, what the solver proposes can be applied as it is, although the request
\* to the solver and the review find out by different queries who is busy; whoever
\* is withdrawn is withdrawn for a reason; and on the board that results nothing
\* that was selected is broken any more, and nothing is that was not before.
\* Permanent stations are not in this model: there the two queries differ, as the
\* request carries those of other days too, and such a plan fails its review.
PlansHeal ==
  \A sources \in Selections : Selectable(sources, TRUE) =>
    \A plan \in Plans(sources) :
      /\ Repairable(plan)
      /\ \A item \in Plan(plan) : item.conflicts = {}
      /\ \A o \in plan : Replaces(o) \/ WithdrawalCodes(AsItStands(o.visit, SourceRow(o)), sources) # {}
      /\ Broken((Board \ sources) \cup {o \in plan : Replaces(o)}) \subseteq Broken(Board) \ sources
=============================================================================
