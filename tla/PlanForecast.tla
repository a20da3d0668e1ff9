----------------------------- MODULE PlanForecast -----------------------------
(* What generation would say of the days a solve has planned: it refuses a    *)
(* day before work is placed on it, by rules of its own (DayForecast), and a  *)
(* day the solver has staffed is a day it must not refuse.                    *)
EXTENDS Solver, DayForecast

\* The visits of the plan as generation weighs them: on their day, in the
\* window they have.
DemandsOn(branch, d) ==
  [v \in {v \in DOMAIN plan : Terms(v).branch = branch /\ DayOf(plan[v].start) = d} |->
     [opens |-> Window(v).opens, closes |-> Window(v).closes, crew |-> db.visits[v].crew,
      minutes |-> db.visits[v].minutes, skills |-> Terms(v).skills]]

\* A day that generation refuses is impossible.  No branch-day of a plan, whose
\* crews the engine accepts, is refused or given no capacity at all, unless it
\* borrows a vehicle of no recorded branch, which no pool counts; and both
\* searches behind the answer, the matching and the flow, find a way exactly when
\* there is one, for any three crews of up to three.
RefusedDaysAreImpossible ==
  \A branch \in {t.branch : t \in {Terms(v) : v \in Visit}}, d \in Day :
    LET w == Workforce(Pool(db.staff, db.fleet, branch), db.staff, db.fleet, d)
        drivers == [k \in DOMAIN w.vans |-> w.vans[k].drivers]
        demands == DemandsOn(branch, d)
    IN /\ stage = "answered" /\ (\A v \in DOMAIN demands, k \in UNION {VansOf(plan[v]) : v \in DOMAIN demands} :
                                    db.fleet[k].branch = branch)
           => /\ Infeasible(demands, w) = {}
              /\ CapacityMinutes(w) = 0 => demands = <<>>
       /\ stage = "asked" =>
           /\ MaxMatching(drivers) = MostStaffed(drivers)
           /\ \A n \in 1 .. 3 : \A crews \in [1 .. n -> 1 .. 3] :
                AllocateTransport(crews, w.vans, w.walkers) <=> Transportable(crews, w.vans, w.walkers)
===============================================================================
