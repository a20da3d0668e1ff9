-------------------------- MODULE MCVisitGeneration --------------------------
(* The instances of VisitGeneration that TLC checks: two agreements over      *)
(* three days, the first two of them one period.                              *)
EXTENDS VisitGeneration, TLC

CONSTANTS p1, p2, k1

Agreed(minutes) ==
  [allowed |-> Day, preferred |-> {}, booked |-> {}, count |-> 1, minutes |-> minutes]
Later(minutes) == [Agreed(minutes) EXCEPT !.preferred = {2}]
Twice(minutes) == [Agreed(minutes) EXCEPT !.count = 2]
Booked(minutes) == [Agreed(minutes) EXCEPT !.booked = {1}]

MCPeriodOf == <<1, 1, 2>>
MCCap == <<2, 2, 3>>
MCCrews == <<2, 1, 2>>
MCTermsOf == <<{Agreed(1), Later(1), Twice(1)}, {Agreed(2), Booked(2)}>>
MCHoursOf == {Day, {2, 3}}
MCAsks == {[scope |-> Agreement, from |-> 1, to |-> 3], [scope |-> {1}, from |-> 1, to |-> 2],
           [scope |-> Agreement, from |-> 2, to |-> 3]}

\* Nothing yet; both agreements on day 1, from under a looser cap; the
\* second one's visit kept by a manager on a day it would not be given.
Placed(a, days, held) ==
  [d \in Day |-> IF d \in days THEN [held |-> held, moved |-> FALSE, minutes |-> a] ELSE NoVisit]
Start(calendar) ==
  [terms |-> <<Agreed(1), Agreed(2)>>, opens |-> <<Day, Day>>, visits |-> calendar]
MCStarts == {Start(<<Placed(1, {}, FALSE), Placed(2, {}, FALSE)>>),
             Start(<<Placed(1, {1}, FALSE), Placed(2, {1}, FALSE)>>),
             Start(<<Placed(1, {}, FALSE), Placed(2, {2}, TRUE)>>)}

\* A smaller crew agreed for the second agreement, whose visit is kept, on
\* days that carry both agreements at once.
MCRoomyCrews == <<4, 4, 4>>
MCCrewTermsOf == <<{Agreed(1)}, {Agreed(1), Agreed(2)}>>
MCKeptStarts == {Start(<<Placed(1, {}, FALSE), Placed(2, {1}, TRUE)>>),
                 Start(<<Placed(1, {}, FALSE), Placed(2, {1}, FALSE)>>)}
MCSymmetry == Permutations({p1, p2})
=============================================================================
