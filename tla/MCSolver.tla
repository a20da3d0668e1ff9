------------------------------ MODULE MCSolver ------------------------------
(* The databases a solve of two days may find: three visits of two agreements *)
(* at two sites, three people and a van, and what managers did before.        *)
EXTENDS PlanForecast, TLC

Hours(w) == [d \in 0 .. 1 |-> {w}]
Morning == [opens |-> 540, closes |-> 660]
Evening == [opens |-> 1350, closes |-> 1440]
Early == [opens |-> 0, closes |-> 90]

Agreed(site) ==
  [site |-> site, branch |-> "B", skills |-> {}, serviced |-> TRUE, allowed |-> {0, 1},
   preferred |-> {}, opens |-> 0, closes |-> 1440, periodOf |-> [d \in 0 .. 1 |-> 0]]

None ==
  [start |-> 0, end |-> 0, crew |-> {}, leads |-> {}, graded |-> {}, vehicles |-> {}, pins |-> {}]
Open(agreement, date) ==
  [agreement |-> agreement, date |-> date, opens |-> 540, closes |-> 660, minutes |-> 90,
   crew |-> 1, status |-> "OPEN", booked |-> FALSE, held |-> FALSE, standing |-> "none",
   booking |-> None]

\* A draft of one lead, or a lead and a second person, at ten past the day's start.
Draft(visit, standing, crew, leads, vehicles, pins) ==
  [visit EXCEPT !.standing = standing,
     !.booking = [start |-> visit.date * 1440 + 570, end |-> visit.date * 1440 + 660,
                  crew |-> crew, leads |-> leads, graded |-> crew, vehicles |-> vehicles,
                  pins |-> pins]]

Person(pms, drives, transit) ==
  [active |-> TRUE, branch |-> "B", pms |-> pms, stationed |-> FALSE, stations |-> {},
   skills |-> {}, drives |-> drives, transit |-> transit, away |-> {}]

Base ==
  [agreements |-> <<Agreed("a"), Agreed("b")>>,
   visits |-> <<Open(1, 0), Open(2, 0), Open(2, 1)>>,
   hours |-> [a |-> Hours(Morning), b |-> Hours(Morning)],
   staff |-> [e1 |-> Person(TRUE, {"k"}, TRUE), e2 |-> Person(TRUE, {}, FALSE),
              e3 |-> Person(FALSE, {"k"}, TRUE)],
   fleet |-> [k |-> [active |-> TRUE, branch |-> Unknown, seats |-> 2]],
   elsewhere |-> {}]

\* Leave, stations for good, of one day, and over, a crew of two, skills, a closed day, hours that come
\* close to midnight, preferred days, a single day, a branch without grade, a
\* lead who has lost it.
Away(s, e, days) == [s EXCEPT !.staff[e].away = days]
Stationed(s, e, stations) == [s EXCEPT !.staff[e].stationed = TRUE, !.staff[e].stations = stations]
Station(site, days) == [site |-> site, days |-> days]
Ordinary ==
  {Base, [Base EXCEPT !.staff.e1.pms = FALSE], Away(Base, "e1", {0}), Away(Away(Base, "e1", {0}), "e2", {0, 1}),
   Stationed(Base, "e1", {Station("a", {0, 1})}), Stationed(Base, "e1", {Station("a", {0}), Station("b", {1})}),
   Away(Stationed(Base, "e1", {Station("a", {1})}), "e2", {0, 1}),
   [Stationed(Stationed(Base, "e2", {Station("b", {})}), "e3", {Station("a", {})}) EXCEPT !.visits[1].crew = 2],
   [Base EXCEPT !.visits[1].crew = 2, !.staff.e2.active = FALSE],
   [Base EXCEPT !.visits[1].crew = 2, !.fleet.k.seats = 1, !.agreements[2].skills = {"x"},
                !.staff.e3.skills = {"x"}],
   [Base EXCEPT !.hours.a = <<>> @@ (0 :> {}) @@ (1 :> {Morning}), !.visits[2].booked = TRUE],
   [Base EXCEPT !.hours = [a |-> (0 :> {Evening}) @@ (1 :> {}), b |-> (0 :> {}) @@ (1 :> {Early})],
                !.visits[1].opens = 1350, !.visits[1].closes = 1440,
                !.staff.e2.active = FALSE],
   [Base EXCEPT !.agreements[1].preferred = {1}, !.staff.e2.pms = FALSE,
                !.agreements[2].periodOf = [d \in 0 .. 1 |-> d]],
   [Away(Away(Base, "e1", {1}), "e2", {1}) EXCEPT !.agreements[1].preferred = {1}, !.staff.e2.transit = TRUE],
   [Base EXCEPT !.agreements[1].allowed = {0}, !.agreements[2].allowed = {0}],
   [Base EXCEPT !.agreements[1].branch = "C", !.staff.e1.transit = FALSE,
                !.fleet.k.active = FALSE],
   [Base EXCEPT !.visits[3].status = "CANCELLED", !.visits[2].held = TRUE,
                !.agreements[1].serviced = FALSE],
   [Base EXCEPT !.elsewhere = {[start |-> 0, end |-> 2880, site |-> "c", crew |-> {"e2"},
                                vehicles |-> {}],
                               [start |-> 500, end |-> 540, site |-> "c", crew |-> {"e1"},
                                vehicles |-> {"k"}]}]}

\* Pins of every kind on the first visit, alone and beside pins on the second.
Scopes == {{"FULL"}, {"TIME"}, {"CREW"}, {"SUPERVISOR"}, {"VEHICLE"}, {"CREW", "TIME"}}
Van == {[id |-> "k", driver |-> "e1"]}
PinnedFirst ==
  {[s EXCEPT !.visits[1] = Draft(@, "draft", {"e1"}, {"e1"}, Van, pins)] :
     s \in Ordinary, pins \in Scopes}
PinnedBoth ==
  {[s EXCEPT !.visits[2] = Draft(@, "draft", {"e1"}, {}, {}, pins),
             !.visits[2].held = (pins = {"SUPERVISOR"})] :
     s \in PinnedFirst, pins \in {{"CREW"}, {"SUPERVISOR"}}}
Published ==
  {[s EXCEPT !.visits[3] = Draft(@, "published", {"e1"}, {"e1"}, Van, {})] :
     s \in {Base, Away(Base, "e1", {0})} \cup PinnedFirst}

\* Days without work, for the forecast: who drives which of two vans, who walks,
\* and how many seats there are.
Garages ==
  {[Base EXCEPT !.visits = [v \in 1 .. 3 |-> [@[v] EXCEPT !.status = "CANCELLED"]],
     !.staff = [e \in DOMAIN @ |-> Person(e = "e1", drives[e], e \in walkers)],
     !.fleet = [k |-> [active |-> TRUE, branch |-> "B", seats |-> seats[1]],
                l |-> [active |-> TRUE, branch |-> "B", seats |-> seats[2]]]] :
     drives \in [{"e1", "e2", "e3"} -> SUBSET {"k", "l"}],
     walkers \in {{}, {"e1"}, {"e1", "e2"}}, seats \in {<<1, 3>>, <<2, NoLimit>>}}

\* The van belongs to the branch, and work is tight; or one person does two jobs
\* of a day, one after the other.
Rooted ==
  {[s EXCEPT !.fleet.k.branch = "B", !.visits[1].crew = c, !.visits[2].minutes = m] :
     s \in Ordinary, c \in 1 .. 2, m \in {60, 90}}
  \cup {[Away(Base, "e2", {0, 1}) EXCEPT
           !.hours = [a |-> Hours([opens |-> 540, closes |-> 780]),
                      b |-> Hours([opens |-> 540, closes |-> 780])],
           !.visits = [v \in 1 .. 3 |-> [@[v] EXCEPT !.closes = 780]]]}

MCSnapshots == Ordinary \cup PinnedFirst \cup PinnedBoth \cup Published \cup Rooted \cup Garages
===============================================================================
