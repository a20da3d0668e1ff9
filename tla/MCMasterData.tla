---------------------------- MODULE MCMasterData ----------------------------
(* Instances of MasterData for TLC.                                        *)
EXTENDS MasterData, TLC

EmptyForm == [site |-> None, crew |-> None, days |-> None, prefers |-> None, freq |-> None]

\* Two edits that are sound one by one and not together, a move to another site
\* with another crew size, and another frequency.
MCEdits == {[EmptyForm EXCEPT !.prefers = {2}], [EmptyForm EXCEPT !.days = {1}],
            [EmptyForm EXCEPT !.site = 2, !.crew = 3], [EmptyForm EXCEPT !.freq = 1]}
MCNewAgreements == {[site |-> 1, crew |-> 2, days |-> {1}, prefers |-> {}, freq |-> 1]}
MCHours == {{}, {2}}

SiteRow(serviced) == [kind |-> "site", name |-> "hall", serviced |-> serviced, branch |-> "Kandy"]
AgreementRow(serviced, dates) ==
  [kind |-> "agreement", name |-> "hall", serviced |-> serviced, crew |-> 1, days |-> {1, 2}, freq |-> 2,
   booked |-> dates]

\* A workbook that names one agreement twice, and one that has marked the client red.
MCWorkbooks ==
  {[serviced |-> TRUE,
    rows |-> <<SiteRow(TRUE), AgreementRow(TRUE, {"may"}), AgreementRow(TRUE, {"june"})>>],
   [serviced |-> FALSE, rows |-> <<SiteRow(FALSE), AgreementRow(FALSE, {"may"})>>]}

Client(active) == [active |-> active, marked |-> ~active, by |-> "manager"]
Hall(active, confirmed) ==
  [customer |-> 1, name |-> "hall", active |-> active, marked |-> ~active, branch |-> "Colombo",
   confirmed |-> confirmed, opens |-> {}]
Contract(status, crewBy) ==
  [site |-> 1, branch |-> "Colombo", status |-> status, marked |-> status = "ARCHIVED", crew |-> 2,
   crewBy |-> crewBy, days |-> {1, 2}, prefers |-> {}, daysBy |-> "IMPORT", freq |-> 2, version |-> 1,
   versions |-> {}, booked |-> {"april"}]

\* Nothing on record; a client an import has made, with a second site; a client an
\* import has marked, whose agreement a manager had edited.
MCCatalogs ==
  {[customers |-> <<>>, sites |-> <<>>, agreements |-> <<>>, job |-> None],
   [customers |-> <<Client(TRUE)>>, sites |-> <<Hall(TRUE, FALSE), [Hall(TRUE, TRUE) EXCEPT !.name = "annex"]>>,
    agreements |-> <<Contract("ACTIVE", "IMPORT")>>, job |-> "ACTIVE"],
   [customers |-> <<Client(FALSE)>>, sites |-> <<Hall(FALSE, TRUE)>>,
    agreements |-> <<Contract("ARCHIVED", "MANAGER")>>, job |-> "ACTIVE"]}

-----------------------------------------------------------------------------
Ann == [name |-> "ann", branch |-> "Colombo"]
Bob == [name |-> "bob", branch |-> "Colombo"]
MCKey == {Ann, Bob}
MCCode == {"253-4289", "253 4289", "lorry"}
MCIdentity == [c \in MCCode |-> IF c = "lorry" THEN "lorry" ELSE "2534289"]
MCStay == {[branch |-> "Kandy", stationed |-> Keep, site |-> Keep],
           [branch |-> Keep, stationed |-> TRUE, site |-> Keep]}
MCLeave == {<<1, 2>>, <<2, 3>>}

Row(key, skills, codes) == [key |-> key, site |-> None, skills |-> skills, codes |-> codes]
MCMatrices ==
  {[codes |-> {"253-4289"}, people |-> <<Row(Ann, {"fumigation"}, {"253-4289"})>>],
   [codes |-> {"253-4289", "lorry"}, people |-> <<Row(Bob, {}, {"lorry"}), Row(Ann, {"fumigation"}, {})>>],
   [codes |-> {"lorry"}, people |-> <<Row(Ann, {}, {"lorry"})>>],
   [codes |-> {"253-4289"}, people |-> <<Row(Bob, {}, {})>>]}

Stationed(key) ==
  [key |-> key, branch |-> "Colombo", stationed |-> TRUE, site |-> "brewery", active |-> TRUE, skills |-> {}]
Vehicle(code) == [code |-> code, active |-> TRUE]

\* One employee and another vehicle; two employees who drive a second spelling of
\* the vehicle of the matrix.
MCRosters ==
  {[employees |-> <<Stationed(Ann)>>, vehicles |-> (11 :> Vehicle("lorry")), grants |-> {}],
   [employees |-> <<Stationed(Ann), Stationed(Bob)>>,
    vehicles |-> (11 :> Vehicle("253 4289") @@ 12 :> Vehicle("253-4289")), grants |-> {<<1, 11>>, <<2, 11>>}]}

-----------------------------------------------------------------------------
Asks(crew, skills) == [crew |-> crew, skills |-> skills]
MCDemands == {Asks(1, {}), Asks(2, {"fumigation"}), Asks(3, {})}

Member(active, skills) == [active |-> active, marked |-> TRUE, skills |-> skills]
Van(active, seats) == [active |-> active, marked |-> TRUE, seats |-> seats]

\* Nothing yet; two teams, of three and of two, whose vehicles one employee may
\* drive; a team that has been taken away; a vehicle the tool has not made.
MCFleets ==
  {[staff |-> <<>>, vans |-> <<>>, drivers |-> {}],
   [staff |-> [e \in ((1..2) \X (1..3)) \ {<<2, 3>>} |-> Member(TRUE, {"fumigation"})],
    vans |-> (1 :> Van(TRUE, 3) @@ 2 :> Van(TRUE, 2)), drivers |-> {<<<<1, 1>>, 1>>, <<<<1, 1>>, 2>>}],
   [staff |-> [e \in {1} \X (1..2) |-> Member(FALSE, {})], vans |-> (1 :> Van(FALSE, 2)), drivers |-> {}],
   [staff |-> <<>>, vans |-> (1 :> [Van(TRUE, 2) EXCEPT !.marked = FALSE]), drivers |-> {}]}

=============================================================================
