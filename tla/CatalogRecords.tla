--------------------------- MODULE CatalogRecords ---------------------------
(***************************************************************************)
(* The records of one client: its customer rows, sites and agreements, as  *)
(* managers edit them through the API while an operator imports the master *)
(* schedule workbook.  Each request reads, decides and writes in the       *)
(* transactions the services use; the import is one transaction that locks *)
(* what it finds and works through the rows of the workbook.               *)
(***************************************************************************)
EXTENDS MasterTables, Naturals, Sequences, FiniteSets

CONSTANTS
  CustomerId, SiteId, AgreementId,   \* ids rows may get: initial segments of Nat
  SiteName, Branch,
  Edits,          \* the forms a manager may send to update an agreement
  NewAgreements,  \* the forms for a new agreement
  Hours,          \* opening days a manager may set for a site
  Workbooks,      \* the workbooks an operator may import
  Catalogs        \* what may be on record at the start

locks == <<nameLock, agreementLock, siteLock>>

Unsent == [stage |-> "unsent"]
Done(q) == requests' = [requests EXCEPT ![q] = [stage |-> "done"]]
Unused(ids, taken) == {i \in ids \ taken : \A j \in ids \ taken : i <= j}
Importing(q) == requests[q].stage \in {"row", "found"}

\* Ids of rows an open import has inserted.
Written(table) == UNION {DOMAIN requests[q].tx[table] : q \in {r \in Request : Importing(r)}}

-----------------------------------------------------------------------------
(* Rows as the tables may hold them.                                       *)

\* assertDayRules
DayRulesHold(days, prefers) == days # {} /\ prefers \subseteq days

\* A version number stands for one shape, and none is ahead of the row.
VersionsAgree(row) == \A v, w \in row.versions : v[1] \in 1..row.version /\ (v[1] = w[1] => v = w)

SoundCustomer(row) ==
  /\ DOMAIN row = {"active", "marked", "by"}
  /\ {row.active, row.marked} \subseteq BOOLEAN /\ row.by \in {"manager", "import"}
  /\ row.marked => ~row.active
SoundSite(row) ==
  /\ DOMAIN row = {"customer", "name", "active", "marked", "branch", "confirmed", "opens"}
  /\ {row.active, row.marked, row.confirmed} \subseteq BOOLEAN
  /\ row.marked => ~row.active
SoundAgreement(row) ==
  /\ DOMAIN row = {"site", "branch", "status", "marked", "crew", "crewBy", "days", "prefers", "daysBy", "freq",
                   "version", "versions", "booked"}
  /\ row.marked \in BOOLEAN /\ row.version \in Nat
  /\ DayRulesHold(row.days, row.prefers) /\ VersionsAgree(row)
  /\ row.marked => row.status = "ARCHIVED"

\* What earlier requests leave on record.
ASSUME CatalogAssumption ==
  /\ None \notin Request
  /\ \A c \in Catalogs :
       /\ DOMAIN c.customers \subseteq CustomerId /\ DOMAIN c.sites \subseteq SiteId
       /\ DOMAIN c.agreements \subseteq AgreementId
       /\ \A id \in DOMAIN c.customers : SoundCustomer(c.customers[id])
       /\ \A id \in DOMAIN c.sites : SoundSite(c.sites[id])
       /\ \A id \in DOMAIN c.agreements : SoundAgreement(c.agreements[id])
       /\ \A i, j \in DOMAIN c.customers : c.customers[i].by = "import" /\ c.customers[j].by = "import" => i = j

\* What the parser makes of a workbook: each site once (addSite), before the
\* agreements at it, and every agreement with days (isImportable).
ASSUME WorkbookAssumption ==
  \A book \in Workbooks :
    /\ book.serviced \in BOOLEAN
    /\ book.rows \in Seq({book.rows[i] : i \in DOMAIN book.rows})
    /\ \A i \in DOMAIN book.rows :
         LET row == book.rows[i]
         IN  /\ row.kind \in {"site", "agreement"} /\ row.serviced \in BOOLEAN
             /\ row.kind = "agreement" =>
                  row.days # {} /\ \E j \in 1..(i - 1) : book.rows[j].kind = "site" /\ book.rows[j].name = row.name
             /\ \A j \in DOMAIN book.rows :
                  row.kind = "site" /\ book.rows[j].kind = "site" /\ book.rows[j].name = row.name => i = j

CatalogueInit ==
  /\ \E c \in Catalogs :
       customers = c.customers /\ sites = c.sites /\ agreements = c.agreements /\ job = c.job
  /\ requests = [q \in Request |-> Unsent]
  /\ nameLock = None
  /\ agreementLock = [a \in AgreementId |-> None]
  /\ siteLock = [s \in SiteId |-> None]

-----------------------------------------------------------------------------
(* What the services refuse.                                               *)

\* assertSatisfiable: an allowed day on which the site is open; a site without
\* any recorded hours counts as open.
Satisfiable(days, opens) == opens = {} \/ days \cap opens # {}

\* toSnapshot: what a version keeps of an agreement.
Shape(a) == [site |-> a.site, status |-> a.status, crew |-> a.crew, days |-> a.days,
             prefers |-> a.prefers, freq |-> a.freq]

\* writeVersion: the version the row has just been given, with its shape.
Versioned(a) == [a EXCEPT !.versions = @ \cup {<<a.version, Shape(a)>>}]

\* A field the form leaves out keeps the value it has.
Carried(form, field, row) == IF form[field] = None THEN row[field] ELSE form[field]

-----------------------------------------------------------------------------
(* Agreements.                                                             *)

\* create, before its transaction: the site and the job type are active, the
\* rules hold and the agreement can produce a visit.
BeginAgreement(q) ==
  /\ requests[q].stage = "unsent"
  /\ \E form \in NewAgreements :
       /\ form.site \in DOMAIN sites
       /\ IF /\ sites[form.site].active /\ job = "ACTIVE"
             /\ DayRulesHold(form.days, form.prefers) /\ Satisfiable(form.days, sites[form.site].opens)
            THEN requests' = [requests EXCEPT ![q] =
                   [stage |-> "create", form |-> form, branch |-> sites[form.site].branch]]
            ELSE Done(q)
  /\ UNCHANGED <<customers, sites, agreements, job, locks, workforce>>

\* Everything a manager wrote is confirmed. The foreign key waits for an import
\* that holds the site.
CreateAgreement(q) ==
  LET form == requests[q].form
      new == [site |-> form.site, branch |-> requests[q].branch, status |-> "ACTIVE", marked |-> FALSE,
              crew |-> form.crew, crewBy |-> "MANAGER", days |-> form.days, prefers |-> form.prefers,
              daysBy |-> "MANAGER", freq |-> form.freq, version |-> 1, versions |-> {}, booked |-> {}]
  IN  /\ requests[q].stage = "create"
      /\ siteLock[form.site] = None
      /\ \E id \in Unused(AgreementId, DOMAIN agreements \cup Written("agreements")) :
           agreements' = Upserted(agreements, Single(id, Versioned(new)))
      /\ requests' = [requests EXCEPT ![q] = [stage |-> "plan"]]
      /\ UNCHANGED <<customers, sites, job, locks, workforce>>

\* planNewAgreement: the first horizon is planned after the commit (see
\* VisitGeneration), and the agreement stands whatever comes of it.
PlanAgreement(q) ==
  /\ requests[q].stage = "plan"
  /\ Done(q)
  /\ UNCHANGED <<customers, sites, agreements, job, locks, workforce>>

\* The checks of an update, against the opening days it has read.
EditHolds(form, row, opens) ==
  /\ DayRulesHold(Carried(form, "days", row), Carried(form, "prefers", row))
  /\ Satisfiable(Carried(form, "days", row), opens)

\* update, before its transaction.
BeginEdit(q) ==
  /\ requests[q].stage = "unsent"
  /\ \E a \in DOMAIN agreements, form \in Edits :
       LET before == agreements[a]
           site == Carried(form, "site", before)
       IN  /\ site \in DOMAIN sites
           /\ IF /\ before.status # "ARCHIVED" /\ sites[site].active /\ job = "ACTIVE"
                 /\ EditHolds(form, before, sites[site].opens)
                THEN requests' = [requests EXCEPT ![q] =
                       [stage |-> "edit", id |-> a, form |-> form, before |-> before,
                        branch |-> sites[site].branch, opens |-> sites[site].opens]]
                ELSE Done(q)
  /\ UNCHANGED <<customers, sites, agreements, job, locks, workforce>>

\* Mutant: fields the form leaves out are written back as they were read.
EditedFromBefore(r, current) ==
  Versioned([r.before EXCEPT !.site = Carried(r.form, "site", r.before), !.crew = Carried(r.form, "crew", r.before),
                             !.days = Carried(r.form, "days", r.before),
                             !.prefers = Carried(r.form, "prefers", r.before),
                             !.freq = Carried(r.form, "freq", r.before), !.version = current.version + 1,
                             !.versions = current.versions])

\* Only what the form carried changes, and only that becomes confirmed.
Edited(r, current) ==
  LET days == r.form.days # None \/ r.form.prefers # None
  IN  Versioned([current EXCEPT
        !.site = Carried(r.form, "site", current),
        !.branch = IF r.form.site = None THEN @ ELSE r.branch,
        !.crew = Carried(r.form, "crew", current),
        !.crewBy = IF r.form.crew = None THEN @ ELSE "MANAGER",
        !.days = Carried(r.form, "days", current),
        !.prefers = Carried(r.form, "prefers", current),
        !.daysBy = IF days THEN "MANAGER" ELSE @,
        !.freq = Carried(r.form, "freq", current),
        !.version = @ + 1])

\* update, in its transaction: the lock, the row read again, the checks repeated
\* on what is about to be written, the write and its version. The opening days
\* are the ones read before the transaction.
Edit(q) ==
  LET r == requests[q]
  IN  /\ r.stage = "edit"
      /\ agreementLock[r.id] = None
      /\ agreements' = IF agreements[r.id].status # "ARCHIVED" /\ EditHolds(r.form, agreements[r.id], r.opens)
                         THEN [agreements EXCEPT ![r.id] = Edited(r, @)]
                         ELSE agreements
      /\ Done(q)
      /\ UNCHANGED <<customers, sites, job, locks, workforce>>

\* changeStatus, before its transaction.
BeginStatus(q) ==
  /\ requests[q].stage = "unsent"
  /\ \E a \in DOMAIN agreements, status \in {"ACTIVE", "PAUSED", "ARCHIVED"} :
       IF agreements[a].status = "ARCHIVED" /\ status # "ARCHIVED"
         THEN Done(q)
         ELSE requests' = [requests EXCEPT ![q] = [stage |-> "status", id |-> a, status |-> status]]
  /\ UNCHANGED <<customers, sites, agreements, job, locks, workforce>>

MayBecome(row, status) == row.status = "ARCHIVED" => status = "ARCHIVED"
Turned(row, status) == [row EXCEPT !.status = status, !.version = @ + 1]

ChangeStatus(q) ==
  LET r == requests[q]
  IN  /\ r.stage = "status"
      /\ agreementLock[r.id] = None
      /\ agreements' =
           IF MayBecome(agreements[r.id], r.status) /\ agreements[r.id].status # r.status
             THEN [agreements EXCEPT ![r.id] = Versioned(Turned(@, r.status))]
             ELSE agreements
      /\ Done(q)
      /\ UNCHANGED <<customers, sites, job, locks, workforce>>

\* reactivateImported, before its transaction: only what an import archived.
BeginReactivation(q) ==
  /\ requests[q].stage = "unsent"
  /\ \E a \in DOMAIN agreements :
       IF agreements[a].marked
         THEN requests' = [requests EXCEPT ![q] = [stage |-> "reactivate", id |-> a]]
         ELSE Done(q)
  /\ UNCHANGED <<customers, sites, agreements, job, locks, workforce>>

\* The write waits for the row, and does not look at it again.
ReactivateImported(q) ==
  LET a == requests[q].id
  IN  /\ requests[q].stage = "reactivate"
      /\ agreementLock[a] = None
      /\ agreements' = [agreements EXCEPT ![a] = Versioned([Turned(@, "ACTIVE") EXCEPT !.marked = FALSE])]
      /\ Done(q)
      /\ UNCHANGED <<customers, sites, job, locks, workforce>>

-----------------------------------------------------------------------------
(* Customers, sites and the job type.                                      *)

\* A row an open import has written is locked until it commits.
CustomerFree(c) == \A q \in Request : Importing(q) => c \notin DOMAIN requests[q].tx.customers

CreateCustomer(q) ==
  /\ requests[q].stage = "unsent"
  /\ \E id \in Unused(CustomerId, DOMAIN customers \cup Written("customers")) :
       customers' = Upserted(customers, Single(id, [active |-> TRUE, marked |-> FALSE, by |-> "manager"]))
  /\ Done(q)
  /\ UNCHANGED <<sites, agreements, job, locks, workforce>>

\* deactivate leaves the mark of an import, reactivate clears it.
SetCustomer(q) ==
  /\ requests[q].stage = "unsent"
  /\ \E c \in DOMAIN customers, active \in BOOLEAN :
       /\ CustomerFree(c)
       /\ customers' = [customers EXCEPT ![c].active = active, ![c].marked = @ /\ ~active]
  /\ Done(q)
  /\ UNCHANGED <<sites, agreements, job, locks, workforce>>

\* createSite, before its transaction: the customer is active.
BeginSite(q) ==
  /\ requests[q].stage = "unsent"
  /\ \E c \in DOMAIN customers, name \in SiteName, branch \in Branch, opens \in Hours :
       IF customers[c].active
         THEN requests' = [requests EXCEPT ![q] = [stage |-> "site", site |->
                [customer |-> c, name |-> name, active |-> TRUE, marked |-> FALSE,
                 branch |-> branch, confirmed |-> TRUE, opens |-> opens]]]
         ELSE Done(q)
  /\ UNCHANGED <<customers, sites, agreements, job, locks, workforce>>

CreateSite(q) ==
  /\ requests[q].stage = "site"
  /\ \E id \in Unused(SiteId, DOMAIN sites \cup Written("sites")) :
       sites' = Upserted(sites, Single(id, requests[q].site))
  /\ Done(q)
  /\ UNCHANGED <<customers, agreements, job, locks, workforce>>

\* updateSite: opening hours are replaced as a whole, a branch the form carries
\* is confirmed.
SiteEdited(site, branch, opens) ==
  [site EXCEPT !.branch = IF branch = None THEN @ ELSE branch,
               !.confirmed = @ \/ branch # None,
               !.opens = IF opens = None THEN @ ELSE opens]

UpdateSite(q) ==
  /\ requests[q].stage = "unsent"
  /\ \E s \in DOMAIN sites, branch \in Branch \cup {None}, opens \in Hours \cup {None} :
       /\ siteLock[s] = None
       /\ sites' = [sites EXCEPT ![s] = SiteEdited(@, branch, opens)]
  /\ Done(q)
  /\ UNCHANGED <<customers, agreements, job, locks, workforce>>

SetSite(q) ==
  /\ requests[q].stage = "unsent"
  /\ \E s \in DOMAIN sites, active \in BOOLEAN :
       /\ siteLock[s] = None
       /\ sites' = [sites EXCEPT ![s].active = active, ![s].marked = @ /\ ~active]
  /\ Done(q)
  /\ UNCHANGED <<customers, agreements, job, locks, workforce>>

SetJob(q) ==
  /\ requests[q].stage = "unsent" /\ job # None
  /\ job' \in {"ACTIVE", "INACTIVE"}
  /\ Done(q)
  /\ UNCHANGED <<customers, sites, agreements, locks, workforce>>

-----------------------------------------------------------------------------
(* The import of a workbook.                                               *)

Imports == {q \in Request : "book" \in DOMAIN requests[q]}

\* ensureJobTypes: the unlocked read ...
BeginImport(q) ==
  /\ requests[q].stage = "unsent"
  /\ Cardinality(Imports) < MaxImports
  /\ \E book \in Workbooks :
       requests' = [requests EXCEPT ![q] =
         [stage |-> IF job = None THEN "job" ELSE "parsed", book |-> book]]
  /\ UNCHANGED <<customers, sites, agreements, job, locks, workforce>>

\* ... and createOrRaceToExisting: the loser reads the row the winner made.
EnsureJob(q) ==
  /\ requests[q].stage = "job"
  /\ job' = IF job = None THEN "ACTIVE" ELSE job
  /\ requests' = [requests EXCEPT ![q].stage = "parsed"]
  /\ UNCHANGED <<customers, sites, agreements, locks, workforce>>

\* activation: a client or site the workbook has marked red is switched off; one
\* it serves is left as it is.
Activation(row, serviced) ==
  IF serviced THEN row ELSE [row EXCEPT !.active = FALSE, !.marked = TRUE]

SitesOf(c) == {s \in DOMAIN sites : sites[s].customer = c}
AgreementsOf(c) == {a \in DOMAIN agreements : agreements[a].site \in SitesOf(c)}

\* Mutant: the name is not locked before the client is looked up.
NameNotLocked == TRUE

\* lockCustomerImport, held until the transaction ends.
NameFree == nameLock = None

\* The client of the workbook: found by its name, or inserted.
ClientRows(book) ==
  IF DOMAIN customers # {}
    THEN {Single(c, Activation(customers[c], book.serviced)) : c \in {d \in DOMAIN customers : CustomerFree(d)}}
    ELSE {Single(c, [active |-> book.serviced, marked |-> ~book.serviced, by |-> "import"]) :
            c \in Unused(CustomerId, Written("customers"))}

\* The transaction of a client: its name, then the agreements and the sites it
\* has. What is created later is not locked.
BeginClient(q) ==
  /\ requests[q].stage = "parsed"
  /\ NameFree
  /\ \E client \in ClientRows(requests[q].book) :
       LET c == CHOOSE id \in DOMAIN client : TRUE
       IN  /\ \A a \in AgreementsOf(c) : agreementLock[a] = None
           /\ \A s \in SitesOf(c) : siteLock[s] = None
           /\ agreementLock' = [a \in AgreementId |-> IF a \in AgreementsOf(c) THEN q ELSE agreementLock[a]]
           /\ siteLock' = [s \in SiteId |-> IF s \in SitesOf(c) THEN q ELSE siteLock[s]]
           /\ requests' = [requests EXCEPT ![q] = [stage |-> "row", book |-> requests[q].book,
                 rows |-> requests[q].book.rows, ids |-> <<>>, cleared |-> {}, found |-> None,
                 held |-> AgreementsOf(c), existingSites |-> SitesOf(c),
                 tx |-> [client |-> c, customers |-> client, sites |-> <<>>, agreements |-> <<>>]]]
  /\ nameLock' = q
  /\ UNCHANGED <<customers, sites, agreements, job, workforce>>

\* What the transaction sees: its own writes over what is committed.
SeenSites(q) == Upserted(sites, requests[q].tx.sites)
SeenAgreements(q) == Upserted(agreements, requests[q].tx.agreements)

\* The rows of the workbook's next entry that are already there.
Matches(q) ==
  LET row == Head(requests[q].rows)
  IN  IF row.kind = "site"
        THEN {s \in DOMAIN SeenSites(q) : SeenSites(q)[s].customer = requests[q].tx.client
                                          /\ SeenSites(q)[s].name = row.name}
        ELSE {a \in DOMAIN SeenAgreements(q) : SeenAgreements(q)[a].site = requests[q].ids[row.name]}

\* findFirst: any one of them, with what it says of itself.
FindRow(q) ==
  LET row == Head(requests[q].rows)
      seen == IF row.kind = "site" THEN SeenSites(q) ELSE SeenAgreements(q)
  IN  /\ requests[q].stage = "row" /\ requests[q].rows # <<>>
      /\ IF Matches(q) = {}
           THEN requests' = [requests EXCEPT ![q].stage = "found", ![q].found = None]
           ELSE \E id \in Matches(q) :
                  requests' = [requests EXCEPT ![q].stage = "found",
                                               ![q].found = [id |-> id, row |-> seen[id]]]
      /\ UNCHANGED <<customers, sites, agreements, job, locks, workforce>>

NextRow(q, tx, ids, cleared) ==
  requests' = [requests EXCEPT ![q] = [requests[q] EXCEPT !.stage = "row", !.rows = Tail(@), !.tx = tx,
                                                          !.ids = ids, !.cleared = cleared]]

\* preservesManagerBranch
BranchAfter(found, row) == IF found.row.confirmed THEN found.row.branch ELSE row.branch

SiteRefreshed(found, row, site) ==
  [site EXCEPT !.branch = BranchAfter(found, row), !.confirmed = @ /\ found.row.confirmed]

WriteSite(q) ==
  LET r == requests[q]
      row == Head(r.rows)
      put(id, site) ==
        /\ siteLock' = [siteLock EXCEPT ![id] = q]
        /\ NextRow(q, [r.tx EXCEPT !.sites = Upserted(@, Single(id, site))], Upserted(r.ids, Single(row.name, id)),
                   r.cleared)
  IN  /\ r.stage = "found" /\ row.kind = "site"
      /\ IF r.found # None
           THEN /\ siteLock[r.found.id] \in {None, q}
                /\ put(r.found.id, Activation(SiteRefreshed(r.found, row, SeenSites(q)[r.found.id]), row.serviced))
           ELSE \E id \in Unused(SiteId, DOMAIN sites \cup Written("sites")) :
                  put(id, [customer |-> r.tx.client, name |-> row.name, active |-> row.serviced,
                           marked |-> ~row.serviced, branch |-> row.branch, confirmed |-> FALSE, opens |-> {}])
      /\ UNCHANGED <<customers, sites, agreements, job, nameLock, agreementLock, workforce>>

\* Mutant: an agreement the workbook serves again is switched on again.
AgreementActivationSymmetric(found, row, agreement) ==
  IF ~row.serviced THEN [agreement EXCEPT !.status = "ARCHIVED", !.marked = TRUE]
  ELSE [agreement EXCEPT !.status = "ACTIVE"]

\* agreementActivation: red archives and marks; what was marked stays as it is.
AgreementActivation(found, row, agreement) ==
  IF ~row.serviced THEN [agreement EXCEPT !.status = "ARCHIVED", !.marked = TRUE]
  ELSE IF found # None /\ found.row.marked THEN agreement
  ELSE [agreement EXCEPT !.status = "ACTIVE"]

\* Mutant: an agreement's bookings are cleared for every row that names it.
ClearedAgain(q, id) == {}

\* writeSourceBookings clears an agreement's imported bookings once.
Cleared(q, id) == IF id \in requests[q].cleared THEN SeenAgreements(q)[id].booked ELSE {}

\* What the workbook says, without what a manager has confirmed.
Refreshed(q, found, row) ==
  LET now == SeenAgreements(q)[found.id]
  IN  [now EXCEPT !.site = requests[q].ids[row.name],
                  !.branch = SeenSites(q)[requests[q].ids[row.name]].branch,
                  !.crew = IF found.row.crewBy = "MANAGER" THEN @ ELSE row.crew,
                  !.crewBy = IF found.row.crewBy = "MANAGER" THEN @ ELSE "IMPORT",
                  !.days = IF found.row.daysBy = "MANAGER" THEN @ ELSE row.days,
                  !.prefers = IF found.row.daysBy = "MANAGER" THEN @ ELSE {},
                  !.daysBy = IF found.row.daysBy = "MANAGER" THEN @ ELSE "IMPORT",
                  !.freq = row.freq,
                  !.booked = Cleared(q, found.id) \cup row.booked]

Imported(q, row) ==
  [site |-> requests[q].ids[row.name], branch |-> SeenSites(q)[requests[q].ids[row.name]].branch,
   status |-> "ACTIVE", marked |-> FALSE, crew |-> row.crew, crewBy |-> "IMPORT", days |-> row.days,
   prefers |-> {}, daysBy |-> "IMPORT", freq |-> row.freq, version |-> 1, versions |-> {},
   booked |-> row.booked]

WriteAgreement(q) ==
  LET r == requests[q]
      row == Head(r.rows)
      put(id, agreement) ==
        /\ agreementLock' = [agreementLock EXCEPT ![id] = q]
        /\ NextRow(q, [r.tx EXCEPT !.agreements = Upserted(@, Single(id, agreement))], r.ids, r.cleared \cup {id})
  IN  /\ r.stage = "found" /\ row.kind = "agreement"
      /\ IF r.found # None
           THEN /\ agreementLock[r.found.id] \in {None, q}
                /\ put(r.found.id, AgreementActivation(r.found, row, Refreshed(q, r.found, row)))
           ELSE \E id \in Unused(AgreementId, DOMAIN agreements \cup Written("agreements")) :
                  put(id, AgreementActivation(None, row, Imported(q, row)))
      /\ UNCHANGED <<customers, sites, agreements, job, nameLock, siteLock, workforce>>

Release(q) ==
  /\ nameLock' = IF nameLock = q THEN None ELSE nameLock
  /\ agreementLock' = [a \in AgreementId |-> IF agreementLock[a] = q THEN None ELSE agreementLock[a]]
  /\ siteLock' = [s \in SiteId |-> IF siteLock[s] = q THEN None ELSE siteLock[s]]
  /\ requests' = [requests EXCEPT ![q] = [stage |-> "done", book |-> requests[q].book]]

CommitClient(q) ==
  LET tx == requests[q].tx
  IN  /\ requests[q].stage = "row" /\ requests[q].rows = <<>>
      /\ customers' = Upserted(customers, tx.customers)
      /\ sites' = Upserted(sites, tx.sites)
      /\ agreements' = Upserted(agreements, tx.agreements)
      /\ Release(q)
      /\ UNCHANGED <<job, workforce>>

\* A timeout or a lost connection: nothing of the client is written.
FailClient(q) ==
  /\ Importing(q)
  /\ Release(q)
  /\ UNCHANGED <<customers, sites, agreements, job, workforce>>

-----------------------------------------------------------------------------
CatalogueNext ==
  \E q \in Request :
    \/ BeginAgreement(q) \/ CreateAgreement(q) \/ PlanAgreement(q)
    \/ BeginEdit(q) \/ Edit(q) \/ BeginStatus(q) \/ ChangeStatus(q)
    \/ BeginReactivation(q) \/ ReactivateImported(q)
    \/ CreateCustomer(q) \/ SetCustomer(q) \/ BeginSite(q) \/ CreateSite(q)
    \/ UpdateSite(q) \/ SetSite(q) \/ SetJob(q)
    \/ BeginImport(q) \/ EnsureJob(q) \/ BeginClient(q) \/ FindRow(q)
    \/ WriteSite(q) \/ WriteAgreement(q) \/ CommitClient(q) \/ FailClient(q)

-----------------------------------------------------------------------------
(* What must hold.                                                         *)

\* The catalogue never contradicts itself, whatever edits and imports cross: the
\* days an agreement prefers are days it allows although two edits may each
\* carry one half; a version number stands for one shape and none is ahead of
\* its agreement; a mark of an import says what the row says (an agreement that
\* carries it is archived, a site or customer is off); and imports of the same
\* workbook run at once make one client row.
CatalogCoheres ==
  /\ \A a \in DOMAIN agreements :
       LET row == agreements[a]
       IN  /\ DayRulesHold(row.days, row.prefers)
           /\ VersionsAgree(row)
           /\ row.marked => row.status = "ARCHIVED"
  /\ \A s \in DOMAIN sites : sites[s].marked => ~sites[s].active
  /\ \A c \in DOMAIN customers : customers[c].marked => ~customers[c].active
  /\ Cardinality({c \in DOMAIN customers : customers[c].by = "import"}) <= 1

\* An edit that was prepared on an older reading takes nothing back: what its
\* form leaves out stays as an import or another edit has left it, the agreement
\* was not archived meanwhile, and the version it writes adds to the history.
EditKeepsTheRest ==
  [][\A q \in Request : requests[q].stage = "edit" /\ requests'[q].stage = "done" =>
       LET form == requests[q].form
           old == agreements[requests[q].id]
           new == agreements'[requests[q].id]
       IN  new # old =>
             /\ old.status # "ARCHIVED"
             /\ \A field \in {"site", "crew", "days", "prefers", "freq"} :
                  form[field] = None => new[field] = old[field]
             /\ \A field \in {"status", "marked", "booked"} : new[field] = old[field]
             /\ new.versions = old.versions \cup {<<old.version + 1, Shape(new)>>}]_catalogue

\* An import never overrules a person: it switches nothing on, does not bring back
\* an agreement the red rows of an earlier workbook have archived, and leaves a
\* branch, a crew size and day rules a manager has confirmed, although it decides on
\* rows it reads one by one while managers keep working.  Excepted is what was not
\* there to be locked when it began: a site added since then may get back the branch
\* the import read, and an agreement moved to the client the terms of the workbook.
ManagersWordStands ==
  [][\A q \in Request : Importing(q) /\ requests'[q].stage = "done" =>
       /\ \A c \in DOMAIN customers : customers'[c].active => customers[c].active
       /\ \A s \in DOMAIN sites :
            /\ sites'[s].active => sites[s].active
            /\ sites[s].confirmed =>
                 sites'[s].confirmed /\ (s \in requests[q].existingSites => sites'[s].branch = sites[s].branch)
       /\ \A a \in DOMAIN agreements :
            LET old == agreements[a]
                new == agreements'[a]
            IN  /\ old.marked => new.marked /\ new.status = old.status
                /\ a \in requests[q].held =>
                     /\ old.crewBy = "MANAGER" => new.crew = old.crew
                     /\ old.daysBy = "MANAGER" => new.days = old.days /\ new.prefers = old.prefers]_catalogue

\* A committed import leaves every date the workbook names for a site booked with
\* the site's agreements, and on the agreements it wrote no other date, also when
\* several rows of the workbook mean one agreement.
WorkbookIsBooked ==
  [][\A q \in Request : CommitClient(q) =>
       \A name \in DOMAIN requests[q].ids :
         LET of(rows) == {i \in DOMAIN rows : rows[i].kind = "agreement" /\ rows[i].name = name}
             rows == requests[q].book.rows
             named == UNION {rows[i].booked : i \in of(rows)}
             its == {a \in DOMAIN agreements' : agreements'[a].site = requests[q].ids[name]}
         IN  /\ named \subseteq UNION {agreements'[a].booked : a \in its}
             /\ \A a \in its \cap requests[q].cleared : agreements'[a].booked \subseteq named]_catalogue

=============================================================================
