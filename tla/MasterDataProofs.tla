-------------------------- MODULE MasterDataProofs --------------------------
(***************************************************************************)
(* Theorems about the master data.  First the catalogue: what every        *)
(* request leaves of it, and what an import may count on while managers    *)
(* keep working beside it.  Then the workforce and the synthetic capacity: *)
(* what people and vehicles the schedule relies on are left, whatever      *)
(* managers, the import of a matrix and the capacity tool do at one time.  *)
(***************************************************************************)
EXTENDS MasterData, FiniteSetTheorems, TLAPS

ImportStage == {"row", "found"}
ImportFields == {"stage", "book", "rows", "ids", "cleared", "found", "held", "existingSites", "tx"}
TxFields == {"client", "customers", "sites", "agreements"}

\* Every row is sound, and imports have made one client at most.
TablesHold ==
  /\ DOMAIN customers \subseteq CustomerId /\ DOMAIN sites \subseteq SiteId
  /\ DOMAIN agreements \subseteq AgreementId
  /\ \A c \in DOMAIN customers : SoundCustomer(customers[c])
  /\ \A s \in DOMAIN sites : SoundSite(sites[s])
  /\ \A a \in DOMAIN agreements : SoundAgreement(agreements[a])
  /\ \A c, d \in DOMAIN customers : customers[c].by = "import" /\ customers[d].by = "import" => c = d

LocksTyped ==
  /\ DOMAIN requests = Request
  /\ DOMAIN agreementLock = AgreementId /\ DOMAIN siteLock = SiteId

\* A request that was prepared is about a row that stays, with a form that holds.
Prepared(q) ==
  LET r == requests[q]
  IN  /\ r.stage \in {"edit", "status", "reactivate"} => r.id \in DOMAIN agreements
      /\ r.stage = "create" => DayRulesHold(r.form.days, r.form.prefers)
      /\ r.stage = "site" => SoundSite(r.site) /\ r.site.confirmed
      /\ r.stage \in {"job", "parsed"} => DOMAIN r = {"stage", "book"} /\ r.book \in Workbooks

\* An open import is the only one, and what its record holds.
ImportTyped(q) ==
  LET r == requests[q]
  IN  /\ nameLock = q
      /\ DOMAIN r = ImportFields /\ DOMAIN r.tx = TxFields /\ r.book \in Workbooks
      /\ \A s \in r.existingSites : s \in DOMAIN sites /\ siteLock[s] = q
      /\ \A a \in r.held : a \in DOMAIN agreements /\ agreementLock[a] = q
      /\ \A s \in DOMAIN sites \ r.existingSites : sites[s].customer = r.tx.client => sites[s].confirmed

\* The client it writes: the one it found, not switched on, or the first ever.
ClientHolds(q) ==
  LET rows == requests[q].tx.customers
  IN  /\ \A c, d \in DOMAIN rows : c = d
      /\ \A c \in DOMAIN rows :
           /\ c \in CustomerId /\ SoundCustomer(rows[c])
           /\ c \in DOMAIN customers =>
                (rows[c].active => customers[c].active) /\ rows[c].by = customers[c].by
           /\ c \notin DOMAIN customers => \A d \in DOMAIN customers : customers[d].by # "import"

\* The sites it writes are locked, and against the rows on record they switch
\* nothing on and keep what was confirmed.
SitesHold(q) ==
  LET r == requests[q]
      rows == r.tx.sites
  IN  \A s \in DOMAIN rows :
        /\ s \in SiteId /\ siteLock[s] = q /\ SoundSite(rows[s])
        /\ s \in DOMAIN sites =>
             /\ rows[s].active => sites[s].active
             /\ sites[s].confirmed =>
                  rows[s].confirmed /\ (s \in r.existingSites => rows[s].branch = sites[s].branch)

\* So are the agreements.
AgreementsHold(q) ==
  LET r == requests[q]
      rows == r.tx.agreements
  IN  \A a \in DOMAIN rows :
        /\ a \in AgreementId /\ agreementLock[a] = q /\ SoundAgreement(rows[a])
        /\ a \in DOMAIN agreements =>
             /\ agreements[a].marked => rows[a].marked /\ rows[a].status = agreements[a].status
             /\ a \in r.held =>
                  /\ agreements[a].crewBy = "MANAGER" =>
                       rows[a].crewBy = "MANAGER" /\ rows[a].crew = agreements[a].crew
                  /\ agreements[a].daysBy = "MANAGER" =>
                       /\ rows[a].daysBy = "MANAGER" /\ rows[a].days = agreements[a].days
                       /\ rows[a].prefers = agreements[a].prefers

\* How many rows of the workbook are done; the dates those name for a site.
Past(q) == Len(requests[q].book.rows) - Len(requests[q].rows)
NamedSoFar(q, name) ==
  UNION {requests[q].book.rows[i].booked : i \in
           {j \in 1..Past(q) : requests[q].book.rows[j].kind = "agreement" /\ requests[q].book.rows[j].name = name}}

RowsLeft(q) ==
  LET r == requests[q]
  IN  /\ r.rows \in Seq({r.book.rows[i] : i \in DOMAIN r.book.rows})
      /\ Len(r.rows) <= Len(r.book.rows)
      /\ \A i \in 1..Len(r.rows) : r.rows[i] = r.book.rows[Past(q) + i]

\* The sites the rows so far have named, each by the id of a site of that name.
NamesHold(q) ==
  LET r == requests[q]
  IN  /\ \A i \in 1..Past(q) : r.book.rows[i].kind = "site" => r.book.rows[i].name \in DOMAIN r.ids
      /\ \A name \in DOMAIN r.ids :
           /\ r.ids[name] \in DOMAIN r.tx.sites /\ r.tx.sites[r.ids[name]].name = name
           /\ \E i \in 1..Past(q) : r.book.rows[i].kind = "site" /\ r.book.rows[i].name = name

\* Each date of the rows so far is booked at its site, and nothing else.
BookingsHold(q) ==
  LET r == requests[q]
  IN  /\ r.cleared = DOMAIN r.tx.agreements
      /\ \A i \in 1..Past(q) :
           r.book.rows[i].kind = "agreement" =>
             \E a \in r.cleared :
               /\ r.tx.agreements[a].site = r.ids[r.book.rows[i].name]
               /\ r.book.rows[i].booked \subseteq r.tx.agreements[a].booked
      /\ \A a \in r.cleared :
           \E name \in DOMAIN r.ids :
             r.tx.agreements[a].site = r.ids[name] /\ r.tx.agreements[a].booked \subseteq NamedSoFar(q, name)

\* What was found for the next row still is what the write will meet, or else a
\* person added it.
FoundHolds(q) ==
  LET r == requests[q]
      row == r.rows[1]
      id == r.found.id
  IN  r.stage = "found" =>
        /\ r.rows # <<>>
        /\ r.found # None /\ row.kind = "site" =>
             /\ id \in DOMAIN SeenSites(q) /\ SeenSites(q)[id].name = row.name
             /\ IF id \in r.existingSites \cup DOMAIN r.tx.sites THEN SeenSites(q)[id] = r.found.row
                ELSE r.found.row.confirmed
        /\ r.found # None /\ row.kind = "agreement" =>
             /\ id \in DOMAIN SeenAgreements(q)
             /\ SeenAgreements(q)[id].marked => r.found.row.marked
             /\ r.found.row.site = r.ids[row.name]
             /\ id \in r.held \cup DOMAIN r.tx.agreements => SeenAgreements(q)[id] = r.found.row

ImportHolds(q) ==
  Importing(q) =>
    /\ ImportTyped(q) /\ ClientHolds(q) /\ SitesHold(q) /\ AgreementsHold(q)
    /\ RowsLeft(q) /\ NamesHold(q) /\ BookingsHold(q) /\ FoundHolds(q)

CatalogInv == TablesHold /\ LocksTyped /\ \A q \in Request : Prepared(q) /\ ImportHolds(q)

---------------------------------------------------------------------------
(* Tables and records of requests.                                         *)

LEMMA SingleRow ==
  ASSUME NEW id, NEW row
  PROVE  DOMAIN Single(id, row) = {id} /\ Single(id, row)[id] = row
  BY DEF Single

\* What the steps of others leave of the rows an open import has locked, read or
\* written.
LeavesClient(q) ==
  /\ \A c \in DOMAIN customers :
       /\ c \in DOMAIN customers' /\ customers'[c].by = customers[c].by
       /\ c \in DOMAIN requests[q].tx.customers => customers'[c] = customers[c]
  /\ \A c \in DOMAIN customers' \ DOMAIN customers :
       c \notin DOMAIN requests[q].tx.customers /\ customers'[c].by = "manager"

LeavesSites(q) ==
  /\ \A s \in DOMAIN sites :
       /\ s \in DOMAIN sites'
       /\ sites'[s].customer = sites[s].customer /\ sites'[s].name = sites[s].name
       /\ sites[s].confirmed => sites'[s].confirmed
       /\ siteLock[s] = q => sites'[s] = sites[s]
  /\ \A s \in DOMAIN sites' \ DOMAIN sites : s \notin DOMAIN requests[q].tx.sites /\ sites'[s].confirmed

LeavesAgreements(q) ==
  /\ \A a \in DOMAIN agreements :
       /\ a \in DOMAIN agreements'
       /\ agreements'[a].marked => agreements[a].marked
       /\ agreementLock[a] = q => agreements'[a] = agreements[a]
  /\ \A a \in DOMAIN agreements' \ DOMAIN agreements : a \notin DOMAIN requests[q].tx.agreements

\* An open import stands whatever others do within these limits.
LEMMA ImportStands ==
  ASSUME CatalogInv, NEW q \in Request, Importing(q), requests'[q] = requests[q], UNCHANGED locks,
         LeavesClient(q), LeavesSites(q), LeavesAgreements(q)
  PROVE  ImportHolds(q)'
<1>0. ImportHolds(q) /\ UNCHANGED <<nameLock, agreementLock, siteLock>>
  BY DEF CatalogInv, locks
<1> DEFINE r == requests[q]
<1>1. ImportTyped(q)'
  BY <1>0 DEF ImportHolds, ImportTyped, LeavesSites, LeavesAgreements
<1>2. ClientHolds(q)'
  BY <1>0 DEF ImportHolds, ClientHolds, LeavesClient
<1>3. SitesHold(q)'
  BY <1>0 DEF ImportHolds, SitesHold, LeavesSites
<1>4. AgreementsHold(q)'
  BY <1>0 DEF ImportHolds, AgreementsHold, LeavesAgreements
<1>5. RowsLeft(q)' /\ NamesHold(q)' /\ BookingsHold(q)'
  <2>1. Past(q)' = Past(q) /\ \A name : NamedSoFar(q, name)' = NamedSoFar(q, name)
    BY DEF Past, NamedSoFar
  <2>2. RowsLeft(q)'
    BY <1>0, <2>1 DEF ImportHolds, RowsLeft
  <2>3. NamesHold(q)'
    BY <1>0, <2>1 DEF ImportHolds, NamesHold
  <2>4. BookingsHold(q)'
    BY <1>0, <2>1 DEF ImportHolds, BookingsHold
  <2> QED
    BY <2>2, <2>3, <2>4
<1>6. FoundHolds(q)'
  <2>1. \A s \in DOMAIN SeenSites(q) :
          /\ s \in DOMAIN SeenSites(q)' /\ SeenSites(q)'[s].name = SeenSites(q)[s].name
          /\ s \in r.existingSites \cup DOMAIN r.tx.sites => SeenSites(q)'[s] = SeenSites(q)[s]
    <3>1. SeenSites(q) = Upserted(sites, r.tx.sites) /\ SeenSites(q)' = Upserted(sites', r.tx.sites)
      BY DEF SeenSites
    <3>2. \A a \in r.existingSites : a \in DOMAIN sites /\ siteLock[a] = q
      BY <1>0 DEF ImportHolds, ImportTyped
    <3> QED
      BY <3>1, <3>2 DEF LeavesSites, Upserted
  <2>2. \A a \in DOMAIN SeenAgreements(q) :
          /\ a \in DOMAIN SeenAgreements(q)'
          /\ SeenAgreements(q)'[a].marked => SeenAgreements(q)[a].marked
          /\ a \in r.held \cup DOMAIN r.tx.agreements => SeenAgreements(q)'[a] = SeenAgreements(q)[a]
    <3>1. SeenAgreements(q) = Upserted(agreements, r.tx.agreements) /\ SeenAgreements(q)' = Upserted(agreements', r.tx.agreements)
      BY DEF SeenAgreements
    <3>2. \A a \in r.held : a \in DOMAIN agreements /\ agreementLock[a] = q
      BY <1>0 DEF ImportHolds, ImportTyped
    <3> QED
      BY <3>1, <3>2 DEF LeavesAgreements, Upserted
  <2> QED
    BY <1>0, <2>1, <2>2 DEF ImportHolds, FoundHolds
<1> QED
  BY <1>1, <1>2, <1>3, <1>4, <1>5, <1>6 DEF ImportHolds

\* A step of a request that is no open import.
LEMMA ManagersStep ==
  ASSUME CatalogInv, NEW p \in Request, ~Importing(p), ~Importing(p)', Prepared(p)',
         DOMAIN requests' = Request, \A o \in Request \ {p} : requests'[o] = requests[o],
         UNCHANGED locks, TablesHold', \A a \in DOMAIN agreements : a \in DOMAIN agreements',
         \A q \in Request : Importing(q) => LeavesClient(q) /\ LeavesSites(q) /\ LeavesAgreements(q)
  PROVE  CatalogInv'
<1>1. LocksTyped'
  BY DEF CatalogInv, LocksTyped, locks
<1>2. ASSUME NEW q \in Request PROVE Prepared(q)'
  BY <1>2 DEF CatalogInv, Prepared
<1>3. ASSUME NEW q \in Request PROVE ImportHolds(q)'
  <2>1. CASE Importing(q)
    <3>1. requests'[q] = requests[q]
      BY <2>1
    <3> QED
      BY <2>1, <3>1, ImportStands
  <2>2. CASE ~Importing(q)
    <3>1. ~Importing(q)'
      BY <2>2 DEF Importing
    <3> QED
      BY <3>1 DEF ImportHolds
  <2> QED
    BY <2>1, <2>2
<1> QED
  BY <1>1, <1>2, <1>3 DEF CatalogInv

LEMMA Undisturbed ==
  ASSUME NEW q \in Request
  PROVE  /\ UNCHANGED customers => LeavesClient(q)
         /\ UNCHANGED sites => LeavesSites(q)
         /\ UNCHANGED agreements => LeavesAgreements(q)
  BY DEF LeavesClient, LeavesSites, LeavesAgreements

\* A request that only takes notes.
LEMMA NotesOnly ==
  ASSUME CatalogInv, NEW p \in Request, ~Importing(p), NEW note, requests' = [requests EXCEPT ![p] = note],
         UNCHANGED <<customers, sites, agreements, locks>>, ~Importing(p)', Prepared(p)'
  PROVE  CatalogInv'
<1>1. DOMAIN requests' = Request /\ \A o \in Request \ {p} : requests'[o] = requests[o]
  BY DEF CatalogInv, LocksTyped
<1>2. TablesHold'
  BY DEF CatalogInv, TablesHold
<1> QED
  BY <1>1, <1>2, ManagersStep, Undisturbed

---------------------------------------------------------------------------
(* What managers do.                                                       *)

\* An agreement given its next version is as sound as the row it was made of.
LEMMA NextVersion ==
  ASSUME NEW row, SoundAgreement(row), NEW new,
         DOMAIN new = DOMAIN row, new.version = row.version + 1, new.versions = row.versions,
         new.marked \in BOOLEAN, DayRulesHold(new.days, new.prefers), new.marked => new.status = "ARCHIVED"
  PROVE  SoundAgreement(Versioned(new))
<1> DEFINE out == Versioned(new)
<1>1. /\ DOMAIN out = DOMAIN new /\ out.versions = row.versions \cup {<<row.version + 1, Shape(new)>>}
      /\ out.version = row.version + 1 /\ out.marked = new.marked /\ out.status = new.status
      /\ out.days = new.days /\ out.prefers = new.prefers
  BY DEF Versioned, SoundAgreement
<1>2. VersionsAgree(out)
  <2> SUFFICES ASSUME NEW v \in out.versions, NEW w \in out.versions
               PROVE  v[1] \in 1..out.version /\ (v[1] = w[1] => v = w)
    BY DEF VersionsAgree
  <2>1. \A x \in row.versions : x[1] \in 1..(row.version + 1) /\ x[1] # row.version + 1
    <3>1. row.version \in Nat /\ \A x \in row.versions : x[1] \in 1..row.version
      BY DEF SoundAgreement, VersionsAgree
    <3> QED
      BY <3>1
  <2> QED
    BY <1>1, <2>1 DEF SoundAgreement, VersionsAgree
<1> QED
  BY <1>1, <1>2 DEF SoundAgreement

\* The requests that read before their transaction only take notes.
LEMMA BeginAgreementStands ==
  ASSUME CatalogInv, NEW p \in Request, BeginAgreement(p)
  PROVE  CatalogInv'
<1>1. PICK form \in NewAgreements :
        IF /\ sites[form.site].active /\ job = "ACTIVE"
           /\ DayRulesHold(form.days, form.prefers) /\ Satisfiable(form.days, sites[form.site].opens)
          THEN requests' = [requests EXCEPT ![p] = [stage |-> "create", form |-> form, branch |-> sites[form.site].branch]]
          ELSE Done(p)
  BY DEF BeginAgreement
<1>2. ~Importing(p) /\ p \in DOMAIN requests /\ UNCHANGED <<customers, sites, agreements, locks>>
  BY DEF BeginAgreement, Importing, CatalogInv, LocksTyped
<1>3. CASE Done(p)
  BY <1>2, <1>3, NotesOnly DEF Done, Importing, Prepared
<1>4. CASE requests' = [requests EXCEPT ![p] = [stage |-> "create", form |-> form, branch |-> sites[form.site].branch]]
           /\ DayRulesHold(form.days, form.prefers)
  BY <1>2, <1>4, NotesOnly DEF Importing, Prepared
<1> QED
  BY <1>1, <1>3, <1>4

LEMMA BeginEditStands ==
  ASSUME CatalogInv, NEW p \in Request, BeginEdit(p)
  PROVE  CatalogInv'
<1>1. ~Importing(p) /\ p \in DOMAIN requests /\ UNCHANGED <<customers, sites, agreements, locks>>
  BY DEF BeginEdit, Importing, CatalogInv, LocksTyped
<1>2. CASE Done(p)
  BY <1>1, <1>2, NotesOnly DEF Done, Importing, Prepared
<1>3. ASSUME NEW a \in DOMAIN agreements, NEW form, NEW branch, NEW opens,
             requests' = [requests EXCEPT ![p] = [stage |-> "edit", id |-> a, form |-> form,
                            before |-> agreements[a], branch |-> branch, opens |-> opens]]
      PROVE  CatalogInv'
  BY <1>1, <1>3, NotesOnly DEF Importing, Prepared
<1> QED
  BY <1>2, <1>3 DEF BeginEdit

LEMMA BeginStatusStands ==
  ASSUME CatalogInv, NEW p \in Request, BeginStatus(p) \/ BeginReactivation(p)
  PROVE  CatalogInv'
<1>1. ~Importing(p) /\ p \in DOMAIN requests /\ UNCHANGED <<customers, sites, agreements, locks>>
  BY DEF BeginStatus, BeginReactivation, Importing, CatalogInv, LocksTyped
<1>2. CASE Done(p)
  BY <1>1, <1>2, NotesOnly DEF Done, Importing, Prepared
<1>3. ASSUME NEW a \in DOMAIN agreements, NEW status,
             requests' = [requests EXCEPT ![p] = [stage |-> "status", id |-> a, status |-> status]]
      PROVE  CatalogInv'
  BY <1>1, <1>3, NotesOnly DEF Importing, Prepared
<1>4. ASSUME NEW a \in DOMAIN agreements, requests' = [requests EXCEPT ![p] = [stage |-> "reactivate", id |-> a]]
      PROVE  CatalogInv'
  BY <1>1, <1>4, NotesOnly DEF Importing, Prepared
<1> QED
  BY <1>2, <1>3, <1>4 DEF BeginStatus, BeginReactivation

LEMMA BeginSiteStands ==
  ASSUME CatalogInv, NEW p \in Request, BeginSite(p)
  PROVE  CatalogInv'
<1>1. ~Importing(p) /\ p \in DOMAIN requests /\ UNCHANGED <<customers, sites, agreements, locks>>
  BY DEF BeginSite, Importing, CatalogInv, LocksTyped
<1>2. CASE Done(p)
  BY <1>1, <1>2, NotesOnly DEF Done, Importing, Prepared
<1>3. ASSUME NEW c, NEW name, NEW branch, NEW opens,
             requests' = [requests EXCEPT ![p] = [stage |-> "site", site |->
               [customer |-> c, name |-> name, active |-> TRUE, marked |-> FALSE,
                branch |-> branch, confirmed |-> TRUE, opens |-> opens]]]
      PROVE  CatalogInv'
  <2>1. Prepared(p)' /\ ~Importing(p)'
    BY <1>1, <1>3 DEF Importing, Prepared, SoundSite
  <2> QED
    BY <1>1, <1>3, <2>1, NotesOnly
<1> QED
  BY <1>2, <1>3 DEF BeginSite

LEMMA PlanAgreementStands ==
  ASSUME CatalogInv, NEW p \in Request, PlanAgreement(p) \/ SetJob(p)
  PROVE  CatalogInv'
<1>1. ~Importing(p) /\ p \in DOMAIN requests /\ UNCHANGED <<customers, sites, agreements, locks>> /\ Done(p)
  BY DEF PlanAgreement, SetJob, Importing, CatalogInv, LocksTyped
<1> QED
  BY <1>1, NotesOnly DEF Done, Importing, Prepared

LEMMA BeginImportStands ==
  ASSUME CatalogInv, NEW p \in Request, BeginImport(p) \/ EnsureJob(p)
  PROVE  CatalogInv'
<1>1. ~Importing(p) /\ p \in DOMAIN requests /\ UNCHANGED <<customers, sites, agreements, locks>>
  BY DEF BeginImport, EnsureJob, Importing, CatalogInv, LocksTyped
<1>2. CASE BeginImport(p)
  <2>1. PICK book \in Workbooks :
          requests' = [requests EXCEPT ![p] = [stage |-> IF job = None THEN "job" ELSE "parsed", book |-> book]]
    BY <1>2 DEF BeginImport
  <2>2. Prepared(p)' /\ ~Importing(p)'
    BY <1>1, <2>1 DEF Importing, Prepared
  <2> QED
    BY <1>1, <2>1, <2>2, NotesOnly
<1>3. CASE EnsureJob(p)
  <2>1. requests[p].stage = "job" /\ DOMAIN requests[p] = {"stage", "book"} /\ requests[p].book \in Workbooks
    BY <1>3 DEF EnsureJob, CatalogInv, Prepared
  <2> DEFINE note == [requests[p] EXCEPT !.stage = "parsed"]
  <2>2. requests' = [requests EXCEPT ![p] = note]
    BY <1>3 DEF EnsureJob
  <2>3. note.stage = "parsed" /\ DOMAIN note = {"stage", "book"} /\ note.book \in Workbooks
    BY <2>1
  <2>4. requests'[p] = note
    BY <1>1, <2>2
  <2> HIDE DEF note
  <2>5. Prepared(p)' /\ ~Importing(p)'
    BY <2>3, <2>4 DEF Importing, Prepared
  <2> QED
    BY <1>1, <2>2, <2>5, NotesOnly
<1> QED
  BY <1>2, <1>3

\* No row of an open import has an id that is still free.
LEMMA WrittenIds ==
  ASSUME NEW q \in Request, Importing(q)
  PROVE  /\ DOMAIN requests[q].tx.customers \subseteq Written("customers")
         /\ DOMAIN requests[q].tx.sites \subseteq Written("sites")
         /\ DOMAIN requests[q].tx.agreements \subseteq Written("agreements")
  BY DEF Written

\* A manager's new agreement, and one rewritten that no import holds.
LEMMA AgreementAdded ==
  ASSUME CatalogInv, NEW p \in Request, ~Importing(p), Done(p) \/ requests' = [requests EXCEPT ![p] = [stage |-> "plan"]],
         UNCHANGED <<customers, sites, locks>>,
         NEW id \in Unused(AgreementId, DOMAIN agreements \cup Written("agreements")),
         NEW row, SoundAgreement(row), agreements' = Upserted(agreements, Single(id, row))
  PROVE  CatalogInv'
<1>1. /\ DOMAIN requests' = Request /\ \A o \in Request \ {p} : requests'[o] = requests[o]
      /\ requests'[p].stage \in {"done", "plan"}
  BY DEF CatalogInv, LocksTyped, Done
<1>2. ~Importing(p)' /\ Prepared(p)'
  BY <1>1 DEF Importing, Prepared
<1>3. id \in AgreementId /\ id \notin DOMAIN agreements /\ id \notin Written("agreements")
  BY DEF Unused
<1>4. /\ DOMAIN agreements' = DOMAIN agreements \cup {id} /\ agreements'[id] = row
      /\ \A a \in DOMAIN agreements : agreements'[a] = agreements[a]
  BY <1>3 DEF Upserted, Single
<1>5. TablesHold'
  BY <1>3, <1>4 DEF CatalogInv, TablesHold
<1>6. ASSUME NEW q \in Request, Importing(q) PROVE LeavesAgreements(q)
  BY <1>3, <1>4, <1>6, WrittenIds DEF LeavesAgreements
<1> QED
  BY <1>1, <1>2, <1>4, <1>5, <1>6, ManagersStep, Undisturbed

LEMMA AgreementRewritten ==
  ASSUME CatalogInv, NEW p \in Request, ~Importing(p), Done(p), UNCHANGED <<customers, sites, locks>>,
         NEW a \in DOMAIN agreements, agreementLock[a] = None,
         NEW row, SoundAgreement(row), row.marked => agreements[a].marked,
         agreements' \in {agreements, [agreements EXCEPT ![a] = row]}
  PROVE  CatalogInv'
<1>1. /\ DOMAIN requests' = Request /\ \A o \in Request \ {p} : requests'[o] = requests[o]
      /\ requests'[p].stage = "done"
  BY DEF CatalogInv, LocksTyped, Done
<1>2. ~Importing(p)' /\ Prepared(p)'
  BY <1>1 DEF Importing, Prepared
<1>3. /\ DOMAIN agreements' = DOMAIN agreements /\ agreements'[a] \in {row, agreements[a]}
      /\ \A b \in DOMAIN agreements \ {a} : agreements'[b] = agreements[b]
  OBVIOUS
<1>4. TablesHold'
  BY <1>3 DEF CatalogInv, TablesHold
<1>5. ASSUME NEW q \in Request, Importing(q) PROVE LeavesAgreements(q)
  BY <1>3, CatalogAssumption DEF LeavesAgreements
<1> QED
  BY <1>1, <1>2, <1>3, <1>4, <1>5, ManagersStep, Undisturbed

LEMMA CreateAgreementStands ==
  ASSUME CatalogInv, NEW p \in Request, CreateAgreement(p)
  PROVE  CatalogInv'
<1> DEFINE form == requests[p].form
           new == [site |-> form.site, branch |-> requests[p].branch, status |-> "ACTIVE", marked |-> FALSE,
                   crew |-> form.crew, crewBy |-> "MANAGER", days |-> form.days, prefers |-> form.prefers,
                   daysBy |-> "MANAGER", freq |-> form.freq, version |-> 1, versions |-> {}, booked |-> {}]
<1>1. /\ requests[p].stage = "create" /\ UNCHANGED <<customers, sites, locks>>
      /\ requests' = [requests EXCEPT ![p] = [stage |-> "plan"]]
  BY DEF CreateAgreement
<1>2. PICK id \in Unused(AgreementId, DOMAIN agreements \cup Written("agreements")) :
        agreements' = Upserted(agreements, Single(id, Versioned(new)))
  BY DEF CreateAgreement
<1>3. ~Importing(p) /\ DayRulesHold(form.days, form.prefers)
  BY <1>1 DEF Importing, CatalogInv, Prepared
<1>4. SoundAgreement(Versioned(new))
  <2> DEFINE out == Versioned(new)
  <2>1. /\ DOMAIN out = DOMAIN new /\ out.versions = {<<1, Shape(new)>>} /\ out.version = 1
        /\ out.marked = FALSE /\ out.days = form.days /\ out.prefers = form.prefers
    BY DEF Versioned
  <2>2. DOMAIN new = {"site", "branch", "status", "marked", "crew", "crewBy", "days", "prefers", "daysBy", "freq",
                      "version", "versions", "booked"}
    OBVIOUS
  <2> HIDE DEF new, out
  <2>3. VersionsAgree(out)
    BY <2>1 DEF VersionsAgree
  <2>4. DOMAIN out = DOMAIN new /\ out.marked = FALSE /\ out.version \in Nat /\ DayRulesHold(out.days, out.prefers)
    BY <1>3, <2>1
  <2>5. SoundAgreement(out)
    BY <2>2, <2>3, <2>4 DEF SoundAgreement
  <2> QED
    BY <2>5 DEF out
<1> QED
  BY <1>1, <1>2, <1>3, <1>4, AgreementAdded

LEMMA EditedIsSound ==
  ASSUME NEW r, NEW row, SoundAgreement(row), EditHolds(r.form, row, r.opens)
  PROVE  SoundAgreement(Edited(r, row)) /\ Edited(r, row).marked = row.marked
<1> DEFINE new == [row EXCEPT
        !.site = Carried(r.form, "site", row),
        !.branch = IF r.form.site = None THEN @ ELSE r.branch,
        !.crew = Carried(r.form, "crew", row),
        !.crewBy = IF r.form.crew = None THEN @ ELSE "MANAGER",
        !.days = Carried(r.form, "days", row),
        !.prefers = Carried(r.form, "prefers", row),
        !.daysBy = IF r.form.days # None \/ r.form.prefers # None THEN "MANAGER" ELSE @,
        !.freq = Carried(r.form, "freq", row),
        !.version = @ + 1]
<1>1. Edited(r, row) = Versioned(new)
  BY DEF Edited
<1>2. /\ DOMAIN new = DOMAIN row /\ new.version = row.version + 1 /\ new.versions = row.versions
      /\ new.marked = row.marked /\ new.status = row.status
      /\ new.days = Carried(r.form, "days", row) /\ new.prefers = Carried(r.form, "prefers", row)
  BY DEF SoundAgreement
<1> HIDE DEF new
<1>3. SoundAgreement(Versioned(new))
  BY <1>2, NextVersion DEF SoundAgreement, EditHolds
<1>4. Versioned(new).marked = new.marked
  BY <1>2 DEF Versioned, SoundAgreement
<1> QED
  BY <1>1, <1>2, <1>3, <1>4

LEMMA EditStands ==
  ASSUME CatalogInv, NEW p \in Request, Edit(p)
  PROVE  CatalogInv'
<1> DEFINE r == requests[p]
           row == IF EditHolds(r.form, agreements[r.id], r.opens) THEN Edited(r, agreements[r.id]) ELSE agreements[r.id]
<1>1. /\ r.stage = "edit" /\ agreementLock[r.id] = None /\ Done(p) /\ UNCHANGED <<customers, sites, locks>>
      /\ agreements' \in {agreements, [agreements EXCEPT ![r.id] = row]}
  BY DEF Edit
<1>2. ~Importing(p) /\ r.id \in DOMAIN agreements /\ SoundAgreement(agreements[r.id])
  BY <1>1 DEF Importing, CatalogInv, Prepared, TablesHold
<1>3. SoundAgreement(row) /\ row.marked = agreements[r.id].marked
  BY <1>2, EditedIsSound
<1> QED
  BY <1>1, <1>2, <1>3, AgreementRewritten

LEMMA ChangeStatusStands ==
  ASSUME CatalogInv, NEW p \in Request, ChangeStatus(p)
  PROVE  CatalogInv'
<1> DEFINE r == requests[p]
           old == agreements[r.id]
           new == Turned(old, r.status)
           row == IF MayBecome(old, r.status) THEN Versioned(new) ELSE old
<1>1. /\ r.stage = "status" /\ agreementLock[r.id] = None /\ Done(p) /\ UNCHANGED <<customers, sites, locks>>
      /\ agreements' \in {agreements, [agreements EXCEPT ![r.id] = row]}
  BY DEF ChangeStatus
<1>2. ~Importing(p) /\ r.id \in DOMAIN agreements /\ SoundAgreement(old)
  BY <1>1 DEF Importing, CatalogInv, Prepared, TablesHold
<1>3. CASE MayBecome(old, r.status)
  <2>1. /\ DOMAIN new = DOMAIN old /\ new.version = old.version + 1 /\ new.versions = old.versions
        /\ new.marked = old.marked /\ new.status = r.status /\ new.days = old.days /\ new.prefers = old.prefers
    BY <1>2 DEF Turned, SoundAgreement
  <2>2. new.marked => new.status = "ARCHIVED"
    BY <1>2, <1>3, <2>1 DEF SoundAgreement, MayBecome
  <2> HIDE DEF new
  <2>3. SoundAgreement(Versioned(new))
    BY <1>2, <2>1, <2>2, NextVersion DEF SoundAgreement
  <2>4. Versioned(new).marked = new.marked
    BY <1>2, <2>1 DEF Versioned, SoundAgreement
  <2> QED
    BY <1>1, <1>2, <1>3, <2>1, <2>3, <2>4, AgreementRewritten
<1>4. CASE ~MayBecome(old, r.status)
  BY <1>1, <1>2, <1>4, AgreementRewritten
<1> QED
  BY <1>3, <1>4

LEMMA ReactivateImportedStands ==
  ASSUME CatalogInv, NEW p \in Request, ReactivateImported(p)
  PROVE  CatalogInv'
<1> DEFINE a == requests[p].id
           old == agreements[a]
           new == [Turned(old, "ACTIVE") EXCEPT !.marked = FALSE]
<1>1. /\ requests[p].stage = "reactivate" /\ agreementLock[a] = None /\ Done(p) /\ UNCHANGED <<customers, sites, locks>>
      /\ agreements' = [agreements EXCEPT ![a] = Versioned(new)]
  BY DEF ReactivateImported
<1>2. ~Importing(p) /\ a \in DOMAIN agreements /\ SoundAgreement(old)
  BY <1>1 DEF Importing, CatalogInv, Prepared, TablesHold
<1>3. /\ DOMAIN new = DOMAIN old /\ new.version = old.version + 1 /\ new.versions = old.versions
      /\ new.marked = FALSE /\ new.days = old.days /\ new.prefers = old.prefers
  BY <1>2 DEF Turned, SoundAgreement
<1> HIDE DEF new
<1>4. SoundAgreement(Versioned(new))
  BY <1>2, <1>3, NextVersion DEF SoundAgreement
<1>5. Versioned(new).marked = FALSE
  BY <1>2, <1>3 DEF Versioned, SoundAgreement
<1> QED
  BY <1>1, <1>2, <1>4, <1>5, AgreementRewritten

\* Customers and sites: a row added, or rewritten where no import is at work.
LEMMA CreateCustomerStands ==
  ASSUME CatalogInv, NEW p \in Request, CreateCustomer(p)
  PROVE  CatalogInv'
<1> DEFINE row == [active |-> TRUE, marked |-> FALSE, by |-> "manager"]
<1>1. /\ requests[p].stage = "unsent" /\ UNCHANGED <<sites, agreements, locks>>
      /\ DOMAIN requests' = Request /\ \A o \in Request \ {p} : requests'[o] = requests[o]
      /\ requests'[p].stage = "done"
  BY DEF CreateCustomer, CatalogInv, LocksTyped, Done
<1>2. ~Importing(p) /\ ~Importing(p)' /\ Prepared(p)'
  BY <1>1 DEF Importing, Prepared
<1>3. PICK id \in Unused(CustomerId, DOMAIN customers \cup Written("customers")) :
        customers' = Upserted(customers, Single(id, row))
  BY DEF CreateCustomer
<1>4. id \in CustomerId /\ id \notin DOMAIN customers /\ id \notin Written("customers")
  BY DEF Unused
<1>5. /\ DOMAIN customers' = DOMAIN customers \cup {id} /\ customers'[id] = row
      /\ \A c \in DOMAIN customers : customers'[c] = customers[c]
  BY <1>3, <1>4 DEF Upserted, Single
<1>6. SoundCustomer(row) /\ row.by = "manager"
  BY DEF SoundCustomer
<1> HIDE DEF row
<1>7. TablesHold'
  BY <1>1, <1>4, <1>5, <1>6 DEF CatalogInv, TablesHold
<1>8. ASSUME NEW q \in Request, Importing(q) PROVE LeavesClient(q)
  BY <1>4, <1>5, <1>6, <1>8, WrittenIds DEF LeavesClient
<1> QED
  BY <1>1, <1>2, <1>7, <1>8, ManagersStep, Undisturbed

LEMMA SetCustomerStands ==
  ASSUME CatalogInv, NEW p \in Request, SetCustomer(p)
  PROVE  CatalogInv'
<1>1. /\ requests[p].stage = "unsent" /\ UNCHANGED <<sites, agreements, locks>>
      /\ DOMAIN requests' = Request /\ \A o \in Request \ {p} : requests'[o] = requests[o]
      /\ requests'[p].stage = "done"
  BY DEF SetCustomer, CatalogInv, LocksTyped, Done
<1>2. ~Importing(p) /\ ~Importing(p)' /\ Prepared(p)'
  BY <1>1 DEF Importing, Prepared
<1>3. PICK c \in DOMAIN customers, active \in BOOLEAN :
        /\ CustomerFree(c)
        /\ customers' = [customers EXCEPT ![c].active = active, ![c].marked = @ /\ ~active]
  BY DEF SetCustomer
<1> DEFINE row == customers'[c]
<1>4. SoundCustomer(customers[c])
  BY DEF CatalogInv, TablesHold
<1>5. /\ DOMAIN customers' = DOMAIN customers /\ \A d \in DOMAIN customers \ {c} : customers'[d] = customers[d]
      /\ row = [[customers[c] EXCEPT !.active = active] EXCEPT !.marked = customers[c].marked /\ ~active]
  BY <1>3, <1>4 DEF SoundCustomer
<1>6. SoundCustomer(row) /\ row.by = customers[c].by
  BY <1>4, <1>5 DEF SoundCustomer
<1> HIDE DEF row
<1>7. \A d \in DOMAIN customers : customers'[d].by = customers[d].by /\ SoundCustomer(customers'[d])
  BY <1>5, <1>6 DEF row, CatalogInv, TablesHold
<1>8. TablesHold'
  BY <1>1, <1>5, <1>7 DEF CatalogInv, TablesHold
<1>9. ASSUME NEW q \in Request, Importing(q) PROVE LeavesClient(q)
  BY <1>3, <1>5, <1>7, <1>9 DEF LeavesClient, CustomerFree
<1> QED
  BY <1>1, <1>2, <1>8, <1>9, ManagersStep, Undisturbed

LEMMA CreateSiteStands ==
  ASSUME CatalogInv, NEW p \in Request, CreateSite(p)
  PROVE  CatalogInv'
<1> DEFINE row == requests[p].site
<1>1. /\ requests[p].stage = "site" /\ UNCHANGED <<customers, agreements, locks>>
      /\ DOMAIN requests' = Request /\ \A o \in Request \ {p} : requests'[o] = requests[o]
      /\ requests'[p].stage = "done"
  BY DEF CreateSite, CatalogInv, LocksTyped, Done
<1>2. ~Importing(p) /\ ~Importing(p)' /\ Prepared(p)'
  BY <1>1 DEF Importing, Prepared
<1>3. PICK id \in Unused(SiteId, DOMAIN sites \cup Written("sites")) : sites' = Upserted(sites, Single(id, row))
  BY DEF CreateSite
<1>4. id \in SiteId /\ id \notin DOMAIN sites /\ id \notin Written("sites")
  BY DEF Unused
<1>5. /\ DOMAIN sites' = DOMAIN sites \cup {id} /\ sites'[id] = row
      /\ \A s \in DOMAIN sites : sites'[s] = sites[s]
  BY <1>3, <1>4 DEF Upserted, Single
<1>6. SoundSite(row) /\ row.confirmed
  BY <1>1 DEF CatalogInv, Prepared
<1> HIDE DEF row
<1>7. TablesHold'
  BY <1>1, <1>4, <1>5, <1>6 DEF CatalogInv, TablesHold
<1>8. ASSUME NEW q \in Request, Importing(q) PROVE LeavesSites(q)
  BY <1>4, <1>5, <1>6, <1>8, WrittenIds DEF LeavesSites
<1> QED
  BY <1>1, <1>2, <1>7, <1>8, ManagersStep, Undisturbed

LEMMA SiteEditStands ==
  ASSUME CatalogInv, NEW p \in Request, UpdateSite(p) \/ SetSite(p)
  PROVE  CatalogInv'
<1>1. /\ requests[p].stage = "unsent" /\ UNCHANGED <<customers, agreements, locks>>
      /\ DOMAIN requests' = Request /\ \A o \in Request \ {p} : requests'[o] = requests[o]
      /\ requests'[p].stage = "done"
  <2>1. requests[p].stage = "unsent" /\ UNCHANGED <<customers, agreements, locks>> /\ Done(p)
    BY DEF UpdateSite, SetSite
  <2> QED
    BY <2>1 DEF CatalogInv, LocksTyped, Done
<1>2. ~Importing(p) /\ ~Importing(p)' /\ Prepared(p)'
  BY <1>1 DEF Importing, Prepared
<1>3. \A s \in DOMAIN sites : SoundSite(sites[s])
  BY DEF CatalogInv, TablesHold
<1>4. \E s \in DOMAIN sites :
        /\ siteLock[s] = None
        /\ DOMAIN sites' = DOMAIN sites /\ \A t \in DOMAIN sites \ {s} : sites'[t] = sites[t]
        /\ SoundSite(sites'[s]) /\ sites'[s].customer = sites[s].customer /\ sites'[s].name = sites[s].name
        /\ sites[s].confirmed => sites'[s].confirmed
  <2>1. CASE UpdateSite(p)
    <3>1. PICK s \in DOMAIN sites, branch \in Branch \cup {None}, opens \in Hours \cup {None} :
            siteLock[s] = None /\ sites' = [sites EXCEPT ![s] = SiteEdited(@, branch, opens)]
      BY <2>1 DEF UpdateSite
    <3> DEFINE old == sites[s]
               new == SiteEdited(old, branch, opens)
    <3>2. sites'[s] = new /\ SoundSite(old)
      BY <3>1, <1>3
    <3>3. /\ DOMAIN new = DOMAIN old /\ new.active = old.active /\ new.marked = old.marked
          /\ new.customer = old.customer /\ new.name = old.name
      BY <3>2 DEF SiteEdited, SoundSite
    <3>4. new.confirmed = (old.confirmed \/ branch # None)
      BY <3>2 DEF SiteEdited, SoundSite
    <3>5. new.confirmed \in BOOLEAN /\ (old.confirmed => new.confirmed)
      BY <3>4
    <3> HIDE DEF new
    <3>6. SoundSite(new)
      BY <3>2, <3>3, <3>5 DEF SoundSite
    <3> QED
      BY <3>1, <3>2, <3>3, <3>5, <3>6
  <2>2. CASE SetSite(p)
    <3>1. PICK s \in DOMAIN sites, active \in BOOLEAN :
            siteLock[s] = None /\ sites' = [sites EXCEPT ![s].active = active, ![s].marked = @ /\ ~active]
      BY <2>2 DEF SetSite
    <3>2. sites'[s] = [[sites[s] EXCEPT !.active = active] EXCEPT !.marked = sites[s].marked /\ ~active]
      BY <3>1, <1>3 DEF SoundSite
    <3>3. /\ SoundSite(sites'[s]) /\ sites'[s].customer = sites[s].customer /\ sites'[s].name = sites[s].name
          /\ sites[s].confirmed => sites'[s].confirmed
      BY <3>2, <1>3 DEF SoundSite
    <3> QED
      BY <3>1, <3>3
  <2> QED
    BY <2>1, <2>2
<1>5. TablesHold'
  BY <1>1, <1>3, <1>4 DEF CatalogInv, TablesHold
<1>6. ASSUME NEW q \in Request, Importing(q) PROVE LeavesSites(q)
  BY <1>4, CatalogAssumption DEF LeavesSites
<1> QED
  BY <1>1, <1>2, <1>5, <1>6, ManagersStep, Undisturbed

---------------------------------------------------------------------------
(* The import.                                                             *)

\* An open import is the only one: it holds the lock on the name.
LEMMA OneImport ==
  ASSUME CatalogInv, NEW p \in Request, Importing(p)
  PROVE  nameLock = p /\ \A q \in Request : Importing(q) => q = p
  BY DEF CatalogInv, ImportHolds, ImportTyped

\* A step of an import, beside which no other is open.
LEMMA ImportStep ==
  ASSUME CatalogInv, NEW p \in Request, \A q \in Request \ {p} : ~Importing(q),
         DOMAIN requests' = Request, \A o \in Request \ {p} : requests'[o] = requests[o],
         DOMAIN agreementLock' = AgreementId, DOMAIN siteLock' = SiteId,
         TablesHold', \A a \in DOMAIN agreements : a \in DOMAIN agreements',
         Prepared(p)', ImportHolds(p)'
  PROVE  CatalogInv'
<1>1. LocksTyped'
  BY DEF LocksTyped
<1>2. ASSUME NEW q \in Request PROVE Prepared(q)' /\ ImportHolds(q)'
  <2>1. CASE q = p
    BY <2>1
  <2>2. CASE q # p
    <3>1. requests'[q] = requests[q] /\ ~Importing(q)
      BY <2>2
    <3>2. ~Importing(q)'
      BY <3>1 DEF Importing
    <3>3. Prepared(q)'
      BY <3>1 DEF CatalogInv, Prepared
    <3> QED
      BY <3>2, <3>3 DEF ImportHolds
  <2> QED
    BY <2>1, <2>2
<1> QED
  BY <1>1, <1>2 DEF CatalogInv

LEMMA BeginClientStands ==
  ASSUME CatalogInv, NEW p \in Request, BeginClient(p)
  PROVE  CatalogInv'
<1> DEFINE book == requests[p].book
<1>1. requests[p].stage = "parsed" /\ nameLock = None /\ UNCHANGED <<customers, sites, agreements>> /\ nameLock' = p
  BY DEF BeginClient, NameFree
<1>2. book \in Workbooks
  BY <1>1 DEF CatalogInv, Prepared
<1>3. \A q \in Request : ~Importing(q)
  BY <1>1, OneImport, CatalogAssumption
<1> DEFINE Began(client, c) ==
        /\ agreementLock' = [a \in AgreementId |-> IF a \in AgreementsOf(c) THEN p ELSE agreementLock[a]]
        /\ siteLock' = [s \in SiteId |-> IF s \in SitesOf(c) THEN p ELSE siteLock[s]]
        /\ requests' = [requests EXCEPT ![p] = [stage |-> "row", book |-> book,
             rows |-> book.rows, ids |-> <<>>, cleared |-> {}, found |-> None,
             held |-> AgreementsOf(c), existingSites |-> SitesOf(c),
             tx |-> [client |-> c, customers |-> client, sites |-> <<>>, agreements |-> <<>>]]]
<1>30. PICK client \in ClientRows(book) : \E c : Began(client, c)
  BY ZenonT(60) DEF BeginClient
<1>31. PICK c : Began(client, c)
  BY <1>30
<1>4. /\ client \in ClientRows(book)
      /\ agreementLock' = [a \in AgreementId |-> IF a \in AgreementsOf(c) THEN p ELSE agreementLock[a]]
      /\ siteLock' = [s \in SiteId |-> IF s \in SitesOf(c) THEN p ELSE siteLock[s]]
      /\ requests' = [requests EXCEPT ![p] = [stage |-> "row", book |-> book,
           rows |-> book.rows, ids |-> <<>>, cleared |-> {}, found |-> None,
           held |-> AgreementsOf(c), existingSites |-> SitesOf(c),
           tx |-> [client |-> c, customers |-> client, sites |-> <<>>, agreements |-> <<>>]]]
  BY <1>30, <1>31
<1> DEFINE r == requests'[p]
<1>5. /\ DOMAIN requests' = Request /\ \A o \in Request \ {p} : requests'[o] = requests[o]
      /\ DOMAIN agreementLock' = AgreementId /\ DOMAIN siteLock' = SiteId
  BY <1>4 DEF CatalogInv, LocksTyped
<1>6. /\ r.stage = "row" /\ r.book = book /\ r.rows = book.rows /\ r.cleared = {}
      /\ r.held = AgreementsOf(c) /\ r.existingSites = SitesOf(c)
      /\ r.tx.client = c /\ r.tx.customers = client
      /\ DOMAIN r.ids = {} /\ DOMAIN r.tx.sites = {} /\ DOMAIN r.tx.agreements = {}
      /\ DOMAIN r = ImportFields /\ DOMAIN r.tx = TxFields
  <2>1. r = [stage |-> "row", book |-> book,
             rows |-> book.rows, ids |-> <<>>, cleared |-> {}, found |-> None,
             held |-> AgreementsOf(c), existingSites |-> SitesOf(c),
             tx |-> [client |-> c, customers |-> client, sites |-> <<>>, agreements |-> <<>>]]
    BY <1>4 DEF CatalogInv, LocksTyped
  <2> HIDE DEF r
  <2> QED
    BY <2>1 DEF ImportFields, TxFields
<1> HIDE DEF r, book
<1>7. ImportTyped(p)'
  <2>1. \A s \in SitesOf(c) : s \in DOMAIN sites /\ siteLock'[s] = p
    BY <1>4 DEF SitesOf, CatalogInv, TablesHold
  <2>2. \A a \in AgreementsOf(c) : a \in DOMAIN agreements /\ agreementLock'[a] = p
    BY <1>4 DEF AgreementsOf, CatalogInv, TablesHold
  <2>3. \A s \in DOMAIN sites \ SitesOf(c) : sites[s].customer # c
    BY DEF SitesOf
  <2> QED
    BY <1>1, <1>2, <1>6, <2>1, <2>2, <2>3 DEF ImportTyped, r
<1>8. ClientHolds(p)'
  <2>1. CASE DOMAIN customers # {}
    <3>1. PICK d \in DOMAIN customers : client = Single(d, Activation(customers[d], book.serviced))
      BY <2>1 DEF ClientRows
    <3> DEFINE row == Activation(customers[d], book.serviced)
    <3>2. SoundCustomer(customers[d]) /\ d \in CustomerId
      BY DEF CatalogInv, TablesHold
    <3>3. SoundCustomer(row) /\ (row.active => customers[d].active) /\ row.by = customers[d].by
      BY <3>2 DEF Activation, SoundCustomer
    <3> HIDE DEF row
    <3>4. DOMAIN client = {d} /\ client[d] = row
      BY <3>1, SingleRow DEF row
    <3> QED
      BY <1>1, <1>6, <3>2, <3>3, <3>4 DEF ClientHolds, r
  <2>2. CASE DOMAIN customers = {}
    <3> DEFINE row == [active |-> book.serviced, marked |-> ~book.serviced, by |-> "import"]
    <3>1. PICK d \in Unused(CustomerId, Written("customers")) : client = Single(d, row)
      BY <2>2 DEF ClientRows
    <3>2. d \in CustomerId
      BY DEF Unused
    <3>3. SoundCustomer(row)
      BY <1>2, WorkbookAssumption DEF SoundCustomer
    <3> HIDE DEF row
    <3>4. DOMAIN client = {d} /\ client[d] = row
      BY <3>1, SingleRow
    <3> QED
      BY <1>1, <1>6, <2>2, <3>2, <3>3, <3>4 DEF ClientHolds, r
  <2> QED
    BY <2>1, <2>2
<1>9. SitesHold(p)' /\ AgreementsHold(p)'
  BY <1>6 DEF SitesHold, AgreementsHold, r
<1>10. book.rows \in Seq({book.rows[i] : i \in DOMAIN book.rows}) /\ Past(p)' = 0
  <2>1. book.rows \in Seq({book.rows[i] : i \in DOMAIN book.rows})
    BY <1>2, WorkbookAssumption
  <2>2. Len(book.rows) \in Nat
    BY <2>1
  <2> QED
    BY <1>6, <2>1, <2>2 DEF Past, r
<1>11. RowsLeft(p)'
  <2>1. Len(book.rows) \in Nat /\ DOMAIN book.rows = 1..Len(book.rows)
    BY <1>10
  <2>2. \A i \in 1..Len(book.rows) : book.rows[i] = book.rows[0 + i]
    BY <2>1
  <2> QED
    BY <1>6, <1>10, <2>1, <2>2 DEF RowsLeft, r
<1>12. NamesHold(p)' /\ BookingsHold(p)'
  BY <1>6, <1>10 DEF NamesHold, BookingsHold, r
<1>13. FoundHolds(p)' /\ Prepared(p)'
  BY <1>6 DEF FoundHolds, Prepared, r
<1>14. TablesHold'
  BY <1>1 DEF CatalogInv, TablesHold
<1>15. ImportHolds(p)'
  BY <1>7, <1>8, <1>9, <1>11, <1>12, <1>13 DEF ImportHolds
<1> QED
  BY <1>1, <1>3, <1>5, <1>13, <1>14, <1>15, ImportStep

LEMMA FindRowStands ==
  ASSUME CatalogInv, NEW p \in Request, FindRow(p)
  PROVE  CatalogInv'
<1> DEFINE r == requests[p]
           new == requests'[p]
           row == Head(r.rows)
           seen == IF row.kind = "site" THEN SeenSites(p) ELSE SeenAgreements(p)
<1>1. r.stage = "row" /\ r.rows # <<>> /\ UNCHANGED <<customers, sites, agreements, nameLock, agreementLock, siteLock>>
  BY DEF FindRow, locks
<1>2. Importing(p) /\ ImportHolds(p)
  BY <1>1 DEF Importing, CatalogInv
<1>3. DOMAIN r = ImportFields /\ r.book \in Workbooks
  BY <1>2 DEF ImportHolds, ImportTyped
<1>4. /\ DOMAIN requests' = Request /\ \A o \in Request \ {p} : requests'[o] = requests[o]
      /\ DOMAIN new = ImportFields /\ new.stage = "found"
      /\ \A field \in ImportFields \ {"stage", "found"} : new[field] = r[field]
      /\ \/ new.found = None
         \/ \E id \in Matches(p) : new.found = [id |-> id, row |-> seen[id]]
  <2>1. \E found : /\ requests' = [requests EXCEPT ![p].stage = "found", ![p].found = found]
                   /\ found = None \/ \E id \in Matches(p) : found = [id |-> id, row |-> seen[id]]
    BY DEF FindRow
  <2> QED
    BY <1>3, <2>1 DEF CatalogInv, LocksTyped, ImportFields
<1>5. /\ new.book = r.book /\ new.rows = r.rows /\ new.ids = r.ids /\ new.cleared = r.cleared
      /\ new.held = r.held /\ new.existingSites = r.existingSites /\ new.tx = r.tx
  BY <1>4 DEF ImportFields
<1> HIDE DEF new
<1>6. ImportTyped(p)' /\ ClientHolds(p)'
  <2>1. ImportTyped(p) /\ ClientHolds(p)
    BY <1>2 DEF ImportHolds
  <2>2. ImportTyped(p)'
    BY <1>1, <1>4, <1>5, <2>1 DEF ImportTyped, new
  <2>3. ClientHolds(p)'
    BY <1>1, <1>5, <2>1 DEF ClientHolds, new
  <2> QED
    BY <2>2, <2>3
<1>7. SitesHold(p)' /\ AgreementsHold(p)'
  <2>1. SitesHold(p) /\ AgreementsHold(p)
    BY <1>2 DEF ImportHolds
  <2>2. requests'[p] = new
    BY DEF new
  <2>3. SitesHold(p)'
    BY <1>1, <1>5, <2>1, <2>2 DEF SitesHold
  <2>4. AgreementsHold(p)'
    BY <1>1, <1>5, <2>1, <2>2 DEF AgreementsHold
  <2> QED
    BY <2>3, <2>4
<1>8. Past(p)' = Past(p) /\ \A name : NamedSoFar(p, name)' = NamedSoFar(p, name)
  BY <1>5 DEF Past, NamedSoFar, new
<1>9. RowsLeft(p)'
  <2>1. RowsLeft(p)
    BY <1>2 DEF ImportHolds
  <2>2. QED
    BY <1>5, <1>8, <2>1 DEF RowsLeft, new
<1>14. NamesHold(p)'
  <2>1. NamesHold(p)
    BY <1>2 DEF ImportHolds
  <2>2. \A i \in 1..Past(p) : new.book.rows[i].kind = "site" => new.book.rows[i].name \in DOMAIN new.ids
    BY <1>5, <2>1 DEF NamesHold
  <2>3. \A name \in DOMAIN new.ids :
           /\ new.ids[name] \in DOMAIN new.tx.sites /\ new.tx.sites[new.ids[name]].name = name
           /\ \E i \in 1..Past(p) : new.book.rows[i].kind = "site" /\ new.book.rows[i].name = name
    BY <1>5, <2>1 DEF NamesHold
  <2>4. QED
    BY <1>8, <2>2, <2>3 DEF NamesHold, new
<1>10. BookingsHold(p)'
  <2>1. BookingsHold(p)
    BY <1>2 DEF ImportHolds
  <2>2. new.cleared = DOMAIN new.tx.agreements
    BY <1>5, <2>1 DEF BookingsHold
  <2>3. \A i \in 1..Past(p) :
           new.book.rows[i].kind = "agreement" =>
             \E a \in new.cleared :
               /\ new.tx.agreements[a].site = new.ids[new.book.rows[i].name]
               /\ new.book.rows[i].booked \subseteq new.tx.agreements[a].booked
    <3>1. \A i \in 1..Past(p) :
             r.book.rows[i].kind = "agreement" =>
               \E a \in r.cleared :
                 /\ r.tx.agreements[a].site = r.ids[r.book.rows[i].name]
                 /\ r.book.rows[i].booked \subseteq r.tx.agreements[a].booked
      BY <2>1 DEF BookingsHold
    <3> HIDE DEF r
    <3>2. QED
      BY <1>5, <3>1
  <2>4. \A a \in new.cleared :
           \E name \in DOMAIN new.ids :
             new.tx.agreements[a].site = new.ids[name] /\ new.tx.agreements[a].booked \subseteq NamedSoFar(p, name)
    BY <1>5, <2>1 DEF BookingsHold
  <2> QED
    BY <1>8, <2>2, <2>3, <2>4 DEF BookingsHold, new
<1>11. FoundHolds(p)'
  <2>1. SeenSites(p)' = SeenSites(p) /\ SeenAgreements(p)' = SeenAgreements(p) /\ row = r.rows[1]
    BY <1>1, <1>5 DEF SeenSites, SeenAgreements, new
  <2>2. CASE new.found = None
    BY <1>1, <1>5, <2>2 DEF FoundHolds, new
  <2>3. ASSUME NEW id \in Matches(p), new.found = [id |-> id, row |-> seen[id]]
        PROVE  FoundHolds(p)'
    <3>1. new.found.id = id /\ new.found.row = seen[id]
      BY <2>3
    <3>2. CASE row.kind = "site"
      <4>1. id \in DOMAIN SeenSites(p) /\ SeenSites(p)[id].customer = r.tx.client /\ SeenSites(p)[id].name = row.name
        BY <3>2 DEF Matches
      <4>2. id \in r.existingSites \cup DOMAIN r.tx.sites \/ seen[id].confirmed
        BY <1>2, <3>2, <4>1 DEF ImportHolds, ImportTyped, SeenSites, Upserted
      <4>3. seen[id] = SeenSites(p)[id] /\ new.rows[1].kind = "site" /\ new.rows # <<>>
        BY <1>1, <1>5, <2>1, <3>2
      <4> QED
        BY <1>5, <2>1, <3>1, <3>2, <4>1, <4>2, <4>3 DEF FoundHolds, new
    <3>3. CASE row.kind # "site"
      <4>1. id \in DOMAIN SeenAgreements(p) /\ SeenAgreements(p)[id].site = r.ids[row.name]
        BY <3>3 DEF Matches
      <4>2. seen[id] = SeenAgreements(p)[id] /\ new.rows[1].kind # "site" /\ new.rows # <<>>
        BY <1>1, <1>5, <2>1, <3>3
      <4> QED
        BY <1>5, <2>1, <3>1, <4>1, <4>2 DEF FoundHolds, new
    <3> QED
      BY <3>2, <3>3
  <2> QED
    BY <1>4, <2>2, <2>3
<1>12. Prepared(p)' /\ TablesHold'
  BY <1>1, <1>4 DEF Prepared, CatalogInv, TablesHold, new
<1>13. ImportHolds(p)'
  BY <1>6, <1>7, <1>9, <1>10, <1>11, <1>14 DEF ImportHolds
<1>15. DOMAIN agreementLock' = AgreementId /\ DOMAIN siteLock' = SiteId
  BY <1>1 DEF CatalogInv, LocksTyped
<1> QED
  BY <1>1, <1>2, <1>4, <1>12, <1>13, <1>15, OneImport, ImportStep

\* The end of an import, whatever it writes.
LEMMA ReleaseStands ==
  ASSUME CatalogInv, NEW p \in Request, Importing(p), Release(p), TablesHold',
         \A a \in DOMAIN agreements : a \in DOMAIN agreements'
  PROVE  CatalogInv'
<1>1. /\ DOMAIN requests' = Request /\ \A o \in Request \ {p} : requests'[o] = requests[o]
      /\ requests'[p].stage = "done"
      /\ DOMAIN agreementLock' = AgreementId /\ DOMAIN siteLock' = SiteId
  BY DEF Release, CatalogInv, LocksTyped
<1>2. Prepared(p)' /\ ImportHolds(p)'
  BY <1>1 DEF Prepared, ImportHolds, Importing
<1> QED
  BY <1>1, <1>2, OneImport, ImportStep

LEMMA CommitClientStands ==
  ASSUME CatalogInv, NEW p \in Request, CommitClient(p)
  PROVE  CatalogInv'
<1> DEFINE tx == requests[p].tx
<1>1. /\ Importing(p) /\ ClientHolds(p) /\ SitesHold(p) /\ AgreementsHold(p)
  BY DEF CommitClient, CatalogInv, Importing, ImportHolds
<1>2. /\ customers' = Upserted(customers, tx.customers) /\ sites' = Upserted(sites, tx.sites)
      /\ agreements' = Upserted(agreements, tx.agreements) /\ Release(p)
  BY DEF CommitClient
<1>3. /\ DOMAIN customers' \subseteq CustomerId
      /\ \A c \in DOMAIN customers' : SoundCustomer(customers'[c])
      /\ \A c, d \in DOMAIN customers' : customers'[c].by = "import" /\ customers'[d].by = "import" => c = d
  <2>1. /\ DOMAIN customers' = DOMAIN tx.customers \cup DOMAIN customers
        /\ \A c \in DOMAIN tx.customers : customers'[c] = tx.customers[c]
        /\ \A c \in DOMAIN customers \ DOMAIN tx.customers : customers'[c] = customers[c]
    BY <1>2 DEF Upserted
  <2> QED
    BY <1>1, <2>1 DEF ClientHolds, CatalogInv, TablesHold
<1>4. DOMAIN sites' \subseteq SiteId /\ \A s \in DOMAIN sites' : SoundSite(sites'[s])
  <2>1. /\ DOMAIN sites' = DOMAIN tx.sites \cup DOMAIN sites
        /\ \A s \in DOMAIN tx.sites : sites'[s] = tx.sites[s]
        /\ \A s \in DOMAIN sites \ DOMAIN tx.sites : sites'[s] = sites[s]
    BY <1>2 DEF Upserted
  <2> QED
    BY <1>1, <2>1 DEF SitesHold, CatalogInv, TablesHold
<1>5. /\ DOMAIN agreements \subseteq DOMAIN agreements'
      /\ DOMAIN agreements' \subseteq AgreementId /\ \A a \in DOMAIN agreements' : SoundAgreement(agreements'[a])
  <2>1. /\ DOMAIN agreements' = DOMAIN tx.agreements \cup DOMAIN agreements
        /\ \A a \in DOMAIN tx.agreements : agreements'[a] = tx.agreements[a]
        /\ \A a \in DOMAIN agreements \ DOMAIN tx.agreements : agreements'[a] = agreements[a]
    BY <1>2 DEF Upserted
  <2> QED
    BY <1>1, <2>1 DEF AgreementsHold, CatalogInv, TablesHold
<1>6. TablesHold'
  BY <1>3, <1>4, <1>5 DEF TablesHold
<1> QED
  BY <1>1, <1>2, <1>5, <1>6, ReleaseStands

LEMMA FailClientStands ==
  ASSUME CatalogInv, NEW p \in Request, FailClient(p)
  PROVE  CatalogInv'
<1>1. Importing(p) /\ Release(p) /\ UNCHANGED <<customers, sites, agreements>>
  BY DEF FailClient
<1>2. TablesHold'
  BY <1>1 DEF CatalogInv, TablesHold
<1> QED
  BY <1>1, <1>2, ReleaseStands

\* The next row of the workbook is done.
Row(q) == requests[q].book.rows[Past(q) + 1]

LEMMA RowFound ==
  ASSUME CatalogInv, NEW p \in Request, requests[p].stage = "found"
  PROVE  /\ Importing(p) /\ ImportHolds(p)
         /\ Past(p) \in Nat /\ Past(p) + 1 \in DOMAIN requests[p].book.rows
         /\ requests[p].rows # <<>> /\ requests[p].rows[1] = Row(p) /\ Head(requests[p].rows) = Row(p)
         /\ requests[p].book \in Workbooks
<1> DEFINE r == requests[p]
           Rows == {r.book.rows[i] : i \in DOMAIN r.book.rows}
<1>1. Importing(p) /\ ImportHolds(p)
  BY DEF CatalogInv, Importing
<1>2. r.rows # <<>> /\ r.book \in Workbooks /\ r.rows \in Seq(Rows) /\ Len(r.rows) <= Len(r.book.rows)
  BY <1>1 DEF ImportHolds, FoundHolds, RowsLeft, ImportTyped
<1>3. r.book.rows \in Seq(Rows)
  BY <1>2, WorkbookAssumption
<1> HIDE DEF Rows
<1>4. /\ Len(r.rows) \in Nat \ {0} /\ Len(r.book.rows) \in Nat /\ DOMAIN r.book.rows = 1..Len(r.book.rows)
      /\ Head(r.rows) = r.rows[1]
  BY <1>2, <1>3
<1>5. Past(p) \in Nat /\ Past(p) + 1 \in DOMAIN r.book.rows
  <2>1. Past(p) = Len(r.book.rows) - Len(r.rows)
    BY DEF Past
  <2> DEFINE m == Len(r.rows)
             n == Len(r.book.rows)
  <2> HIDE DEF m, n
  <2>2. m \in Nat \ {0} /\ n \in Nat /\ m <= n /\ DOMAIN r.book.rows = 1..n /\ Past(p) = n - m
    BY <1>2, <1>4, <2>1 DEF m, n
  <2> QED
    BY <2>2
<1>6. r.rows[1] = r.book.rows[Past(p) + 1]
  BY <1>1, <1>4 DEF ImportHolds, RowsLeft
<1> QED
  BY <1>1, <1>2, <1>4, <1>5, <1>6 DEF Row

LEMMA RowTaken ==
  ASSUME CatalogInv, NEW p \in Request, requests[p].stage = "found", NEW tx, NEW ids, NEW cleared,
         NextRow(p, tx, ids, cleared)
  PROVE  /\ DOMAIN requests' = Request /\ \A o \in Request \ {p} : requests'[o] = requests[o]
         /\ DOMAIN requests'[p] = ImportFields /\ requests'[p].stage = "row"
         /\ requests'[p].tx = tx /\ requests'[p].ids = ids /\ requests'[p].cleared = cleared
         /\ requests'[p].book = requests[p].book /\ requests'[p].held = requests[p].held
         /\ requests'[p].existingSites = requests[p].existingSites
         /\ Past(p)' = Past(p) + 1 /\ RowsLeft(p)'
<1> DEFINE r == requests[p]
           new == requests'[p]
           Rows == {r.book.rows[i] : i \in DOMAIN r.book.rows}
<1>1. DOMAIN r = ImportFields /\ RowsLeft(p) /\ r.rows # <<>>
  BY RowFound DEF ImportHolds, ImportTyped
<1>2. /\ DOMAIN requests' = Request /\ \A o \in Request \ {p} : requests'[o] = requests[o]
      /\ new = [r EXCEPT !.stage = "row", !.rows = Tail(@), !.tx = tx, !.ids = ids, !.cleared = cleared]
  BY DEF CatalogInv, LocksTyped, NextRow
<1> HIDE DEF new
<1>3. /\ DOMAIN new = ImportFields /\ new.stage = "row" /\ new.rows = Tail(r.rows)
      /\ new.tx = tx /\ new.ids = ids /\ new.cleared = cleared
      /\ new.book = r.book /\ new.held = r.held /\ new.existingSites = r.existingSites
  BY <1>1, <1>2 DEF ImportFields
<1>4. r.rows \in Seq(Rows) /\ r.book.rows \in Seq(Rows) /\ Len(r.rows) <= Len(r.book.rows)
  <2>1. r.rows \in Seq(Rows) /\ Len(r.rows) <= Len(r.book.rows)
    BY <1>1 DEF RowsLeft
  <2>2. r.book \in Workbooks
    BY RowFound
  <2>3. r.book.rows \in Seq(Rows)
    BY <2>2, WorkbookAssumption
  <2> QED
    BY <2>1, <2>3
<1> HIDE DEF Rows
<1>5. /\ Len(r.rows) \in Nat \ {0} /\ Len(r.book.rows) \in Nat
      /\ Tail(r.rows) \in Seq(Rows) /\ Len(Tail(r.rows)) = Len(r.rows) - 1
      /\ \A i \in 1..(Len(r.rows) - 1) : Tail(r.rows)[i] = r.rows[i + 1]
  BY <1>1, <1>4
<1>6. Past(p)' = Past(p) + 1 /\ Past(p) \in Int
  <2>1. Past(p) = Len(r.book.rows) - Len(r.rows) /\ Past(p)' = Len(new.book.rows) - Len(new.rows)
    BY DEF Past, new
  <2> DEFINE m == Len(r.rows)
             n == Len(r.book.rows)
  <2> HIDE DEF m, n
  <2>2. m \in Nat /\ n \in Nat /\ Past(p) = n - m /\ Past(p)' = n - (m - 1)
    BY <1>3, <1>5, <2>1 DEF m, n
  <2> QED
    BY <2>2
<1>7. \A i \in 1..Len(Tail(r.rows)) : Tail(r.rows)[i] = r.book.rows[Past(p) + 1 + i]
  <2> TAKE i \in 1..Len(Tail(r.rows))
  <2>1. i + 1 \in 1..Len(r.rows) /\ Tail(r.rows)[i] = r.rows[i + 1]
    BY <1>5
  <2>2. r.rows[i + 1] = r.book.rows[Past(p) + (i + 1)]
    BY <1>1, <2>1 DEF RowsLeft
  <2>3. Past(p) + (i + 1) = Past(p) + 1 + i
    BY <1>6
  <2> QED
    BY <2>1, <2>2, <2>3
<1>8. RowsLeft(p)'
  <2>1. new.rows \in Seq(Rows) /\ Len(new.rows) <= Len(new.book.rows)
    BY <1>3, <1>4, <1>5
  <2>2. \A i \in 1..Len(new.rows) : new.rows[i] = new.book.rows[Past(p)' + i]
    BY <1>3, <1>6, <1>7
  <2>3. Rows = {new.book.rows[i] : i \in DOMAIN new.book.rows}
    BY <1>3 DEF Rows
  <2> QED
    BY <2>1, <2>2, <2>3 DEF RowsLeft, new
<1> QED
  BY <1>2, <1>3, <1>6, <1>8 DEF new

\* A site of the workbook has not been named before, and an agreement is at a site
\* that has.
LEMMA RowNamed ==
  ASSUME CatalogInv, NEW p \in Request, requests[p].stage = "found"
  PROVE  /\ Row(p).kind = "site" => Row(p).name \notin DOMAIN requests[p].ids
         /\ Row(p).kind = "agreement" => Row(p).name \in DOMAIN requests[p].ids /\ Row(p).days # {}
         /\ \A i \in 1..Past(p) : requests[p].book.rows[i].kind = "agreement" =>
              requests[p].book.rows[i].name \in DOMAIN requests[p].ids
         /\ Row(p).serviced \in BOOLEAN /\ Row(p).kind \in {"site", "agreement"}
<1> DEFINE r == requests[p]
           rows == r.book.rows
           n == Past(p)
<1>1. n \in Nat /\ n + 1 \in DOMAIN rows /\ NamesHold(p) /\ r.book \in Workbooks
  BY RowFound DEF ImportHolds
<1>2. \A i \in DOMAIN rows :
        /\ rows[i].kind \in {"site", "agreement"} /\ rows[i].serviced \in BOOLEAN
        /\ rows[i].kind = "agreement" =>
             rows[i].days # {} /\ \E j \in 1..(i - 1) : rows[j].kind = "site" /\ rows[j].name = rows[i].name
        /\ \A j \in DOMAIN rows :
             rows[i].kind = "site" /\ rows[j].kind = "site" /\ rows[j].name = rows[i].name => i = j
  BY <1>1, WorkbookAssumption
<1>3. \A i \in 1..n : i \in DOMAIN rows /\ i # n + 1
  <2>1. rows \in Seq({rows[i] : i \in DOMAIN rows})
    BY <1>1, WorkbookAssumption
  <2> DEFINE Rows == {rows[i] : i \in DOMAIN rows}
  <2> HIDE DEF Rows
  <2>2. Len(rows) \in Nat /\ DOMAIN rows = 1..Len(rows)
    BY <2>1 DEF Rows
  <2> QED
    BY <1>1, <2>2
<1>4. /\ \A i \in 1..n : rows[i].kind = "site" => rows[i].name \in DOMAIN r.ids
      /\ \A name \in DOMAIN r.ids : \E i \in 1..n : rows[i].kind = "site" /\ rows[i].name = name
  BY <1>1 DEF NamesHold
<1>5. rows[n + 1].kind = "site" => rows[n + 1].name \notin DOMAIN r.ids
  BY <1>1, <1>2, <1>3, <1>4
<1>6. \A i \in 1..(n + 1) : rows[i].kind = "agreement" => rows[i].name \in DOMAIN r.ids
  <2> SUFFICES ASSUME NEW i \in 1..(n + 1), rows[i].kind = "agreement" PROVE rows[i].name \in DOMAIN r.ids
    OBVIOUS
  <2>1. i \in DOMAIN rows
    BY <1>1, <1>3
  <2>2. PICK j \in 1..(i - 1) : rows[j].kind = "site" /\ rows[j].name = rows[i].name
    BY <1>2, <2>1
  <2>3. j \in 1..n
    BY <1>1, <2>2
  <2> QED
    BY <1>4, <2>2, <2>3
<1> QED
  BY <1>1, <1>2, <1>5, <1>6 DEF Row

\* The site as the import writes it: nothing switched on, nothing confirmed lost.
LEMMA SiteWritten ==
  ASSUME CatalogInv, NEW p \in Request, requests[p].stage = "found", Row(p).kind = "site", requests[p].found # None,
         NEW id, id = requests[p].found.id,
         NEW new, new = Activation(SiteRefreshed(requests[p].found, Row(p), SeenSites(p)[id]), Row(p).serviced)
  PROVE  /\ id \in SiteId /\ SoundSite(new) /\ new.name = Row(p).name
         /\ id \in DOMAIN sites =>
              /\ new.active => sites[id].active
              /\ sites[id].confirmed =>
                   new.confirmed /\ (id \in requests[p].existingSites => new.branch = sites[id].branch)
<1> DEFINE r == requests[p]
           now == SeenSites(p)[id]
           refreshed == SiteRefreshed(r.found, Row(p), now)
<1>1. Importing(p) /\ ImportHolds(p) /\ r.rows[1] = Row(p) /\ Row(p).serviced \in BOOLEAN
  BY RowFound, RowNamed
<1>2. /\ id \in DOMAIN SeenSites(p) /\ now.name = Row(p).name
      /\ IF id \in r.existingSites \cup DOMAIN r.tx.sites THEN now = r.found.row ELSE r.found.row.confirmed
  <2>1. FoundHolds(p) /\ r.rows[1].kind = "site"
    BY <1>1 DEF ImportHolds
  <2> QED
    BY <1>1, <2>1 DEF FoundHolds
<1>3. \/ id \in DOMAIN r.tx.sites /\ now = r.tx.sites[id]
      \/ id \in DOMAIN sites \ DOMAIN r.tx.sites /\ now = sites[id]
  <2>1. /\ DOMAIN SeenSites(p) = DOMAIN r.tx.sites \cup DOMAIN sites
        /\ \A s \in DOMAIN r.tx.sites : SeenSites(p)[s] = r.tx.sites[s]
        /\ \A s \in DOMAIN sites \ DOMAIN r.tx.sites : SeenSites(p)[s] = sites[s]
    BY DEF SeenSites, Upserted
  <2> QED
    BY <1>2, <2>1
<1>4. id \in SiteId /\ SoundSite(now)
  BY <1>1, <1>3 DEF ImportHolds, SitesHold, CatalogInv, TablesHold
<1>5. id \in DOMAIN sites =>
        /\ now.active => sites[id].active
        /\ sites[id].confirmed => now.confirmed /\ (id \in r.existingSites => now.branch = sites[id].branch)
  BY <1>1, <1>3 DEF ImportHolds, SitesHold
<1>6. /\ (now.confirmed /\ r.found.row.confirmed) \in BOOLEAN
      /\ now.confirmed => now.confirmed /\ r.found.row.confirmed
  BY <1>2, <1>4 DEF SoundSite
<1>7. /\ DOMAIN refreshed = DOMAIN now /\ refreshed.active = now.active /\ refreshed.marked = now.marked
      /\ refreshed.name = now.name /\ refreshed.confirmed = (now.confirmed /\ r.found.row.confirmed)
      /\ refreshed.branch = BranchAfter(r.found, Row(p))
  BY <1>4 DEF SiteRefreshed, SoundSite
<1> HIDE DEF refreshed
<1>8. SoundSite(refreshed)
  BY <1>4, <1>6, <1>7 DEF SoundSite
<1>9. /\ SoundSite(new) /\ new.name = refreshed.name /\ new.confirmed = refreshed.confirmed
      /\ new.branch = refreshed.branch /\ (new.active => refreshed.active)
  BY <1>1, <1>8 DEF Activation, SoundSite, refreshed
<1>10. now.confirmed /\ id \in r.existingSites => refreshed.branch = now.branch
  BY <1>2, <1>7 DEF BranchAfter
<1> QED
  BY <1>2, <1>4, <1>5, <1>6, <1>7, <1>9, <1>10

LEMMA WriteSiteStands ==
  ASSUME CatalogInv, NEW p \in Request, WriteSite(p)
  PROVE  CatalogInv'
<1> DEFINE r == requests[p]
           new == requests'[p]
           row == Row(p)
<1>1. /\ r.stage = "found" /\ Head(r.rows).kind = "site"
      /\ UNCHANGED <<customers, sites, agreements, nameLock, agreementLock>>
  BY DEF WriteSite
<1>2. Importing(p) /\ ImportHolds(p) /\ Head(r.rows) = row
  BY <1>1, RowFound
<1>3. PICK id, site :
        /\ siteLock' = [siteLock EXCEPT ![id] = p]
        /\ NextRow(p, [r.tx EXCEPT !.sites = Upserted(@, Single(id, site))], Upserted(r.ids, Single(row.name, id)),
                   r.cleared)
        /\ \/ /\ r.found # None /\ id = r.found.id
              /\ site = Activation(SiteRefreshed(r.found, row, SeenSites(p)[id]), row.serviced)
           \/ /\ id \in Unused(SiteId, DOMAIN sites \cup Written("sites"))
              /\ site = [customer |-> r.tx.client, name |-> row.name, active |-> row.serviced,
                         marked |-> ~row.serviced, branch |-> row.branch, confirmed |-> FALSE, opens |-> {}]
  BY <1>2 DEF WriteSite
<1>4. /\ id \in SiteId /\ SoundSite(site) /\ site.name = row.name
      /\ id \in DOMAIN sites =>
           /\ site.active => sites[id].active
           /\ sites[id].confirmed =>
                site.confirmed /\ (id \in r.existingSites => site.branch = sites[id].branch)
  <2>1. CASE /\ r.found # None /\ id = r.found.id
             /\ site = Activation(SiteRefreshed(r.found, row, SeenSites(p)[id]), row.serviced)
    BY <1>1, <1>2, <2>1, SiteWritten
  <2>2. CASE /\ id \in Unused(SiteId, DOMAIN sites \cup Written("sites"))
             /\ site = [customer |-> r.tx.client, name |-> row.name, active |-> row.serviced,
                        marked |-> ~row.serviced, branch |-> row.branch, confirmed |-> FALSE, opens |-> {}]
    <3>1. id \in SiteId /\ id \notin DOMAIN sites
      BY <2>2 DEF Unused
    <3>2. row.serviced \in BOOLEAN
      BY <1>1, RowNamed
    <3>3. SoundSite(site) /\ site.name = row.name
      BY <2>2, <3>2 DEF SoundSite
    <3> QED
      BY <3>1, <3>3
  <2> QED
    BY <1>3, <2>1, <2>2
<1> DEFINE tx == [r.tx EXCEPT !.sites = Upserted(@, Single(id, site))]
           ids == Upserted(r.ids, Single(row.name, id))
<1>5. /\ DOMAIN tx = TxFields /\ tx.client = r.tx.client /\ tx.customers = r.tx.customers
      /\ tx.agreements = r.tx.agreements
      /\ DOMAIN tx.sites = DOMAIN r.tx.sites \cup {id} /\ tx.sites[id] = site
      /\ \A s \in DOMAIN r.tx.sites \ {id} : tx.sites[s] = r.tx.sites[s]
  <2>1. DOMAIN r.tx = TxFields
    BY <1>2 DEF ImportHolds, ImportTyped
  <2>2. /\ DOMAIN tx = TxFields /\ tx.client = r.tx.client /\ tx.customers = r.tx.customers
        /\ tx.agreements = r.tx.agreements /\ tx.sites = Upserted(r.tx.sites, Single(id, site))
    BY <2>1 DEF TxFields
  <2> QED
    BY <2>2 DEF Upserted, Single
<1>6. /\ DOMAIN ids = DOMAIN r.ids \cup {row.name} /\ ids[row.name] = id
      /\ \A name \in DOMAIN r.ids \ {row.name} : ids[name] = r.ids[name]
  BY DEF Upserted, Single
<1>7. NextRow(p, tx, ids, r.cleared)
  BY <1>3
<1> HIDE DEF tx, ids, new
<1>8. /\ DOMAIN requests' = Request /\ \A o \in Request \ {p} : requests'[o] = requests[o]
      /\ DOMAIN new = ImportFields /\ new.stage = "row" /\ new.tx = tx /\ new.ids = ids /\ new.cleared = r.cleared
      /\ new.book = r.book /\ new.held = r.held /\ new.existingSites = r.existingSites
      /\ Past(p)' = Past(p) + 1 /\ RowsLeft(p)'
  BY <1>1, <1>7, RowTaken DEF new
<1>9. /\ DOMAIN siteLock' = SiteId /\ siteLock'[id] = p /\ \A s \in SiteId \ {id} : siteLock'[s] = siteLock[s]
  BY <1>3, <1>4 DEF CatalogInv, LocksTyped
<1>10. ImportTyped(p)' /\ ClientHolds(p)'
  <2>1. \A s \in r.existingSites : s \in SiteId
    BY <1>2 DEF ImportHolds, ImportTyped, CatalogInv, TablesHold
  <2> QED
    BY <1>1, <1>2, <1>5, <1>8, <1>9, <2>1 DEF ImportHolds, ImportTyped, ClientHolds, new
<1>11. SitesHold(p)'
  <2> SUFFICES ASSUME NEW s \in DOMAIN tx.sites
      PROVE  /\ s \in SiteId /\ siteLock'[s] = p /\ SoundSite(tx.sites[s])
             /\ s \in DOMAIN sites =>
                  /\ tx.sites[s].active => sites[s].active
                  /\ sites[s].confirmed =>
                       tx.sites[s].confirmed /\ (s \in r.existingSites => tx.sites[s].branch = sites[s].branch)
    BY <1>1, <1>8 DEF SitesHold, new
  <2>1. CASE s = id
    BY <1>4, <1>5, <1>9, <2>1
  <2>2. CASE s # id
    BY <1>2, <1>5, <1>9, <2>2 DEF ImportHolds, SitesHold
  <2> QED
    BY <2>1, <2>2
<1>12. AgreementsHold(p)'
  BY <1>1, <1>2, <1>5, <1>8 DEF ImportHolds, AgreementsHold, new
<1>13. Past(p) \in Nat /\ row.name \notin DOMAIN r.ids /\ row.kind = "site"
  BY <1>1, <1>2, RowFound, RowNamed
<1>14. NamesHold(p)'
  <2>0. NamesHold(p)
    BY <1>2 DEF ImportHolds
  <2>1. ASSUME NEW i \in 1..(Past(p) + 1), r.book.rows[i].kind = "site"
        PROVE  r.book.rows[i].name \in DOMAIN ids
    <3>1. CASE i = Past(p) + 1
      BY <1>6, <3>1 DEF Row
    <3>2. CASE i # Past(p) + 1
      <4>1. i \in 1..Past(p)
        BY <1>13, <3>2
      <4> QED
        BY <1>6, <2>0, <2>1, <4>1 DEF NamesHold
    <3> QED
      BY <3>1, <3>2
  <2>2. ASSUME NEW name \in DOMAIN ids
        PROVE  /\ ids[name] \in DOMAIN tx.sites /\ tx.sites[ids[name]].name = name
               /\ \E i \in 1..(Past(p) + 1) : r.book.rows[i].kind = "site" /\ r.book.rows[i].name = name
    <3>1. CASE name = row.name
      <4>1. Past(p) + 1 \in 1..(Past(p) + 1)
        BY <1>13
      <4> QED
        BY <1>4, <1>5, <1>6, <1>13, <3>1, <4>1 DEF Row
    <3>2. CASE name # row.name
      <4>1. /\ name \in DOMAIN r.ids /\ ids[name] = r.ids[name]
            /\ r.ids[name] \in DOMAIN r.tx.sites /\ r.tx.sites[r.ids[name]].name = name
        BY <1>2, <1>6, <3>2 DEF ImportHolds, NamesHold
      <4>2. \E i \in 1..Past(p) : r.book.rows[i].kind = "site" /\ r.book.rows[i].name = name
        BY <1>2, <4>1 DEF ImportHolds, NamesHold
      <4>3. r.ids[name] # id
        <5>1. CASE r.found # None /\ id = r.found.id
          <6>1. SeenSites(p)[id].name = row.name
            BY <1>1, <1>2, <1>13, <5>1, RowFound DEF ImportHolds, FoundHolds
          <6>2. id \in DOMAIN r.tx.sites => r.tx.sites[id] = SeenSites(p)[id]
            BY DEF SeenSites, Upserted
          <6> QED
            BY <3>2, <4>1, <6>1, <6>2
        <5>2. CASE id \in Unused(SiteId, DOMAIN sites \cup Written("sites"))
          <6>1. id \notin DOMAIN r.tx.sites
            BY <1>2, <5>2, WrittenIds DEF Unused
          <6> QED
            BY <4>1, <6>1
        <5> QED
          BY <1>3, <5>1, <5>2
      <4>4. \A i \in 1..Past(p) : i \in 1..(Past(p) + 1)
        BY <1>13
      <4> QED
        BY <1>5, <4>1, <4>2, <4>3, <4>4
    <3> QED
      BY <3>1, <3>2
  <2> QED
    BY <1>8, <2>1, <2>2 DEF NamesHold, new
<1>15. BookingsHold(p)'
  <2> DEFINE rows == r.book.rows
             of(n, name) == {j \in 1..n : rows[j].kind = "agreement" /\ rows[j].name = name}
  <2>1. \A name : of(Past(p) + 1, name) = of(Past(p), name)
    BY <1>13 DEF Row
  <2>2. \A name : NamedSoFar(p, name)' = NamedSoFar(p, name)
    BY <1>8, <2>1 DEF NamedSoFar, new
  <2>3. ASSUME NEW i \in 1..(Past(p) + 1), rows[i].kind = "agreement"
        PROVE  /\ i \in 1..Past(p) /\ rows[i].name \in DOMAIN r.ids
               /\ ids[rows[i].name] = r.ids[rows[i].name]
    <3>1. i \in 1..Past(p)
      BY <1>13, <2>3 DEF Row
    <3>2. rows[i].name \in DOMAIN r.ids
      BY <1>1, <2>3, <3>1, RowNamed
    <3> QED
      BY <1>6, <1>13, <3>1, <3>2
  <2>4. \A name \in DOMAIN r.ids : name \in DOMAIN ids /\ ids[name] = r.ids[name]
    BY <1>6, <1>13
  <2>5. BookingsHold(p)
    BY <1>2 DEF ImportHolds
  <2>6. \A i \in 1..(Past(p) + 1) : rows[i].kind = "agreement" =>
          \E a \in r.cleared :
            tx.agreements[a].site = ids[rows[i].name] /\ rows[i].booked \subseteq tx.agreements[a].booked
    <3>1. SUFFICES ASSUME NEW i \in 1..(Past(p) + 1), rows[i].kind = "agreement"
          PROVE  \E a \in r.cleared :
                   tx.agreements[a].site = ids[rows[i].name] /\ rows[i].booked \subseteq tx.agreements[a].booked
      OBVIOUS
    <3>2. PICK a \in r.cleared :
            r.tx.agreements[a].site = r.ids[rows[i].name] /\ rows[i].booked \subseteq r.tx.agreements[a].booked
      BY <2>3, <2>5, <3>1 DEF BookingsHold
    <3> QED
      BY <1>5, <2>3, <3>1, <3>2
  <2>7. \A a \in r.cleared : \E name \in DOMAIN ids :
          tx.agreements[a].site = ids[name] /\ tx.agreements[a].booked \subseteq NamedSoFar(p, name)'
    BY <1>5, <2>2, <2>4, <2>5 DEF BookingsHold
  <2>8. r.cleared = DOMAIN tx.agreements
    BY <1>5, <2>5 DEF BookingsHold
  <2> HIDE DEF of
  <2> QED
    BY <1>8, <2>6, <2>7, <2>8 DEF BookingsHold, new
<1>16. FoundHolds(p)' /\ Prepared(p)' /\ TablesHold'
  BY <1>1, <1>8 DEF FoundHolds, Prepared, CatalogInv, TablesHold, new
<1>17. ImportHolds(p)'
  BY <1>8, <1>10, <1>11, <1>12, <1>14, <1>15, <1>16 DEF ImportHolds
<1>18. DOMAIN agreementLock' = AgreementId
  BY <1>1 DEF CatalogInv, LocksTyped
<1> QED
  BY <1>1, <1>2, <1>8, <1>9, <1>16, <1>17, <1>18, OneImport, ImportStep

\* The agreement as the import writes it over one it found.
LEMMA AgreementWritten ==
  ASSUME CatalogInv, NEW p \in Request, requests[p].stage = "found", Row(p).kind = "agreement",
         requests[p].found # None, NEW id, id = requests[p].found.id,
         NEW new, new = AgreementActivation(requests[p].found, Row(p), Refreshed(p, requests[p].found, Row(p)))
  PROVE  /\ id \in AgreementId /\ SoundAgreement(new)
         /\ new.site = requests[p].ids[Row(p).name] /\ new.booked = Cleared(p, id) \cup Row(p).booked
         /\ id \in DOMAIN requests[p].tx.agreements => SeenAgreements(p)[id].site = requests[p].ids[Row(p).name]
         /\ id \in DOMAIN agreements =>
              /\ agreements[id].marked => new.marked /\ new.status = agreements[id].status
              /\ id \in requests[p].held =>
                   /\ agreements[id].crewBy = "MANAGER" =>
                        new.crewBy = "MANAGER" /\ new.crew = agreements[id].crew
                   /\ agreements[id].daysBy = "MANAGER" =>
                        /\ new.daysBy = "MANAGER" /\ new.days = agreements[id].days
                        /\ new.prefers = agreements[id].prefers
<1> DEFINE r == requests[p]
           row == Row(p)
           before == r.found.row
           now == SeenAgreements(p)[id]
           refreshed == Refreshed(p, r.found, row)
<1>1. Importing(p) /\ ImportHolds(p) /\ r.rows[1] = row /\ row.serviced \in BOOLEAN /\ row.days # {}
  BY RowFound, RowNamed
<1>2. /\ id \in DOMAIN SeenAgreements(p) /\ (now.marked => before.marked)
      /\ before.site = r.ids[row.name]
      /\ id \in r.held \cup DOMAIN r.tx.agreements => now = before
  <2>1. FoundHolds(p) /\ r.rows[1].kind = "agreement"
    BY <1>1 DEF ImportHolds
  <2> QED
    BY <1>1, <2>1 DEF FoundHolds
<1>3. \/ id \in DOMAIN r.tx.agreements /\ now = r.tx.agreements[id]
      \/ id \in DOMAIN agreements \ DOMAIN r.tx.agreements /\ now = agreements[id]
  <2>1. /\ DOMAIN SeenAgreements(p) = DOMAIN r.tx.agreements \cup DOMAIN agreements
        /\ \A a \in DOMAIN r.tx.agreements : SeenAgreements(p)[a] = r.tx.agreements[a]
        /\ \A a \in DOMAIN agreements \ DOMAIN r.tx.agreements : SeenAgreements(p)[a] = agreements[a]
    BY DEF SeenAgreements, Upserted
  <2> QED
    BY <1>2, <2>1
<1>4. id \in AgreementId /\ SoundAgreement(now)
  BY <1>1, <1>3 DEF ImportHolds, AgreementsHold, CatalogInv, TablesHold
<1>5. id \in DOMAIN agreements =>
        /\ SoundAgreement(agreements[id])
        /\ agreements[id].marked => now.marked /\ now.status = agreements[id].status
        /\ id \in r.held =>
             /\ agreements[id].crewBy = "MANAGER" => now.crewBy = "MANAGER" /\ now.crew = agreements[id].crew
             /\ agreements[id].daysBy = "MANAGER" =>
                  now.daysBy = "MANAGER" /\ now.days = agreements[id].days /\ now.prefers = agreements[id].prefers
  <2>1. id \in DOMAIN agreements => SoundAgreement(agreements[id])
    BY DEF CatalogInv, TablesHold
  <2>2. CASE id \in DOMAIN r.tx.agreements /\ now = r.tx.agreements[id]
    <3>1. AgreementsHold(p)
      BY <1>1 DEF ImportHolds
    <3> DEFINE its == r.tx.agreements[id]
    <3>2. id \in DOMAIN agreements =>
            /\ agreements[id].marked => its.marked /\ its.status = agreements[id].status
            /\ id \in r.held =>
                 /\ agreements[id].crewBy = "MANAGER" => its.crewBy = "MANAGER" /\ its.crew = agreements[id].crew
                 /\ agreements[id].daysBy = "MANAGER" =>
                      its.daysBy = "MANAGER" /\ its.days = agreements[id].days /\ its.prefers = agreements[id].prefers
      BY <2>2, <3>1 DEF AgreementsHold
    <3>3. now = its
      BY <2>2
    <3> HIDE DEF now, its, r
    <3> QED
      BY <2>1, <3>2, <3>3
  <2>3. CASE id \in DOMAIN agreements \ DOMAIN r.tx.agreements /\ now = agreements[id]
    BY <2>1, <2>3
  <2> QED
    BY <1>3, <2>2, <2>3
<1>6. /\ DOMAIN refreshed = DOMAIN now /\ refreshed.site = r.ids[row.name]
      /\ refreshed.booked = Cleared(p, id) \cup row.booked
      /\ refreshed.status = now.status /\ refreshed.marked = now.marked
      /\ refreshed.version = now.version /\ refreshed.versions = now.versions
      /\ before.crewBy = "MANAGER" => refreshed.crew = now.crew /\ refreshed.crewBy = now.crewBy
      /\ refreshed.days = IF before.daysBy = "MANAGER" THEN now.days ELSE row.days
      /\ refreshed.prefers = IF before.daysBy = "MANAGER" THEN now.prefers ELSE {}
      /\ before.daysBy = "MANAGER" => refreshed.daysBy = now.daysBy
  BY <1>4 DEF Refreshed, SoundAgreement
<1> HIDE DEF refreshed
<1>7. DayRulesHold(refreshed.days, refreshed.prefers)
  BY <1>1, <1>4, <1>6 DEF SoundAgreement, DayRulesHold
<1>8. /\ SoundAgreement(refreshed) /\ DOMAIN refreshed = DOMAIN now
  BY <1>4, <1>6, <1>7 DEF SoundAgreement, VersionsAgree
<1>9. /\ DOMAIN new = DOMAIN refreshed
      /\ \A field \in DOMAIN refreshed \ {"status", "marked"} : new[field] = refreshed[field]
      /\ \/ ~row.serviced /\ new.status = "ARCHIVED" /\ new.marked = TRUE
         \/ before.marked /\ new = refreshed
         \/ row.serviced /\ ~before.marked /\ new.marked = refreshed.marked /\ new.status = "ACTIVE"
  BY <1>8 DEF AgreementActivation, SoundAgreement, refreshed
<1>10. /\ new.site = refreshed.site /\ new.booked = refreshed.booked /\ new.crew = refreshed.crew
       /\ new.crewBy = refreshed.crewBy /\ new.days = refreshed.days /\ new.prefers = refreshed.prefers
       /\ new.daysBy = refreshed.daysBy /\ new.version = refreshed.version /\ new.versions = refreshed.versions
  BY <1>8, <1>9 DEF SoundAgreement
<1>11. new.marked \in BOOLEAN /\ (new.marked => new.status = "ARCHIVED")
  BY <1>2, <1>6, <1>8, <1>9 DEF SoundAgreement
<1>12. SoundAgreement(new)
  BY <1>8, <1>9, <1>10, <1>11 DEF SoundAgreement, VersionsAgree
<1>13. now.marked => new.marked /\ new.status = now.status
  BY <1>2, <1>4, <1>6, <1>9 DEF SoundAgreement
<1>14. id \in r.held =>
         /\ now.crewBy = "MANAGER" => new.crewBy = now.crewBy /\ new.crew = now.crew
         /\ now.daysBy = "MANAGER" => new.daysBy = now.daysBy /\ new.days = now.days /\ new.prefers = now.prefers
  BY <1>2, <1>6, <1>10
<1>15. id \in DOMAIN r.tx.agreements => now.site = r.ids[row.name]
  BY <1>2
<1> HIDE DEF now, before, r, row
<1>16. id \in DOMAIN agreements =>
         /\ agreements[id].marked => new.marked /\ new.status = agreements[id].status
         /\ id \in r.held =>
              /\ agreements[id].crewBy = "MANAGER" => new.crewBy = "MANAGER" /\ new.crew = agreements[id].crew
              /\ agreements[id].daysBy = "MANAGER" =>
                   /\ new.daysBy = "MANAGER" /\ new.days = agreements[id].days
                   /\ new.prefers = agreements[id].prefers
  BY <1>5, <1>13, <1>14
<1> QED
  BY <1>4, <1>6, <1>10, <1>12, <1>15, <1>16 DEF now, before, r, row

\* And one it adds.
LEMMA AgreementImported ==
  ASSUME CatalogInv, NEW p \in Request, requests[p].stage = "found", Row(p).kind = "agreement",
         NEW new, new = AgreementActivation(None, Row(p), Imported(p, Row(p)))
  PROVE  /\ SoundAgreement(new) /\ new.site = requests[p].ids[Row(p).name] /\ new.booked = Row(p).booked
<1> DEFINE row == Row(p)
           made == Imported(p, row)
<1>1. row.serviced \in BOOLEAN /\ row.days # {}
  BY RowNamed
<1>2. /\ DOMAIN made = {"site", "branch", "status", "marked", "crew", "crewBy", "days", "prefers", "daysBy", "freq",
                        "version", "versions", "booked"}
      /\ made.marked = FALSE /\ made.version = 1 /\ made.versions = {} /\ made.days = row.days /\ made.prefers = {}
      /\ made.site = requests[p].ids[row.name] /\ made.booked = row.booked
  BY DEF Imported
<1> HIDE DEF made
<1>3. /\ DOMAIN new = DOMAIN made /\ new.version = 1 /\ new.versions = {} /\ new.days = row.days /\ new.prefers = {}
      /\ new.site = made.site /\ new.booked = made.booked
      /\ new.marked \in BOOLEAN /\ (new.marked => new.status = "ARCHIVED")
  BY <1>1, <1>2 DEF AgreementActivation, made
<1>4. VersionsAgree(new) /\ DayRulesHold(new.days, new.prefers) /\ new.version \in Nat
  BY <1>1, <1>3 DEF VersionsAgree, DayRulesHold
<1>5. SoundAgreement(new)
  BY <1>2, <1>3, <1>4 DEF SoundAgreement
<1> QED
  BY <1>2, <1>3, <1>5

LEMMA WriteAgreementStands ==
  ASSUME CatalogInv, NEW p \in Request, WriteAgreement(p)
  PROVE  CatalogInv'
<1> DEFINE r == requests[p]
           new == requests'[p]
           row == Row(p)
<1>1. /\ r.stage = "found" /\ Head(r.rows).kind = "agreement"
      /\ UNCHANGED <<customers, sites, agreements, nameLock, siteLock>>
  BY DEF WriteAgreement
<1>2. Importing(p) /\ ImportHolds(p) /\ Head(r.rows) = row
  BY <1>1, RowFound
<1>3. PICK id, written :
        /\ agreementLock' = [agreementLock EXCEPT ![id] = p]
        /\ NextRow(p, [r.tx EXCEPT !.agreements = Upserted(@, Single(id, written))], r.ids, r.cleared \cup {id})
        /\ \/ /\ r.found # None /\ id = r.found.id
              /\ written = AgreementActivation(r.found, row, Refreshed(p, r.found, row))
           \/ /\ id \in Unused(AgreementId, DOMAIN agreements \cup Written("agreements"))
              /\ written = AgreementActivation(None, row, Imported(p, row))
  BY <1>2 DEF WriteAgreement
<1>4. /\ id \in AgreementId /\ SoundAgreement(written) /\ written.site = r.ids[row.name]
      /\ id \in DOMAIN agreements =>
           /\ agreements[id].marked => written.marked /\ written.status = agreements[id].status
           /\ id \in r.held =>
                /\ agreements[id].crewBy = "MANAGER" =>
                     written.crewBy = "MANAGER" /\ written.crew = agreements[id].crew
                /\ agreements[id].daysBy = "MANAGER" =>
                     /\ written.daysBy = "MANAGER" /\ written.days = agreements[id].days
                     /\ written.prefers = agreements[id].prefers
      /\ id \in DOMAIN r.tx.agreements =>
           /\ r.tx.agreements[id].site = r.ids[row.name]
           /\ written.booked = r.tx.agreements[id].booked \cup row.booked
      /\ id \notin DOMAIN r.tx.agreements => written.booked = row.booked
  <2>1. CASE r.found # None /\ id = r.found.id /\ written = AgreementActivation(r.found, row, Refreshed(p, r.found, row))
    <3>1. id \in DOMAIN r.tx.agreements => SeenAgreements(p)[id] = r.tx.agreements[id]
      BY DEF SeenAgreements, Upserted
    <3>2. r.cleared = DOMAIN r.tx.agreements
      BY <1>2 DEF ImportHolds, BookingsHold
    <3>3. Cleared(p, id) = IF id \in DOMAIN r.tx.agreements THEN r.tx.agreements[id].booked ELSE {}
      BY <3>1, <3>2 DEF Cleared
    <3>4. row.kind = "agreement"
      BY <1>1, <1>2
    <3>5. /\ id \in AgreementId /\ SoundAgreement(written)
          /\ written.site = r.ids[row.name] /\ written.booked = Cleared(p, id) \cup row.booked
          /\ id \in DOMAIN r.tx.agreements => SeenAgreements(p)[id].site = r.ids[row.name]
          /\ id \in DOMAIN agreements =>
               /\ agreements[id].marked => written.marked /\ written.status = agreements[id].status
               /\ id \in r.held =>
                    /\ agreements[id].crewBy = "MANAGER" =>
                         written.crewBy = "MANAGER" /\ written.crew = agreements[id].crew
                    /\ agreements[id].daysBy = "MANAGER" =>
                         /\ written.daysBy = "MANAGER" /\ written.days = agreements[id].days
                         /\ written.prefers = agreements[id].prefers
      BY <1>1, <2>1, <3>4, AgreementWritten
    <3> QED
      BY <3>1, <3>3, <3>5
  <2>2. CASE /\ id \in Unused(AgreementId, DOMAIN agreements \cup Written("agreements"))
             /\ written = AgreementActivation(None, row, Imported(p, row))
    <3>1. id \in AgreementId /\ id \notin DOMAIN agreements /\ id \notin DOMAIN r.tx.agreements
      BY <1>2, <2>2, WrittenIds DEF Unused
    <3>2. SoundAgreement(written) /\ written.site = r.ids[row.name] /\ written.booked = row.booked
      BY <1>1, <1>2, <2>2, AgreementImported
    <3> QED
      BY <3>1, <3>2
  <2> QED
    BY <1>3, <2>1, <2>2
<1> DEFINE tx == [r.tx EXCEPT !.agreements = Upserted(@, Single(id, written))]
<1>5. /\ DOMAIN tx = TxFields /\ tx.client = r.tx.client /\ tx.customers = r.tx.customers /\ tx.sites = r.tx.sites
      /\ DOMAIN tx.agreements = DOMAIN r.tx.agreements \cup {id} /\ tx.agreements[id] = written
      /\ \A a \in DOMAIN r.tx.agreements \ {id} : tx.agreements[a] = r.tx.agreements[a]
  <2>1. DOMAIN r.tx = TxFields
    BY <1>2 DEF ImportHolds, ImportTyped
  <2>2. /\ DOMAIN tx = TxFields /\ tx.client = r.tx.client /\ tx.customers = r.tx.customers
        /\ tx.sites = r.tx.sites /\ tx.agreements = Upserted(r.tx.agreements, Single(id, written))
    BY <2>1 DEF TxFields
  <2> QED
    BY <2>2 DEF Upserted, Single
<1>6. NextRow(p, tx, r.ids, r.cleared \cup {id})
  BY <1>3
<1> HIDE DEF tx, new
<1>7. /\ DOMAIN requests' = Request /\ \A o \in Request \ {p} : requests'[o] = requests[o]
      /\ DOMAIN new = ImportFields /\ new.stage = "row" /\ new.tx = tx /\ new.ids = r.ids
      /\ new.cleared = r.cleared \cup {id}
      /\ new.book = r.book /\ new.held = r.held /\ new.existingSites = r.existingSites
      /\ Past(p)' = Past(p) + 1 /\ RowsLeft(p)'
  BY <1>1, <1>6, RowTaken DEF new
<1>8. /\ DOMAIN agreementLock' = AgreementId /\ agreementLock'[id] = p
      /\ \A a \in AgreementId \ {id} : agreementLock'[a] = agreementLock[a]
  BY <1>3, <1>4 DEF CatalogInv, LocksTyped
<1>9. ImportTyped(p)' /\ ClientHolds(p)'
  <2>1. \A a \in r.held : a \in AgreementId
    BY <1>2 DEF ImportHolds, ImportTyped, CatalogInv, TablesHold
  <2> QED
    BY <1>1, <1>2, <1>5, <1>7, <1>8, <2>1 DEF ImportHolds, ImportTyped, ClientHolds, new
<1>10. SitesHold(p)'
  BY <1>1, <1>2, <1>5, <1>7 DEF ImportHolds, SitesHold, new
<1>11. AgreementsHold(p)'
  <2> SUFFICES ASSUME NEW a \in DOMAIN tx.agreements
      PROVE  /\ a \in AgreementId /\ agreementLock'[a] = p /\ SoundAgreement(tx.agreements[a])
             /\ a \in DOMAIN agreements =>
                  /\ agreements[a].marked =>
                       tx.agreements[a].marked /\ tx.agreements[a].status = agreements[a].status
                  /\ a \in r.held =>
                       /\ agreements[a].crewBy = "MANAGER" =>
                            tx.agreements[a].crewBy = "MANAGER" /\ tx.agreements[a].crew = agreements[a].crew
                       /\ agreements[a].daysBy = "MANAGER" =>
                            /\ tx.agreements[a].daysBy = "MANAGER" /\ tx.agreements[a].days = agreements[a].days
                            /\ tx.agreements[a].prefers = agreements[a].prefers
    BY <1>1, <1>7 DEF AgreementsHold, new
  <2>1. CASE a = id
    BY <1>4, <1>5, <1>8, <2>1
  <2>2. CASE a # id
    BY <1>2, <1>5, <1>8, <2>2 DEF ImportHolds, AgreementsHold
  <2> QED
    BY <2>1, <2>2
<1>12. /\ Past(p) \in Nat /\ row.kind = "agreement" /\ row.name \in DOMAIN r.ids
       /\ \A i \in 1..(Past(p) + 1) : i \in 1..Past(p) \/ i = Past(p) + 1
       /\ \A i \in 1..Past(p) : i \in 1..(Past(p) + 1)
       /\ Past(p) + 1 \in 1..(Past(p) + 1)
  BY <1>1, <1>2, RowFound, RowNamed
<1>13. NamesHold(p)'
  <2>1. NamesHold(p)
    BY <1>2 DEF ImportHolds
  <2>2. \A i \in 1..(Past(p) + 1) : r.book.rows[i].kind = "site" => r.book.rows[i].name \in DOMAIN r.ids
    BY <1>12, <2>1 DEF NamesHold, Row
  <2>3. \A name \in DOMAIN r.ids :
          /\ r.ids[name] \in DOMAIN tx.sites /\ tx.sites[r.ids[name]].name = name
          /\ \E i \in 1..(Past(p) + 1) : r.book.rows[i].kind = "site" /\ r.book.rows[i].name = name
    BY <1>5, <1>12, <2>1 DEF NamesHold
  <2> QED
    BY <1>7, <2>2, <2>3 DEF NamesHold, new
<1>14. BookingsHold(p)'
  <2> DEFINE rows == r.book.rows
  <2>1. \A name : NamedSoFar(p, name) \subseteq NamedSoFar(p, name)'
    BY <1>7, <1>12 DEF NamedSoFar, new
  <2>2. \A name : row.name = name => row.booked \subseteq NamedSoFar(p, name)'
    BY <1>7, <1>12 DEF NamedSoFar, Row, new
  <2>3. r.cleared = DOMAIN r.tx.agreements /\ BookingsHold(p)
    BY <1>2 DEF ImportHolds, BookingsHold
  <2>4. r.cleared \cup {id} = DOMAIN tx.agreements
    BY <1>5, <2>3
  <2>5. ASSUME NEW i \in 1..(Past(p) + 1), rows[i].kind = "agreement"
        PROVE  \E a \in DOMAIN tx.agreements :
                 tx.agreements[a].site = r.ids[rows[i].name] /\ rows[i].booked \subseteq tx.agreements[a].booked
    <3>1. CASE i = Past(p) + 1
      BY <1>4, <1>5, <3>1 DEF Row
    <3>2. CASE i \in 1..Past(p)
      <4>1. PICK a \in DOMAIN r.tx.agreements :
              /\ r.tx.agreements[a].site = r.ids[rows[i].name]
              /\ rows[i].booked \subseteq r.tx.agreements[a].booked
        BY <2>3, <2>5, <3>2 DEF BookingsHold
      <4>2. CASE a = id
        BY <1>4, <1>5, <4>1, <4>2
      <4>3. CASE a # id
        BY <1>5, <4>1, <4>3
      <4> QED
        BY <4>2, <4>3
    <3> QED
      BY <1>12, <3>1, <3>2
  <2>6. ASSUME NEW a \in DOMAIN tx.agreements
        PROVE  \E name \in DOMAIN r.ids :
                 tx.agreements[a].site = r.ids[name] /\ tx.agreements[a].booked \subseteq NamedSoFar(p, name)'
    <3>1. CASE a # id
      BY <1>5, <2>1, <2>3, <3>1 DEF BookingsHold
    <3>2. CASE a = id /\ id \notin DOMAIN r.tx.agreements
      BY <1>4, <1>5, <1>12, <2>2, <3>2
    <3>3. CASE a = id /\ id \in DOMAIN r.tx.agreements
      <4>1. PICK name \in DOMAIN r.ids :
              /\ r.tx.agreements[id].site = r.ids[name]
              /\ r.tx.agreements[id].booked \subseteq NamedSoFar(p, name)
        BY <2>3, <3>3 DEF BookingsHold
      <4>2. r.ids[name] = r.ids[row.name]
        BY <1>4, <3>3, <4>1
      <4>3. name = row.name
        BY <1>2, <1>12, <4>2 DEF ImportHolds, NamesHold
      <4> QED
        BY <1>4, <1>5, <1>12, <2>1, <2>2, <3>3, <4>1, <4>3
    <3> QED
      BY <3>1, <3>2, <3>3
  <2>7. /\ new.cleared = DOMAIN tx.agreements
        /\ \A i \in 1..Past(p)' : rows[i].kind = "agreement" =>
             \E a \in new.cleared :
               tx.agreements[a].site = r.ids[rows[i].name] /\ rows[i].booked \subseteq tx.agreements[a].booked
        /\ \A a \in new.cleared : \E name \in DOMAIN r.ids :
             tx.agreements[a].site = r.ids[name] /\ tx.agreements[a].booked \subseteq NamedSoFar(p, name)'
    BY <1>7, <2>4, <2>5, <2>6
  <2> QED
    BY <1>7, <2>7 DEF BookingsHold, new
<1>15. FoundHolds(p)' /\ Prepared(p)' /\ TablesHold'
  BY <1>1, <1>7 DEF FoundHolds, Prepared, CatalogInv, TablesHold, new
<1>16. ImportHolds(p)'
  BY <1>7, <1>9, <1>10, <1>11, <1>13, <1>14, <1>15 DEF ImportHolds
<1>17. DOMAIN siteLock' = SiteId
  BY <1>1 DEF CatalogInv, LocksTyped
<1> QED
  BY <1>1, <1>2, <1>7, <1>8, <1>15, <1>16, <1>17, OneImport, ImportStep

---------------------------------------------------------------------------
(* The catalogue always stands.                                            *)

\* A catalogue nothing was written to stands; the other two parts write nothing.
LEMMA CatalogRests == CatalogInv /\ UNCHANGED catalogue => CatalogInv'
<1> SUFFICES ASSUME CatalogInv, UNCHANGED catalogue PROVE CatalogInv'
  OBVIOUS
<1>1. UNCHANGED <<customers, sites, agreements, requests, nameLock, agreementLock, siteLock>>
  BY DEF catalogue
<1>2. TablesHold' /\ LocksTyped'
  BY <1>1 DEF CatalogInv, TablesHold, LocksTyped
<1>3. ASSUME NEW q \in Request PROVE Prepared(q)' /\ ImportHolds(q)'
  <2>1. Prepared(q)'
    BY <1>1 DEF CatalogInv, Prepared
  <2>2. CASE Importing(q)
    <3>1. LeavesClient(q) /\ LeavesSites(q) /\ LeavesAgreements(q)
      BY <1>1, Undisturbed
    <3> QED
      BY <1>1, <2>1, <2>2, <3>1, ImportStands DEF locks
  <2>3. CASE ~Importing(q)
    BY <1>1, <2>1, <2>3 DEF ImportHolds, Importing
  <2> QED
    BY <2>2, <2>3
<1> QED
  BY <1>2, <1>3 DEF CatalogInv

LEMMA WorkforceIsElsewhere ==
  ASSUME WorkforceNext
  PROVE  UNCHANGED catalogue
<1>1. ASSUME NEW q \in Request,
             \/ CreateEmployee(q) \/ BeginUpdate(q) \/ Update(q) \/ SetEmployeeActive(q)
             \/ SetPermanentAssignment(q) \/ ReplaceSkills(q)
             \/ BeginGrant(q) \/ CheckGrant(q) \/ Grant(q) \/ RevokeVehicle(q)
             \/ CheckAbsence(q) \/ AddAvailability(q) \/ RemoveAvailability(q)
      PROVE  UNCHANGED catalogue
  BY <1>1 DEF CreateEmployee, BeginUpdate, Update, SetEmployeeActive, SetPermanentAssignment, ReplaceSkills,
              BeginGrant, CheckGrant, Grant, RevokeVehicle, CheckAbsence, AddAvailability, RemoveAvailability
<1>2. ASSUME NEW q \in Request,
             \/ CreateVehicle(q) \/ UpdateVehicle(q) \/ SetVehicleActive(q)
             \/ BeginMatrix(q) \/ LockMatrix(q) \/ WriteVehicles(q) \/ WritePerson(q)
             \/ CommitMatrix(q) \/ FailMatrix(q)
      PROVE  UNCHANGED catalogue
  BY <1>2 DEF CreateVehicle, UpdateVehicle, SetVehicleActive, BeginMatrix, LockMatrix, WriteVehicles, WritePerson,
              CommitMatrix, FailMatrix
<1> QED
  BY <1>1, <1>2 DEF WorkforceNext

LEMMA InitStands == Init => CatalogInv
<1> USE DEF Importing, ImportHolds, Prepared, LocksTyped
<1>1. CASE CatalogueInit
  <2>1. PICK c \in Catalogs : customers = c.customers /\ sites = c.sites /\ agreements = c.agreements
    BY <1>1 DEF CatalogueInit
  <2>2. TablesHold
    BY <2>1, CatalogAssumption DEF TablesHold
  <2>3. LocksTyped /\ \A q \in Request : requests[q].stage = "unsent"
    BY <1>1 DEF CatalogueInit, Unsent
  <2> QED
    BY <2>2, <2>3 DEF CatalogInv
<1>2. CASE NoCatalogue
  <2>1. DOMAIN customers = {} /\ DOMAIN sites = {} /\ DOMAIN agreements = {}
    BY <1>2 DEF NoCatalogue
  <2>2. TablesHold
    BY <2>1 DEF TablesHold
  <2>3. LocksTyped /\ \A q \in Request : requests[q].stage = "done"
    BY <1>2 DEF NoCatalogue
  <2> QED
    BY <2>2, <2>3 DEF CatalogInv
<1> QED
  BY <1>1, <1>2 DEF Init

LEMMA StepStands == CatalogInv /\ [Next]_<<catalogue, workforce, capacity>> => CatalogInv'
<1> SUFFICES ASSUME CatalogInv, [Next]_<<catalogue, workforce, capacity>> PROVE CatalogInv'
  OBVIOUS
<1>1. ASSUME NEW q \in Request,
             \/ BeginAgreement(q) \/ CreateAgreement(q) \/ PlanAgreement(q)
             \/ BeginEdit(q) \/ Edit(q) \/ BeginStatus(q) \/ ChangeStatus(q)
             \/ BeginReactivation(q) \/ ReactivateImported(q)
             \/ CreateCustomer(q) \/ SetCustomer(q) \/ BeginSite(q) \/ CreateSite(q)
             \/ UpdateSite(q) \/ SetSite(q) \/ SetJob(q)
      PROVE  CatalogInv'
  BY <1>1, BeginAgreementStands, CreateAgreementStands, PlanAgreementStands, BeginEditStands, EditStands,
     BeginStatusStands, ChangeStatusStands, ReactivateImportedStands, CreateCustomerStands, SetCustomerStands,
     BeginSiteStands, CreateSiteStands, SiteEditStands
<1>2. ASSUME NEW q \in Request,
             \/ BeginImport(q) \/ EnsureJob(q) \/ BeginClient(q) \/ FindRow(q)
             \/ WriteSite(q) \/ WriteAgreement(q) \/ CommitClient(q) \/ FailClient(q)
      PROVE  CatalogInv'
  BY <1>2, BeginImportStands, BeginClientStands, FindRowStands, WriteSiteStands, WriteAgreementStands,
     CommitClientStands, FailClientStands
<1>3. CASE CatalogueNext
  BY <1>1, <1>2, <1>3 DEF CatalogueNext
<1>4. CASE WorkforceNext
  BY <1>4, WorkforceIsElsewhere, CatalogRests
<1>5. CASE CapacityNext /\ UNCHANGED <<catalogue, workforce>>
  BY <1>5, CatalogRests
<1>6. CASE UNCHANGED <<catalogue, workforce, capacity>>
  BY <1>6, CatalogRests
<1> QED
  BY <1>3, <1>4, <1>5, <1>6 DEF Next

\* Whatever edits and imports cross, the tables are sound, an open import is the
\* only one, and what it has read or written stays true of the rows it holds.
THEOREM CatalogStands == Spec => []CatalogInv
  BY InitStands, StepStands, PTL DEF Spec

\* The catalogue never contradicts itself.
THEOREM CatalogAlwaysCoheres == Spec => []CatalogCoheres
<1>1. CatalogInv => CatalogCoheres
  <2> SUFFICES ASSUME CatalogInv PROVE CatalogCoheres
    OBVIOUS
  <2> DEFINE imported == {c \in DOMAIN customers : customers[c].by = "import"}
  <2>1. Cardinality(imported) <= 1
    <3>1. imported = {} \/ \E c : imported = {c}
      <4>1. \A c, d \in imported : c = d
        BY DEF CatalogInv, TablesHold
      <4> HIDE DEF imported
      <4>2. \A c \in imported : imported = {c}
        BY <4>1
      <4> QED
        BY <4>2
    <3> HIDE DEF imported
    <3>2. Cardinality(imported) \in {0, 1}
      BY <3>1, FS_EmptySet, FS_Singleton
    <3> QED
      BY <3>2
  <2>2. /\ \A a \in DOMAIN agreements : SoundAgreement(agreements[a])
        /\ \A s \in DOMAIN sites : SoundSite(sites[s])
        /\ \A c \in DOMAIN customers : SoundCustomer(customers[c])
    BY DEF CatalogInv, TablesHold
  <2> QED
    BY <2>1, <2>2 DEF CatalogCoheres, SoundAgreement, SoundSite, SoundCustomer
<1> QED
  BY <1>1, CatalogStands, PTL

---------------------------------------------------------------------------
(* What an edit and an import may never do.                                *)

\* A request moves by its own steps, and none of a manager ends an import.
LEMMA OwnSteps ==
  ASSUME CatalogInv, Next, NEW q \in Request, requests'[q] # requests[q]
  PROVE  /\ requests[q].stage = "edit" => Edit(q)
         /\ Importing(q) /\ requests'[q].stage = "done" => CommitClient(q) \/ FailClient(q)
<1>0. DOMAIN requests = Request
  BY DEF CatalogInv, LocksTyped
<1>1. CatalogueNext
  BY WorkforceIsElsewhere DEF Next, catalogue
<1>2. ASSUME NEW p \in Request,
             \/ BeginAgreement(p) \/ CreateAgreement(p) \/ PlanAgreement(p)
             \/ BeginEdit(p) \/ BeginStatus(p) \/ ChangeStatus(p)
             \/ BeginReactivation(p) \/ ReactivateImported(p)
             \/ CreateCustomer(p) \/ SetCustomer(p) \/ BeginSite(p) \/ CreateSite(p)
             \/ UpdateSite(p) \/ SetSite(p) \/ SetJob(p) \/ BeginImport(p) \/ EnsureJob(p) \/ BeginClient(p)
      PROVE  p = q /\ requests[p].stage # "edit" /\ ~Importing(p)
  <2>1. requests[p].stage \notin {"edit", "row", "found"}
    BY <1>2 DEF BeginAgreement, CreateAgreement, PlanAgreement, BeginEdit, BeginStatus, ChangeStatus,
      BeginReactivation, ReactivateImported, CreateCustomer, SetCustomer, BeginSite, CreateSite, UpdateSite,
      SetSite, SetJob, BeginImport, EnsureJob, BeginClient
  <2>2. \A o \in Request \ {p} : requests'[o] = requests[o]
    BY <1>0, <1>2 DEF BeginAgreement, CreateAgreement, PlanAgreement, BeginEdit, BeginStatus, ChangeStatus,
      BeginReactivation, ReactivateImported, CreateCustomer, SetCustomer, BeginSite, CreateSite, UpdateSite,
      SetSite, SetJob, BeginImport, EnsureJob, BeginClient, Done
  <2> QED
    BY <2>1, <2>2 DEF Importing
<1>3. ASSUME NEW p \in Request, FindRow(p) \/ WriteSite(p) \/ WriteAgreement(p)
      PROVE  p = q /\ requests[p].stage # "edit" /\ requests'[p].stage # "done"
  <2>1. requests[p].stage \in {"row", "found"} /\ \A o \in Request \ {p} : requests'[o] = requests[o]
    BY <1>0, <1>3 DEF FindRow, WriteSite, WriteAgreement, NextRow
  <2>2. "stage" \in DOMAIN requests[p]
    BY <2>1 DEF CatalogInv, ImportHolds, ImportTyped, ImportFields, Importing
  <2>3. requests'[p].stage \in {"row", "found"}
    <3>1. CASE FindRow(p)
      BY <1>0, <2>2, <3>1 DEF FindRow
    <3>2. ASSUME NEW tx, NEW ids, NEW cleared, NextRow(p, tx, ids, cleared)
          PROVE  requests'[p].stage = "row"
      BY <1>0, <2>2, <3>2 DEF NextRow
    <3>3. CASE WriteSite(p) \/ WriteAgreement(p)
      <4>1. \E tx, ids, cleared : NextRow(p, tx, ids, cleared)
        BY <3>3 DEF WriteSite, WriteAgreement
      <4> QED
        BY <3>2, <4>1
    <3> QED
      BY <1>3, <3>1, <3>3
  <2> QED
    BY <2>1, <2>3
<1>4. ASSUME NEW p \in Request, Edit(p) \/ CommitClient(p) \/ FailClient(p)
      PROVE  /\ p = q /\ requests[p].stage \in {"edit", "row", "found"}
             /\ Edit(p) => requests[p].stage = "edit"
             /\ CommitClient(p) \/ FailClient(p) => Importing(p)
  BY <1>0, <1>4 DEF Edit, CommitClient, FailClient, Release, Done, Importing
<1> QED
  BY <1>1, <1>2, <1>3, <1>4 DEF CatalogueNext, Importing

LEMMA StepKeepsTheRest ==
  ASSUME CatalogInv, Next, NEW q \in Request, requests[q].stage = "edit", requests'[q].stage = "done",
         agreements'[requests[q].id] # agreements[requests[q].id]
  PROVE  LET form == requests[q].form
             old == agreements[requests[q].id]
             new == agreements'[requests[q].id]
         IN  /\ old.status # "ARCHIVED"
             /\ \A field \in {"site", "crew", "days", "prefers", "freq"} :
                  form[field] = None => new[field] = old[field]
             /\ \A field \in {"status", "marked", "booked"} : new[field] = old[field]
             /\ new.versions = old.versions \cup {<<old.version + 1, Shape(new)>>}
<1> DEFINE r == requests[q]
           form == r.form
           old == agreements[r.id]
           new == agreements'[r.id]
<1>1. Edit(q)
  BY OwnSteps
<1>2. r.id \in DOMAIN agreements /\ SoundAgreement(old)
  BY DEF CatalogInv, Prepared, TablesHold
<1>3. old.status # "ARCHIVED" /\ new = Edited(r, old)
  BY <1>1, <1>2 DEF Edit
<1> DEFINE edited == [old EXCEPT
        !.site = Carried(r.form, "site", old),
        !.branch = IF r.form.site = None THEN @ ELSE r.branch,
        !.crew = Carried(r.form, "crew", old),
        !.crewBy = IF r.form.crew = None THEN @ ELSE "MANAGER",
        !.days = Carried(r.form, "days", old),
        !.prefers = Carried(r.form, "prefers", old),
        !.daysBy = IF r.form.days # None \/ r.form.prefers # None THEN "MANAGER" ELSE @,
        !.freq = Carried(r.form, "freq", old),
        !.version = @ + 1]
<1>4. new = Versioned(edited)
  BY <1>3 DEF Edited
<1>5. /\ DOMAIN edited = DOMAIN old /\ edited.version = old.version + 1 /\ edited.versions = old.versions
      /\ \A field \in {"site", "crew", "days", "prefers", "freq"} : edited[field] = Carried(form, field, old)
      /\ \A field \in {"status", "marked", "booked"} : edited[field] = old[field]
  BY <1>2 DEF SoundAgreement
<1> HIDE DEF edited, new
<1>6. /\ \A field \in DOMAIN old \ {"versions"} : new[field] = edited[field]
      /\ new.versions = old.versions \cup {<<old.version + 1, Shape(edited)>>}
  BY <1>2, <1>4, <1>5 DEF Versioned, SoundAgreement
<1>7. Shape(new) = Shape(edited)
  BY <1>2, <1>6 DEF Shape, SoundAgreement
<1>8. \A field \in {"site", "crew", "days", "prefers", "freq", "status", "marked", "booked"} : new[field] = edited[field]
  BY <1>2, <1>6 DEF SoundAgreement
<1>9. new.versions = old.versions \cup {<<old.version + 1, Shape(new)>>}
  BY <1>6, <1>7
<1>10. \A field \in {"site", "crew", "days", "prefers", "freq"} : form[field] = None => new[field] = old[field]
  BY <1>5, <1>8 DEF Carried
<1>11. \A field \in {"status", "marked", "booked"} : new[field] = old[field]
  BY <1>5, <1>8
<1> HIDE DEF form, old
<1> QED
  BY <1>3, <1>9, <1>10, <1>11 DEF new, form, old

\* An edit prepared on an older reading takes nothing back.
THEOREM EditsKeepTheRest == Spec => EditKeepsTheRest
<1>1. CatalogInv /\ [Next]_<<catalogue, workforce, capacity>> =>
        [\A q \in Request : requests[q].stage = "edit" /\ requests'[q].stage = "done" =>
           LET form == requests[q].form
               old == agreements[requests[q].id]
               new == agreements'[requests[q].id]
           IN  new # old =>
                 /\ old.status # "ARCHIVED"
                 /\ \A field \in {"site", "crew", "days", "prefers", "freq"} :
                      form[field] = None => new[field] = old[field]
                 /\ \A field \in {"status", "marked", "booked"} : new[field] = old[field]
                 /\ new.versions = old.versions \cup {<<old.version + 1, Shape(new)>>}]_catalogue
  BY StepKeepsTheRest
<1> QED
  BY <1>1, CatalogStands, PTL DEF Spec, EditKeepsTheRest

LEMMA ImportEndKeepsWord ==
  ASSUME CatalogInv, Next, NEW q \in Request, Importing(q), requests'[q].stage = "done"
  PROVE  /\ \A c \in DOMAIN customers : customers'[c].active => customers[c].active
         /\ \A s \in DOMAIN sites :
              /\ sites'[s].active => sites[s].active
              /\ sites[s].confirmed =>
                   sites'[s].confirmed /\ (s \in requests[q].existingSites => sites'[s].branch = sites[s].branch)
         /\ \A a \in DOMAIN agreements :
              LET old == agreements[a]
                  new == agreements'[a]
              IN  /\ old.marked => new.marked /\ new.status = old.status
                  /\ a \in requests[q].held =>
                       /\ old.crewBy = "MANAGER" => new.crew = old.crew
                       /\ old.daysBy = "MANAGER" => new.days = old.days /\ new.prefers = old.prefers
<1>1. CommitClient(q) \/ FailClient(q)
  BY OwnSteps DEF Importing
<1>2. CASE FailClient(q)
  BY <1>2 DEF FailClient
<1>3. CASE CommitClient(q)
  <2> DEFINE tx == requests[q].tx
  <2>1. ClientHolds(q) /\ SitesHold(q) /\ AgreementsHold(q)
    BY DEF CatalogInv, ImportHolds
  <2>2. /\ customers' = Upserted(customers, tx.customers) /\ sites' = Upserted(sites, tx.sites)
        /\ agreements' = Upserted(agreements, tx.agreements)
    BY <1>3 DEF CommitClient
  <2>3. \A c \in DOMAIN customers : customers'[c].active => customers[c].active
    BY <2>1, <2>2 DEF ClientHolds, Upserted
  <2>4. \A s \in DOMAIN sites :
          /\ sites'[s].active => sites[s].active
          /\ sites[s].confirmed =>
               sites'[s].confirmed /\ (s \in requests[q].existingSites => sites'[s].branch = sites[s].branch)
    BY <2>1, <2>2 DEF SitesHold, Upserted
  <2>5. \A a \in DOMAIN agreements :
          /\ agreements[a].marked => agreements'[a].marked /\ agreements'[a].status = agreements[a].status
          /\ a \in requests[q].held =>
               /\ agreements[a].crewBy = "MANAGER" => agreements'[a].crew = agreements[a].crew
               /\ agreements[a].daysBy = "MANAGER" =>
                    agreements'[a].days = agreements[a].days /\ agreements'[a].prefers = agreements[a].prefers
    BY <2>1, <2>2 DEF AgreementsHold, Upserted
  <2> QED
    BY <2>3, <2>4, <2>5
<1> QED
  BY <1>1, <1>2, <1>3

\* No import overrules a person: nothing is switched on, nothing red is brought
\* back, and what was confirmed before it began stays.
THEOREM ManagersWordIsKept == Spec => ManagersWordStands
<1>1. CatalogInv /\ [Next]_<<catalogue, workforce, capacity>> =>
        [\A q \in Request : Importing(q) /\ requests'[q].stage = "done" =>
           /\ \A c \in DOMAIN customers : customers'[c].active => customers[c].active
           /\ \A s \in DOMAIN sites :
                /\ sites'[s].active => sites[s].active
                /\ sites[s].confirmed =>
                     sites'[s].confirmed /\ (s \in requests[q].existingSites => sites'[s].branch = sites[s].branch)
           /\ \A a \in DOMAIN agreements :
                LET old == agreements[a]
                    new == agreements'[a]
                IN  /\ old.marked => new.marked /\ new.status = old.status
                    /\ a \in requests[q].held =>
                         /\ old.crewBy = "MANAGER" => new.crew = old.crew
                         /\ old.daysBy = "MANAGER" => new.days = old.days /\ new.prefers = old.prefers]_catalogue
  BY ImportEndKeepsWord
<1> QED
  BY <1>1, CatalogStands, PTL DEF Spec, ManagersWordStands

LEMMA CommitBooks ==
  ASSUME CatalogInv, NEW q \in Request, CommitClient(q), NEW name \in DOMAIN requests[q].ids
  PROVE  LET of(rows) == {i \in DOMAIN rows : rows[i].kind = "agreement" /\ rows[i].name = name}
             rows == requests[q].book.rows
             named == UNION {rows[i].booked : i \in of(rows)}
             its == {a \in DOMAIN agreements' : agreements'[a].site = requests[q].ids[name]}
         IN  /\ named \subseteq UNION {agreements'[a].booked : a \in its}
             /\ \A a \in its \cap requests[q].cleared : agreements'[a].booked \subseteq named
<1> DEFINE r == requests[q]
           rows == r.book.rows
           of == {i \in DOMAIN rows : rows[i].kind = "agreement" /\ rows[i].name = name}
           named == UNION {rows[i].booked : i \in of}
           its == {a \in DOMAIN agreements' : agreements'[a].site = r.ids[name]}
<1>1. /\ Importing(q) /\ ImportHolds(q) /\ r.rows = <<>> /\ agreements' = Upserted(agreements, r.tx.agreements)
  BY DEF CommitClient, CatalogInv, Importing
<1>2. r.book \in Workbooks /\ NamesHold(q) /\ BookingsHold(q)
  BY <1>1 DEF ImportHolds, ImportTyped
<1>3. DOMAIN rows = 1..Past(q)
  <2>1. rows \in Seq({rows[i] : i \in DOMAIN rows})
    BY <1>2, WorkbookAssumption
  <2> DEFINE Rows == {rows[i] : i \in DOMAIN rows}
  <2> HIDE DEF Rows
  <2>2. Len(rows) \in Nat /\ DOMAIN rows = 1..Len(rows)
    BY <2>1 DEF Rows
  <2>3. Past(q) = Len(rows)
    BY <1>1, <2>2 DEF Past
  <2> QED
    BY <2>2, <2>3
<1>4. named = NamedSoFar(q, name)
  BY <1>3 DEF NamedSoFar
<1>5. /\ r.cleared = DOMAIN r.tx.agreements
      /\ \A a \in r.cleared : a \in DOMAIN agreements' /\ agreements'[a] = r.tx.agreements[a]
  BY <1>1, <1>2 DEF BookingsHold, Upserted
<1>6. named \subseteq UNION {agreements'[a].booked : a \in its}
  <2> SUFFICES ASSUME NEW i \in of PROVE rows[i].booked \subseteq UNION {agreements'[a].booked : a \in its}
    OBVIOUS
  <2>1. PICK a \in r.cleared : r.tx.agreements[a].site = r.ids[name] /\ rows[i].booked \subseteq r.tx.agreements[a].booked
    BY <1>2, <1>3 DEF BookingsHold
  <2> QED
    BY <1>5, <2>1
<1>7. ASSUME NEW a \in its \cap r.cleared PROVE agreements'[a].booked \subseteq named
  <2>1. PICK other \in DOMAIN r.ids :
          r.tx.agreements[a].site = r.ids[other] /\ r.tx.agreements[a].booked \subseteq NamedSoFar(q, other)
    BY <1>2, <1>7 DEF BookingsHold
  <2>2. r.ids[other] = r.ids[name]
    BY <1>5, <1>7, <2>1
  <2>3. other = name
    BY <1>2, <2>2 DEF NamesHold
  <2> QED
    BY <1>4, <1>5, <1>7, <2>1, <2>3
<1> QED
  BY <1>6, <1>7

\* A committed import books every date the workbook names for a site with the
\* site's agreements, and no other date with those it wrote.
THEOREM WorkbookIsAlwaysBooked == Spec => WorkbookIsBooked
<1>1. CatalogInv /\ [Next]_<<catalogue, workforce, capacity>> =>
        [\A q \in Request : CommitClient(q) =>
           \A name \in DOMAIN requests[q].ids :
             LET of(rows) == {i \in DOMAIN rows : rows[i].kind = "agreement" /\ rows[i].name = name}
                 rows == requests[q].book.rows
                 named == UNION {rows[i].booked : i \in of(rows)}
                 its == {a \in DOMAIN agreements' : agreements'[a].site = requests[q].ids[name]}
             IN  /\ named \subseteq UNION {agreements'[a].booked : a \in its}
                 /\ \A a \in its \cap requests[q].cleared : agreements'[a].booked \subseteq named]_catalogue
  BY CommitBooks
<1> QED
  BY <1>1, CatalogStands, PTL DEF Spec, WorkbookIsBooked

-----------------------------------------------------------------------------
(* The workforce and the synthetic capacity: what people and vehicles the     *)
(* schedule relies on are left, whatever managers, the import of a matrix and *)
(* the capacity tool do to them at one time.                                  *)

-----------------------------------------------------------------------------
(* The capacity tool.                                                      *)

ToolStage == {"branch", "planned", "locked"}
RowsOf(a) == a.crew \cup {VanRow(a.van)}

\* An assignment of people and a vehicle on record that stands.
Holds(a) ==
  /\ a.crew \subseteq DOMAIN staff /\ a.van \in DOMAIN vans
  /\ Cardinality(a.crew) \in Nat
  /\ Stands(a)

CapacityTyped ==
  /\ \A q \in Request : jobs[q].stage # "idle" => demand \in Demands
  /\ DOMAIN jobs = Request
  /\ \A e \in DOMAIN staff : SoundMember(staff[e])
  /\ \A t \in DOMAIN vans : SoundVan(vans[t])

\* Of the tool there is one call at a time, and what it has read is still so,
\* but for the seats of the vehicles until it has locked them.
ToolHolds(q) ==
  LET r == jobs[q]
  IN  /\ r.stage \in ToolStage => branchLock = q
      /\ r.stage \in {"planned", "locked"} =>
           /\ r.size \in Nat
           /\ DOMAIN r.staff = DOMAIN staff /\ DOMAIN r.vans = DOMAIN vans
           /\ \A t \in DOMAIN r.vans : r.vans[t].seats \in Nat
      /\ r.stage = "locked" =>
           r.locks = RowLocks(q) /\ BusyStaff \subseteq r.busyStaff /\ BusyVans \subseteq r.busyVans

\* What a manager judged stands until it is written.
JudgedHolds(q) ==
  jobs[q].stage = "judged" =>
    jobs[q].locks = RowsOf(jobs[q].assignment) /\ Holds(jobs[q].assignment)

RowLocksDisjoint == \A p, q \in Request : p # q => jobs[p].locks \cap jobs[q].locks = {}

CapacityInv ==
  /\ CapacityTyped /\ RowLocksDisjoint
  /\ \A q \in Request : ToolHolds(q) /\ JudgedHolds(q)
  /\ \A a \in live : Holds(a)

LEMMA CapacityStarts == Init => CapacityInv
<1> SUFFICES ASSUME Init PROVE CapacityInv
  OBVIOUS
<1>1. CASE CapacityInit
  BY <1>1, CapacityAssumption DEF CapacityInit, CapacityInv, CapacityTyped, RowLocksDisjoint, ToolHolds, JudgedHolds,
     ToolStage
<1>2. CASE NoCapacity
  <2>1. DOMAIN staff = {} /\ DOMAIN vans = {}
    BY <1>2 DEF NoCapacity
  <2> QED
    BY <1>2, <2>1 DEF NoCapacity, CapacityInv, CapacityTyped, RowLocksDisjoint, ToolHolds, JudgedHolds, ToolStage
<1> QED
  BY <1>1, <1>2 DEF Init

\* A locked tool has every row: nobody else is writing or deciding on any.
LEMMA ToolAlone ==
  ASSUME CapacityInv, NEW q \in Request, jobs[q].stage = "locked"
  PROVE  \A o \in Request \ {q} : jobs[o].stage \notin ToolStage \cup {"judged"}
<1> SUFFICES ASSUME NEW o \in Request \ {q} PROVE jobs[o].stage \notin ToolStage \cup {"judged"}
  OBVIOUS
<1>1. branchLock = q /\ DOMAIN jobs[q].vans = DOMAIN vans /\ jobs[q].locks = RowLocks(q)
  BY DEF CapacityInv, ToolHolds, ToolStage
<1>2. jobs[o].stage \notin ToolStage
  BY <1>1 DEF CapacityInv, ToolHolds
<1>3. ASSUME jobs[o].stage = "judged" PROVE FALSE
  <2> DEFINE van == jobs[o].assignment.van
  <2>1. jobs[o].locks = RowsOf(jobs[o].assignment) /\ van \in DOMAIN vans
    BY <1>3 DEF CapacityInv, JudgedHolds, Holds
  <2>2. VanRow(van) \in jobs[o].locks
    BY <2>1 DEF RowsOf
  <2>3. VanRow(van) \in jobs[q].locks
    BY <1>1, <2>1 DEF RowLocks
  <2> QED
    BY <2>2, <2>3 DEF CapacityInv, RowLocksDisjoint
<1> QED
  BY <1>2, <1>3

\* A step that leaves the rows and the assignments alone owes only its own record.
LEMMA RowsKept ==
  ASSUME CapacityInv, NEW q \in Request, UNCHANGED <<staff, vans, drivers, live>>,
         demand' = demand \/ demand' \in Demands, jobs[q].stage # "idle",
         DOMAIN jobs' = Request, \A o \in Request \ {q} : jobs'[o] = jobs[o],
         \A o \in Request \ {q} : branchLock = o => branchLock' = o,
         \A o \in Request \ {q} : jobs'[q].locks \cap jobs[o].locks = {},
         ToolHolds(q)', JudgedHolds(q)'
  PROVE  CapacityInv'
<1>1. CapacityTyped'
  BY DEF CapacityInv, CapacityTyped
<1>2. RowLocksDisjoint'
  BY DEF CapacityInv, RowLocksDisjoint
<1>3. \A a : Holds(a) => Holds(a)'
  BY DEF Holds, Stands
<1>4. ASSUME NEW o \in Request \ {q} PROVE ToolHolds(o)' /\ JudgedHolds(o)'
  <2>1. ToolHolds(o) /\ JudgedHolds(o)
    BY DEF CapacityInv
  <2>2. ToolHolds(o)'
    BY <2>1 DEF ToolHolds, ToolStage, RowLocks, BusyStaff, BusyVans
  <2>3. JudgedHolds(o)'
    BY <1>3, <2>1 DEF JudgedHolds, RowsOf
  <2> QED
    BY <2>2, <2>3
<1>5. \A a \in live' : Holds(a)'
  BY <1>3 DEF CapacityInv
<1> QED
  BY <1>1, <1>2, <1>4, <1>5 DEF CapacityInv

LEMMA ToolStands ==
  ASSUME CapacityInv, NEW q \in Request, TakeBranch(q) \/ Plan(q) \/ LockRows(q) \/ Abort(q)
  PROVE  CapacityInv'
<1> DEFINE r == jobs[q]
<1>1. /\ UNCHANGED <<demand, staff, vans, drivers, live>> /\ r.stage # "idle"
      /\ DOMAIN jobs' = Request /\ \A o \in Request \ {q} : jobs'[o] = jobs[o]
  BY DEF TakeBranch, Plan, LockRows, Abort, ToolStage, CapacityInv, CapacityTyped, Settled
<1>2. \A o \in Request \ {q} : branchLock = o => branchLock' = o
  BY CatalogAssumption DEF TakeBranch, Plan, LockRows, Abort, CapacityInv, ToolHolds, ToolStage
<1>3. \A o \in Request \ {q} : jobs'[q].locks \cap jobs[o].locks = {}
  BY DEF TakeBranch, Plan, LockRows, Abort, CapacityInv, CapacityTyped, Settled, RowFree
<1>4. ToolHolds(q)' /\ jobs'[q].stage # "judged"
  <2>1. CASE TakeBranch(q)
    BY <2>1 DEF TakeBranch, ToolHolds, ToolStage, CapacityInv, CapacityTyped
  <2>2. CASE Plan(q)
    <3>1. demand.crew \in Nat /\ branchLock = q
      BY <2>2, CapacityAssumption DEF Plan, CapacityInv, CapacityTyped, ToolHolds, ToolStage
    <3>2. /\ jobs'[q].stage = "planned" /\ jobs'[q].size = Larger(2, demand.crew)
          /\ jobs'[q].staff = staff /\ jobs'[q].vans = vans
      BY <2>2 DEF Plan, CapacityInv, CapacityTyped
    <3> QED
      BY <1>1, <2>2, <3>1, <3>2 DEF Plan, Larger, ToolHolds, ToolStage, CapacityInv, CapacityTyped, SoundVan
  <2>3. CASE LockRows(q)
    <3>1. ToolHolds(q) /\ r.stage = "planned"
      BY <2>3 DEF LockRows, CapacityInv
    <3>2. /\ jobs'[q].stage = "locked" /\ jobs'[q].size = r.size
          /\ jobs'[q].staff = r.staff /\ jobs'[q].vans = r.vans /\ jobs'[q].locks = RowLocks(q)
          /\ jobs'[q].busyStaff = BusyStaff /\ jobs'[q].busyVans = BusyVans
      BY <2>3 DEF LockRows, CapacityInv, CapacityTyped
    <3> QED
      BY <1>1, <2>3, <3>1, <3>2 DEF LockRows, RowLocks, ToolHolds, ToolStage, BusyStaff, BusyVans
  <2>4. CASE Abort(q)
    BY <2>4 DEF Abort, Settled, ToolHolds, ToolStage, CapacityInv, CapacityTyped
  <2> QED
    BY <2>1, <2>2, <2>3, <2>4
<1> QED
  BY <1>1, <1>2, <1>3, <1>4, RowsKept DEF JudgedHolds

LEMMA ManagersStand ==
  ASSUME CapacityInv, NEW q \in Request, Judge(q) \/ DemandChanges(q)
  PROVE  CapacityInv'
<1>1. /\ UNCHANGED <<staff, vans, drivers, live, branchLock>> /\ jobs[q].stage # "idle"
      /\ demand' = demand \/ demand' \in Demands
      /\ DOMAIN jobs' = Request /\ \A o \in Request \ {q} : jobs'[o] = jobs[o]
  BY DEF Judge, DemandChanges, CapacityInv, CapacityTyped, Settled
<1>2. CASE DemandChanges(q)
  <2>1. jobs'[q].stage = "done" /\ jobs'[q].locks = {}
    BY <1>2 DEF DemandChanges, Settled, CapacityInv, CapacityTyped
  <2> QED
    BY <1>1, <2>1, RowsKept DEF ToolHolds, ToolStage, JudgedHolds
<1>3. CASE Judge(q)
  <2>1. PICK crew \in SUBSET DOMAIN staff, t \in DOMAIN vans :
          LET a == [crew |-> crew, van |-> t, skills |-> demand.skills]
          IN  /\ Cardinality(crew) = demand.crew
              /\ \A row \in crew \cup {VanRow(t)} : RowFree(q, row)
              /\ Stands(a)
              /\ jobs' = [jobs EXCEPT ![q] = [stage |-> "judged", locks |-> crew \cup {VanRow(t)}, assignment |-> a]]
    BY <1>3 DEF Judge
  <2> DEFINE a == [crew |-> crew, van |-> t, skills |-> demand.skills]
  <2>2. jobs'[q].stage = "judged" /\ jobs'[q].locks = RowsOf(a) /\ jobs'[q].assignment = a
    BY <2>1 DEF RowsOf, CapacityInv, CapacityTyped
  <2>3. demand.crew \in Nat
    BY <1>1, CapacityAssumption DEF CapacityInv, CapacityTyped
  <2>4. Holds(a)
    BY <2>1, <2>3 DEF Holds
  <2>5. Holds(a)' /\ a' = a
    <3>1. demand' = demand
      BY <1>3 DEF Judge
    <3> QED
      BY <1>1, <2>4, <3>1 DEF Holds, Stands
  <2>6. JudgedHolds(q)'
    <3>1. jobs'[q].locks = RowsOf(jobs'[q].assignment) /\ jobs'[q].assignment = a /\ a' = a
      BY <2>2, <2>5
    <3> HIDE DEF a
    <3> QED
      BY <2>5, <3>1 DEF JudgedHolds, RowsOf, Holds, Stands, VanRow
  <2>7. \A o \in Request \ {q} : jobs'[q].locks \cap jobs[o].locks = {}
    BY <2>1, <2>2 DEF RowsOf, RowFree
  <2>8. ToolHolds(q)'
    BY <2>2 DEF ToolHolds, ToolStage
  <2> QED
    BY <1>1, <2>6, <2>7, <2>8, RowsKept
<1> QED
  BY <1>2, <1>3

LEMMA AssignmentsStand ==
  ASSUME CapacityInv, NEW q \in Request, Assign(q) \/ Ends(q) \/ EditSeats(q)
  PROVE  CapacityInv'
<1>1. /\ UNCHANGED <<demand, staff, drivers, branchLock>> /\ jobs[q].stage # "idle"
      /\ DOMAIN jobs' = Request /\ \A o \in Request \ {q} : jobs'[o] = jobs[o]
      /\ jobs'[q].stage = "done" /\ jobs'[q].locks = {}
  BY DEF Assign, Ends, EditSeats, CapacityInv, CapacityTyped, Settled
<1>2. DOMAIN vans' = DOMAIN vans /\ \A t \in DOMAIN vans : SoundVan(vans'[t]) /\ vans'[t].active = vans[t].active
  <2>1. CASE EditSeats(q)
    <3>1. PICK t \in DOMAIN vans, n \in {d.crew : d \in Demands} : vans' = [vans EXCEPT ![t].seats = n]
      BY <2>1 DEF EditSeats
    <3>2. n \in Nat
      BY CapacityAssumption
    <3> QED
      BY <3>1, <3>2 DEF CapacityInv, CapacityTyped, SoundVan
  <2>2. CASE Assign(q) \/ Ends(q)
    BY <2>2 DEF Assign, Ends, CapacityInv, CapacityTyped
  <2> QED
    BY <2>1, <2>2
<1>3. \A a : Holds(a) => Holds(a)'
  BY <1>1, <1>2 DEF Holds, Stands
<1>4. CapacityTyped' /\ RowLocksDisjoint'
  BY <1>1, <1>2 DEF CapacityInv, CapacityTyped, RowLocksDisjoint
<1>5. \A a \in live' : Holds(a)'
  BY <1>3 DEF Assign, Ends, EditSeats, CapacityInv, JudgedHolds
<1>6. ASSUME NEW o \in Request, jobs[o].stage = "locked" PROVE live' \subseteq live
  BY <1>6, ToolAlone DEF Assign, Ends, EditSeats
<1>7. ASSUME NEW o \in Request \ {q} PROVE ToolHolds(o)' /\ JudgedHolds(o)'
  <2>1. ToolHolds(o) /\ JudgedHolds(o)
    BY DEF CapacityInv
  <2>2. jobs'[o].stage = "locked" => BusyStaff' \subseteq BusyStaff /\ BusyVans' \subseteq BusyVans
    BY <1>1, <1>6 DEF BusyStaff, BusyVans
  <2>3. ToolHolds(o)'
    BY <1>1, <1>2, <2>1, <2>2 DEF ToolHolds, ToolStage, RowLocks
  <2>4. JudgedHolds(o)'
    BY <1>1, <1>3, <2>1 DEF JudgedHolds, RowsOf
  <2> QED
    BY <2>3, <2>4
<1>8. ToolHolds(q)' /\ JudgedHolds(q)'
  BY <1>1 DEF ToolHolds, ToolStage, JudgedHolds
<1> QED
  BY <1>4, <1>5, <1>7, <1>8 DEF CapacityInv

\* What the tool writes: everybody who was on record still is, those who are asked
\* for are at work, and the others are left as they are if somebody of their team
\* is needed.
LEMMA MutateWrites ==
  ASSUME CapacityInv, NEW q \in Request, Mutate(q), ~Collides(q)
  PROVE  /\ DOMAIN staff \subseteq DOMAIN staff' /\ DOMAIN vans \subseteq DOMAIN vans'
         /\ \A e \in Wanted(q) : /\ e \in DOMAIN staff' /\ SoundMember(staff'[e]) /\ staff'[e].active
                                 /\ staff'[e].skills = SkillsOf(q, e)
         /\ \A t \in 1..jobs[q].teams : /\ t \in DOMAIN vans' /\ SoundVan(vans'[t]) /\ vans'[t].active
                                        /\ vans'[t].seats = SeatsOf(q, t)
         /\ \A e \in DOMAIN staff' \ Wanted(q) :
              /\ e \in SurplusStaff(q) /\ e \in DOMAIN staff
              /\ SoundMember(staff'[e]) /\ staff'[e].skills = staff[e].skills
              /\ e[1] \in BlockedTeams(q) => staff'[e] = staff[e]
         /\ \A t \in DOMAIN vans' \ (1..jobs[q].teams) :
              /\ t \in SurplusVans(q) /\ t \in DOMAIN vans
              /\ SoundVan(vans'[t]) /\ vans'[t].seats = vans[t].seats
              /\ t \in BlockedTeams(q) => vans'[t] = vans[t]
<1> DEFINE r == jobs[q]
           stays(team, row) == [row EXCEPT !.active = row.active /\ (team \in BlockedTeams(q))]
<1>1. /\ staff' = Upserted([e \in SurplusStaff(q) |-> stays(e[1], staff[e])],
                    [e \in Wanted(q) |-> [active |-> TRUE, marked |-> TRUE, skills |-> SkillsOf(q, e)]])
      /\ vans' = Upserted([t \in SurplusVans(q) |-> stays(t, vans[t])],
                    [t \in 1..r.teams |-> [active |-> TRUE, marked |-> TRUE, seats |-> SeatsOf(q, t)]])
  BY DEF Mutate
<1>2. /\ r.stage = "locked" /\ DOMAIN r.staff = DOMAIN staff /\ DOMAIN r.vans = DOMAIN vans
      /\ r.size \in Nat /\ \A t \in DOMAIN r.vans : r.vans[t].seats \in Nat
  BY DEF Mutate, CapacityInv, ToolHolds
<1>3. \A t : SeatsOf(q, t) \in Nat
  BY <1>2 DEF SeatsOf, Larger
<1>4. \A team, row : SoundMember(row) =>
         /\ SoundMember(stays(team, row)) /\ stays(team, row).skills = row.skills
         /\ team \in BlockedTeams(q) => stays(team, row) = row
  BY DEF SoundMember
<1>5. \A team, row : SoundVan(row) =>
         /\ SoundVan(stays(team, row)) /\ stays(team, row).seats = row.seats
         /\ team \in BlockedTeams(q) => stays(team, row) = row
  BY DEF SoundVan
<1>6. (\A e \in DOMAIN staff : SoundMember(staff[e])) /\ (\A t \in DOMAIN vans : SoundVan(vans[t]))
  BY DEF CapacityInv, CapacityTyped
<1> HIDE DEF stays
<1>7. /\ DOMAIN staff' = SurplusStaff(q) \cup Wanted(q)
      /\ \A e \in DOMAIN staff' :
           staff'[e] = IF e \in Wanted(q) THEN [active |-> TRUE, marked |-> TRUE, skills |-> SkillsOf(q, e)]
                       ELSE stays(e[1], staff[e])
  BY <1>1 DEF Upserted
<1>8. /\ DOMAIN vans' = SurplusVans(q) \cup 1..r.teams
      /\ \A t \in DOMAIN vans' :
           vans'[t] = IF t \in 1..r.teams THEN [active |-> TRUE, marked |-> TRUE, seats |-> SeatsOf(q, t)]
                      ELSE stays(t, vans[t])
  BY <1>1 DEF Upserted
<1>9. /\ SurplusStaff(q) = DOMAIN staff \ Wanted(q)
      /\ SurplusVans(q) = DOMAIN vans \ 1..r.teams
  BY <1>2 DEF SurplusStaff, SurplusVans
<1>10. /\ \A skills : SoundMember([active |-> TRUE, marked |-> TRUE, skills |-> skills])
       /\ \A seats \in Nat : SoundVan([active |-> TRUE, marked |-> TRUE, seats |-> seats])
  BY DEF SoundMember, SoundVan
<1>11. DOMAIN staff \subseteq DOMAIN staff' /\ DOMAIN vans \subseteq DOMAIN vans'
  BY <1>7, <1>8, <1>9
<1>12. \A e \in Wanted(q) : /\ e \in DOMAIN staff' /\ SoundMember(staff'[e]) /\ staff'[e].active
                            /\ staff'[e].skills = SkillsOf(q, e)
  <2> TAKE e \in Wanted(q)
  <2>1. e \in DOMAIN staff' /\ staff'[e] = [active |-> TRUE, marked |-> TRUE, skills |-> SkillsOf(q, e)]
    BY <1>7
  <2> QED
    BY <1>10, <2>1
<1>13. \A t \in 1..r.teams : /\ t \in DOMAIN vans' /\ SoundVan(vans'[t]) /\ vans'[t].active
                             /\ vans'[t].seats = SeatsOf(q, t)
  <2> TAKE t \in 1..r.teams
  <2>1. t \in DOMAIN vans' /\ vans'[t] = [active |-> TRUE, marked |-> TRUE, seats |-> SeatsOf(q, t)]
    BY <1>8
  <2> QED
    BY <1>3, <1>10, <2>1
<1>14. \A e \in DOMAIN staff' \ Wanted(q) :
         /\ e \in SurplusStaff(q) /\ e \in DOMAIN staff
         /\ SoundMember(staff'[e]) /\ staff'[e].skills = staff[e].skills
         /\ e[1] \in BlockedTeams(q) => staff'[e] = staff[e]
  <2> TAKE e \in DOMAIN staff' \ Wanted(q)
  <2>1. e \in SurplusStaff(q) /\ e \in DOMAIN staff /\ staff'[e] = stays(e[1], staff[e])
    BY <1>7, <1>9
  <2> QED
    BY <1>4, <1>6, <2>1
<1>15. \A t \in DOMAIN vans' \ (1..r.teams) :
         /\ t \in SurplusVans(q) /\ t \in DOMAIN vans
         /\ SoundVan(vans'[t]) /\ vans'[t].seats = vans[t].seats
         /\ t \in BlockedTeams(q) => vans'[t] = vans[t]
  <2> TAKE t \in DOMAIN vans' \ (1..r.teams)
  <2>1. t \in SurplusVans(q) /\ t \in DOMAIN vans /\ vans'[t] = stays(t, vans[t])
    BY <1>8, <1>9
  <2> QED
    BY <1>5, <1>6, <2>1
<1> QED
  BY <1>11, <1>12, <1>13, <1>14, <1>15

LEMMA MutateStands ==
  ASSUME CapacityInv, NEW q \in Request, Mutate(q)
  PROVE  CapacityInv'
<1> DEFINE r == jobs[q]
<1>1. /\ r.stage = "locked" /\ UNCHANGED <<demand, live>> /\ ToolHolds(q)
      /\ DOMAIN jobs' = Request /\ \A o \in Request \ {q} : jobs'[o] = jobs[o]
      /\ jobs'[q].stage = "done" /\ jobs'[q].locks = {}
  BY DEF Mutate, CapacityInv, CapacityTyped, Settled
<1>2. \A o \in Request \ {q} : jobs[o].stage \notin ToolStage \cup {"judged"}
  BY <1>1, ToolAlone
<1>3. \A o \in Request : ToolHolds(o)' /\ JudgedHolds(o)'
  BY <1>1, <1>2 DEF ToolHolds, JudgedHolds, ToolStage
<1>4. RowLocksDisjoint'
  BY <1>1 DEF CapacityInv, RowLocksDisjoint
<1>5. CASE Collides(q)
  <2>1. UNCHANGED <<staff, vans, drivers>>
    BY <1>5 DEF Mutate
  <2> QED
    BY <1>1, <1>3, <1>4, <2>1 DEF CapacityInv, CapacityTyped, Holds, Stands
<1>6. CASE ~Collides(q)
  <2>1. CapacityTyped'
    <3>1. (\A e \in DOMAIN staff' : SoundMember(staff'[e])) /\ \A t \in DOMAIN vans' : SoundVan(vans'[t])
      BY <1>6, MutateWrites
    <3> QED
      BY <1>1, <3>1 DEF CapacityInv, CapacityTyped
  <2>2. ASSUME NEW a \in live PROVE Holds(a)'
    <3>1. Holds(a) /\ a.crew \subseteq BusyStaff /\ a.van \in BusyVans
      BY DEF CapacityInv, BusyStaff, BusyVans
    <3>2. a.crew \subseteq r.busyStaff
      BY <1>1, <3>1 DEF ToolHolds
    <3>3. ASSUME NEW e \in a.crew
          PROVE  e \in DOMAIN staff' /\ staff'[e].active /\ staff[e].skills \subseteq staff'[e].skills
      <4>1. e \in DOMAIN staff /\ staff[e].active /\ e \in DOMAIN staff'
        BY <1>6, <3>1, MutateWrites DEF Holds, Stands
      <4>2. CASE e \in Wanted(q)
        BY <1>6, <3>2, <4>1, <4>2, MutateWrites DEF SkillsOf
      <4>3. CASE e \notin Wanted(q)
        <5>1. e \in SurplusStaff(q) \cap BusyStaff
          BY <1>6, <3>1, <4>1, <4>3, MutateWrites
        <5>2. e[1] \in BlockedTeams(q)
          BY <5>1 DEF BlockedTeams
        <5> QED
          BY <1>6, <4>1, <4>3, <5>2, MutateWrites
      <4> QED
        BY <4>2, <4>3
    <3>4. a.van \in DOMAIN vans' /\ vans'[a.van].active
      <4>1. a.van \in DOMAIN vans /\ vans[a.van].active /\ a.van \in DOMAIN vans'
        BY <1>6, <3>1, MutateWrites DEF Holds, Stands
      <4>2. CASE a.van \in 1..r.teams
        BY <1>6, <4>2, MutateWrites
      <4>3. CASE a.van \notin 1..r.teams
        <5>1. a.van \in SurplusVans(q) \cap BusyVans
          BY <1>6, <3>1, <4>1, <4>3, MutateWrites
        <5>2. a.van \in BlockedTeams(q)
          BY <5>1 DEF BlockedTeams
        <5> QED
          BY <1>6, <4>1, <4>3, <5>2, MutateWrites
      <4> QED
        BY <4>2, <4>3
    <3>5. drivers \subseteq drivers'
      BY <1>6 DEF Mutate
    <3>6. a.skills \subseteq UNION {staff'[e].skills : e \in a.crew}
      BY <3>1, <3>3 DEF Holds, Stands
    <3> QED
      BY <3>1, <3>3, <3>4, <3>5, <3>6 DEF Holds, Stands
  <2> QED
    BY <1>1, <1>3, <1>4, <2>1, <2>2 DEF CapacityInv
<1> QED
  BY <1>5, <1>6

LEMMA CapacityKept ==
  ASSUME CapacityInv, [Next]_<<catalogue, workforce, capacity>>
  PROVE  CapacityInv'
<1>1. CASE UNCHANGED capacity
  BY <1>1 DEF capacity, CapacityInv, CapacityTyped, RowLocksDisjoint, ToolHolds, JudgedHolds, Holds, Stands,
     RowsOf, RowLocks, BusyStaff, BusyVans
<1>2. CASE CapacityNext
  BY <1>2, ToolStands, ManagersStand, AssignmentsStand, MutateStands DEF CapacityNext
<1> QED
  BY <1>1, <1>2 DEF Next

\* What the tool and the managers know of the branch is so at every moment.
THEOREM CapacityStands == Spec => []CapacityInv
<1> QED
  BY CapacityStarts, CapacityKept, PTL DEF Spec

\* The step in which a tool ends: a fault, or its writes.
LEMMA ToolEnds ==
  ASSUME CapacityInv, [Next]_capacity, NEW q \in Request, jobs[q].stage = "locked", jobs'[q].stage = "done"
  PROVE  /\ UNCHANGED live
         /\ (Mutate(q) /\ ~Collides(q)) \/ UNCHANGED <<staff, vans>>
<1>1. CapacityNext
  BY DEF Next, capacity
<1>2. PICK o \in Request :
        \/ TakeBranch(o) \/ Plan(o) \/ LockRows(o) \/ Mutate(o) \/ Abort(o)
        \/ Judge(o) \/ Assign(o) \/ Ends(o) \/ DemandChanges(o) \/ EditSeats(o)
  BY <1>1 DEF CapacityNext
<1>3. o = q
  <2>1. \A p \in Request \ {o} : jobs'[p] = jobs[p]
    <3>1. CASE TakeBranch(o) \/ Plan(o) \/ LockRows(o) \/ Mutate(o) \/ Abort(o)
      BY <3>1 DEF CapacityInv, CapacityTyped, TakeBranch, Plan, LockRows, Mutate, Abort, Settled
    <3>2. CASE Judge(o) \/ Assign(o) \/ Ends(o) \/ DemandChanges(o) \/ EditSeats(o)
      BY <3>2 DEF CapacityInv, CapacityTyped, Judge, Assign, Ends, DemandChanges, EditSeats, Settled
    <3> QED
      BY <1>2, <3>1, <3>2
  <2> QED
    BY <2>1
<1>4. Mutate(q) \/ Abort(q)
  BY <1>2, <1>3 DEF TakeBranch, Plan, LockRows, Judge, Assign, Ends, DemandChanges, EditSeats
<1> QED
  BY <1>4 DEF Mutate, Abort

\* The seats of a vehicle the tool read as it is are enough for those who rely on it.
LEMMA SeatsStay ==
  ASSUME CapacityInv, NEW q \in Request, Mutate(q), ~Collides(q),
         NEW a \in live, vans[a.van] = jobs[q].vans[a.van], Seated(a)
  PROVE  Seated(a)'
<1> DEFINE r == jobs[q]
<1>1. /\ r.stage = "locked" /\ ToolHolds(q) /\ Holds(a)
  BY DEF Mutate, CapacityInv
<1>2. /\ a.van \in BusyVans /\ a.van \in r.busyVans /\ a.van \in DOMAIN r.vans /\ a.van \in DOMAIN vans
      /\ r.size \in Nat /\ r.vans[a.van].seats \in Nat /\ Cardinality(a.crew) \in Nat
  BY <1>1 DEF ToolHolds, Holds, BusyVans
<1>3. CASE a.van \in 1..r.teams
  <2>1. vans'[a.van].seats = Larger(r.vans[a.van].seats, r.size)
    BY <1>2, <1>3, MutateWrites DEF SeatsOf
  <2> QED
    BY <1>2, <2>1 DEF Larger, Seated
<1>4. CASE a.van \notin 1..r.teams
  <2>1. vans'[a.van].seats = vans[a.van].seats
    BY <1>2, <1>4, MutateWrites
  <2> QED
    BY <2>1 DEF Seated
<1> QED
  BY <1>3, <1>4

LEMMA CrewsStandStep ==
  ASSUME CapacityInv, CapacityInv', [Next]_capacity
  PROVE  /\ \A a \in live' : Stands(a)'
         /\ \A q \in Request : jobs[q].stage = "locked" /\ jobs'[q].stage = "done" =>
              /\ \A a \in live : vans[a.van] = jobs[q].vans[a.van] /\ Seated(a) => Seated(a)'
              /\ \A e, f \in SurplusStaff(q) : e[1] = f[1] /\ e \in BusyStaff => staff'[f] = staff[f]
              /\ DOMAIN jobs[q].staff = DOMAIN staff /\ DOMAIN jobs[q].vans = DOMAIN vans
              /\ (staff' # staff \/ vans' # vans) =>
                   \A t \in 1..jobs[q].teams :
                     /\ \A m \in 1..jobs[q].size :
                          staff'[<<t, m>>].active /\ jobs[q].skills \subseteq staff'[<<t, m>>].skills
                     /\ vans'[t].active /\ vans'[t].seats >= jobs[q].size
<1>1. \A a \in live' : Stands(a)'
  BY DEF CapacityInv, Holds
<1>2. ASSUME NEW q \in Request, jobs[q].stage = "locked", jobs'[q].stage = "done"
      PROVE  /\ \A a \in live : vans[a.van] = jobs[q].vans[a.van] /\ Seated(a) => Seated(a)'
             /\ \A e, f \in SurplusStaff(q) : e[1] = f[1] /\ e \in BusyStaff => staff'[f] = staff[f]
             /\ DOMAIN jobs[q].staff = DOMAIN staff /\ DOMAIN jobs[q].vans = DOMAIN vans
             /\ (staff' # staff \/ vans' # vans) =>
                  \A t \in 1..jobs[q].teams :
                    /\ \A m \in 1..jobs[q].size :
                         staff'[<<t, m>>].active /\ jobs[q].skills \subseteq staff'[<<t, m>>].skills
                    /\ vans'[t].active /\ vans'[t].seats >= jobs[q].size
  <2> DEFINE r == jobs[q]
  <2>1. UNCHANGED live /\ ((Mutate(q) /\ ~Collides(q)) \/ UNCHANGED <<staff, vans>>)
    BY <1>2, ToolEnds
  <2>2. /\ DOMAIN r.staff = DOMAIN staff /\ DOMAIN r.vans = DOMAIN vans
        /\ r.size \in Nat /\ \A t \in DOMAIN r.vans : r.vans[t].seats \in Nat
    BY <1>2 DEF CapacityInv, ToolHolds
  <2>3. CASE UNCHANGED <<staff, vans>>
    BY <2>2, <2>3 DEF Seated
  <2>4. CASE Mutate(q) /\ ~Collides(q)
    <3>1. \A a \in live : vans[a.van] = r.vans[a.van] /\ Seated(a) => Seated(a)'
      BY <2>4, SeatsStay
    <3>2. ASSUME NEW e \in SurplusStaff(q), NEW f \in SurplusStaff(q), e[1] = f[1], e \in BusyStaff
          PROVE  staff'[f] = staff[f]
      <4>1. f[1] \in BlockedTeams(q)
        BY <3>2 DEF BlockedTeams
      <4>2. f \in DOMAIN staff' \ Wanted(q)
        BY <2>2, <2>4, MutateWrites DEF SurplusStaff
      <4> QED
        BY <2>4, <4>1, <4>2, MutateWrites
    <3>3. ASSUME NEW t \in 1..r.teams, NEW m \in 1..r.size
          PROVE  staff'[<<t, m>>].active /\ r.skills \subseteq staff'[<<t, m>>].skills
      <4>1. <<t, m>> \in Wanted(q)
        BY DEF Wanted
      <4> QED
        BY <2>4, <4>1, MutateWrites DEF SkillsOf
    <3>4. ASSUME NEW t \in 1..r.teams PROVE vans'[t].active /\ vans'[t].seats >= r.size
      <4>1. SeatsOf(q, t) >= r.size
        BY <2>2 DEF SeatsOf, Larger
      <4> QED
        BY <2>4, <4>1, MutateWrites
    <3> QED
      BY <2>2, <3>1, <3>2, <3>3, <3>4
  <2> QED
    BY <2>1, <2>3, <2>4
<1> QED
  BY <1>1, <1>2

\* Whatever the capacity tool gives and takes away, the crews that live assignments
\* rely on stand, and the tool leaves what it promised.
THEOREM LiveCrewsAlwaysStand == Spec => LiveCrewsStand
<1>1. CapacityInv /\ CapacityInv' /\ [Next]_<<catalogue, workforce, capacity>> =>
        [/\ \A a \in live' : Stands(a)'
         /\ \A q \in Request : jobs[q].stage = "locked" /\ jobs'[q].stage = "done" =>
              /\ \A a \in live : vans[a.van] = jobs[q].vans[a.van] /\ Seated(a) => Seated(a)'
              /\ \A e, f \in SurplusStaff(q) : e[1] = f[1] /\ e \in BusyStaff => staff'[f] = staff[f]
              /\ DOMAIN jobs[q].staff = DOMAIN staff /\ DOMAIN jobs[q].vans = DOMAIN vans
              /\ (staff' # staff \/ vans' # vans) =>
                   \A t \in 1..jobs[q].teams :
                     /\ \A m \in 1..jobs[q].size :
                          staff'[<<t, m>>].active /\ jobs[q].skills \subseteq staff'[<<t, m>>].skills
                     /\ vans'[t].active /\ vans'[t].seats >= jobs[q].size]_capacity
  BY CrewsStandStep
<1> QED
  BY <1>1, CapacityStands, PTL DEF Spec, LiveCrewsStand

-----------------------------------------------------------------------------
(* The workforce.                                                          *)

Writing(q) == calls[q].stage = "people"

WorkforceTyped ==
  /\ DOMAIN calls = Request
  /\ DOMAIN employees \subseteq PersonId /\ DOMAIN vehicles \subseteq VehicleId
  /\ \A e \in DOMAIN employees : DOMAIN employees[e] = EmployeeFields
  /\ \A v \in DOMAIN vehicles : DOMAIN vehicles[v] = VehicleFields
  /\ grants \subseteq (DOMAIN employees) \X (DOMAIN vehicles)

\* Rows are locked by one call, and are on record or inserted by the call.
Own(q) == IF Writing(q) THEN DOMAIN calls[q].tx.employees \cup DOMAIN calls[q].tx.vehicles ELSE {}
LocksApart == \A p, q \in Request : p # q => calls[p].locks \cap calls[q].locks = {}
LocksKnown(q) == calls[q].locks \subseteq DOMAIN employees \cup DOMAIN vehicles \cup Own(q)

\* What was found under locks is so until the call writes.
GrantHolds(q) ==
  LET r == calls[q]
  IN  r.stage = "granted" =>
        /\ r.id \in DOMAIN employees /\ r.vehicle \in DOMAIN vehicles
        /\ employees[r.id].active /\ vehicles[r.vehicle].active
        /\ r.id \in r.locks /\ r.vehicle \in r.locks

AbsenceHolds(q) ==
  LET r == calls[q]
  IN  r.stage = "absent" =>
        r.id \in r.locks /\ \A a \in absences : a.who = r.id => ~Overlap(a.days, r.days)

ReadHolds(q) ==
  LET r == calls[q]
  IN  /\ r.stage \in {"matrix", "vehicles", "people"} => r.matrix \in Matrices
      /\ r.stage = "matrix" => r.people \subseteq DOMAIN employees
      /\ r.stage = "vehicles" => DOMAIN r.seen \subseteq DOMAIN vehicles \cap r.locks

\* What an open import has written is locked, and a row it found keeps its key.
RowsHold(q) ==
  LET tx == calls[q].tx
  IN  /\ DOMAIN tx.employees \subseteq PersonId /\ DOMAIN tx.vehicles \subseteq VehicleId
      /\ DOMAIN tx.employees \cup DOMAIN tx.vehicles \cup tx.gone \subseteq calls[q].locks
      /\ tx.gone \subseteq DOMAIN vehicles /\ tx.gone \cap DOMAIN tx.vehicles = {}
      /\ \A e \in DOMAIN tx.employees :
           /\ DOMAIN tx.employees[e] = EmployeeFields
           /\ e \in DOMAIN employees => employees[e].key = tx.employees[e].key
      /\ \A v \in DOMAIN tx.vehicles :
           DOMAIN tx.vehicles[v] = VehicleFields /\ tx.vehicles[v].code \in calls[q].matrix.codes
      /\ \A c \in calls[q].matrix.codes : \E v \in DOMAIN tx.vehicles : tx.vehicles[v].code = c

\* The authorizations it has deleted are on record yet, each for an alias or a
\* person it has written; it adds some to those persons and to drivers of aliases.
GrantsHold(q) ==
  LET tx == calls[q].tx
  IN  /\ tx.lost \subseteq grants
      /\ \A g \in tx.lost : g[2] \in tx.gone \/ g[1] \in DOMAIN tx.employees
      /\ tx.gained \subseteq (DOMAIN employees \cup DOMAIN tx.employees) \X DOMAIN tx.vehicles
      /\ \A g \in tx.gained : g[1] \in DOMAIN tx.employees \/ \E h \in tx.lost : h[1] = g[1] /\ h[2] \in tx.gone
      /\ \A g \in grants : g[2] \in tx.gone =>
           /\ g \in tx.lost
           /\ g[1] \in DOMAIN tx.employees \/ \E w \in DOMAIN tx.vehicles : <<g[1], w>> \in SeenGrants(q)

\* How many people of the matrix are written; each is on record as the matrix has it.
PeopleDone(q) == Len(calls[q].matrix.people) - Len(calls[q].rest)
AsTicked(q, e, p) ==
  LET row == calls[q].tx.employees[e]
  IN  /\ row.key = p.key /\ row.active /\ row.skills = p.skills
      /\ {g \in SeenGrants(q) : g[1] = e} = {<<e, v>> : v \in Ticked(q, p)}
PeopleHold(q) ==
  LET people == calls[q].matrix.people
      done == 1..PeopleDone(q)
  IN  /\ calls[q].rest \in Seq({people[i] : i \in DOMAIN people}) /\ Len(calls[q].rest) <= Len(people)
      /\ \A i \in 1..Len(calls[q].rest) : calls[q].rest[i] = people[PeopleDone(q) + i]
      /\ \A i \in done : \E e \in DOMAIN calls[q].tx.employees : AsTicked(q, e, people[i])
      /\ \A e \in DOMAIN calls[q].tx.employees : \E i \in done : AsTicked(q, e, people[i])

LostApart == \A p, q \in Request : p # q /\ Writing(p) /\ Writing(q) => calls[p].tx.lost \cap calls[q].tx.lost = {}

CallHolds(q) ==
  /\ LocksKnown(q) /\ GrantHolds(q) /\ AbsenceHolds(q) /\ ReadHolds(q)
  /\ Writing(q) => RowsHold(q) /\ GrantsHold(q) /\ PeopleHold(q)

WorkforceInv ==
  /\ WorkforceTyped /\ LocksApart /\ LostApart /\ AbsencesDisjoint
  /\ \A q \in Request : CallHolds(q)

LEMMA WorkforceStarts == Init => WorkforceInv
<1> SUFFICES ASSUME Init PROVE WorkforceInv
  OBVIOUS
<1>1. CASE WorkforceInit
  <2>1. PICK r \in Rosters : employees = r.employees /\ vehicles = r.vehicles /\ grants = r.grants /\ absences = {}
    BY <1>1 DEF WorkforceInit
  <2>2. calls = [q \in Request |-> Waiting]
    BY <1>1 DEF WorkforceInit
  <2>3. WorkforceTyped
    BY <2>1, <2>2, WorkforceAssumption DEF WorkforceTyped
  <2>4. \A q \in Request : calls[q].stage = "unsent" /\ calls[q].locks = {}
    BY <2>2 DEF Waiting
  <2> QED
    BY <2>1, <2>3, <2>4 DEF WorkforceInv, LocksApart, LostApart, AbsencesDisjoint, CallHolds, LocksKnown, GrantHolds,
       AbsenceHolds, ReadHolds, Writing
<1>2. CASE NoWorkforce
  <2>1. DOMAIN employees = {} /\ DOMAIN vehicles = {} /\ grants = {} /\ absences = {}
    BY <1>2 DEF NoWorkforce
  <2>2. calls = [q \in Request |-> Over]
    BY <1>2 DEF NoWorkforce
  <2>3. WorkforceTyped
    BY <2>1, <2>2 DEF WorkforceTyped
  <2>4. \A q \in Request : calls[q].stage = "done" /\ calls[q].locks = {}
    BY <2>2 DEF Over
  <2> QED
    BY <2>1, <2>3, <2>4 DEF WorkforceInv, LocksApart, LostApart, AbsencesDisjoint, CallHolds, LocksKnown, GrantHolds,
       AbsenceHolds, ReadHolds, Writing
<1> QED
  BY <1>1, <1>2 DEF Init

\* What a step leaves alone for a call that did not take it: the rows it has
\* locked, and of an open import the authorizations it has deleted, those of the
\* people it has written and those of drivers of its aliases for its vehicles.
SparesGrants(q) ==
  LET tx == calls[q].tx
  IN  /\ tx.lost \subseteq grants'
      /\ \A g \in grants' \ grants : g[2] \notin calls[q].locks /\ g[1] \notin DOMAIN tx.employees
      /\ \A g \in grants \ grants' :
           /\ g[1] \notin DOMAIN tx.employees
           /\ g[2] \in DOMAIN tx.vehicles => \A h \in tx.lost : h[1] = g[1] => h[2] \notin tx.gone

Spares(q) ==
  /\ calls'[q] = calls[q]
  /\ DOMAIN employees \subseteq DOMAIN employees'
  /\ \A e \in DOMAIN employees' : e \in calls[q].locks =>
       /\ e \in DOMAIN employees
       /\ employees'[e].key = employees[e].key /\ employees'[e].active = employees[e].active
  /\ \A v \in DOMAIN vehicles \cap calls[q].locks : v \in DOMAIN vehicles' /\ vehicles'[v].active = vehicles[v].active
  /\ \A a \in absences' \ absences : a.who \notin calls[q].locks
  /\ Writing(q) => SparesGrants(q)

LEMMA SparedHolds ==
  ASSUME WorkforceInv, NEW q \in Request, Spares(q)
  PROVE  CallHolds(q)'
<1> DEFINE r == calls[q]
           tx == calls[q].tx
<1>0. CallHolds(q) /\ calls'[q] = calls[q]
  BY DEF WorkforceInv, Spares
<1>1. LocksKnown(q)'
  BY <1>0 DEF Spares, CallHolds, LocksKnown, Own, Writing
<1>2. GrantHolds(q)'
  BY <1>0 DEF Spares, CallHolds, GrantHolds
<1>3. AbsenceHolds(q)'
  BY <1>0 DEF Spares, CallHolds, AbsenceHolds
<1>4. ReadHolds(q)'
  BY <1>0 DEF Spares, CallHolds, ReadHolds
<1>5. ASSUME Writing(q) PROVE RowsHold(q)' /\ GrantsHold(q)' /\ PeopleHold(q)'
  <2>0. RowsHold(q) /\ GrantsHold(q) /\ PeopleHold(q) /\ SparesGrants(q)
    BY <1>0, <1>5 DEF Spares, CallHolds
  <2>1. DOMAIN tx.employees \cup DOMAIN tx.vehicles \cup tx.gone \subseteq r.locks
    BY <2>0 DEF RowsHold
  <2>2. RowsHold(q)'
    <3>1. tx.gone \subseteq DOMAIN vehicles'
      BY <2>0, <2>1 DEF RowsHold, Spares
    <3>2. \A e \in DOMAIN tx.employees : e \in DOMAIN employees' => employees'[e].key = tx.employees[e].key
      BY <2>0, <2>1 DEF RowsHold, Spares
    <3> QED
      BY <1>0, <2>0, <3>1, <3>2 DEF RowsHold
  <2>3. SeenGrants(q)' = (grants' \ tx.lost) \cup tx.gained
    BY <1>0 DEF SeenGrants
  <2>4. GrantsHold(q)'
    <3>1. tx.lost \subseteq grants' /\ tx.gained \subseteq (DOMAIN employees' \cup DOMAIN tx.employees) \X DOMAIN tx.vehicles
      BY <2>0 DEF GrantsHold, SparesGrants, Spares
    <3>2. ASSUME NEW g \in grants', g[2] \in tx.gone
          PROVE  /\ g \in tx.lost
                 /\ g[1] \in DOMAIN tx.employees \/ \E w \in DOMAIN tx.vehicles : <<g[1], w>> \in SeenGrants(q)'
      <4>1. g \in grants
        BY <2>0, <2>1, <3>2 DEF SparesGrants
      <4>2. g \in tx.lost
        BY <2>0, <3>2, <4>1 DEF GrantsHold
      <4>3. ASSUME NEW w \in DOMAIN tx.vehicles, <<g[1], w>> \in SeenGrants(q) PROVE <<g[1], w>> \in SeenGrants(q)'
        <5>1. CASE <<g[1], w>> \in tx.gained
          BY <2>3, <5>1
        <5>2. CASE <<g[1], w>> \in grants \ tx.lost
          <6>1. <<g[1], w>> \in grants'
            <7> DEFINE k == <<g[1], w>>
            <7>1. k[1] = g[1] /\ k[2] = w /\ k \in grants
              BY <5>2
            <7> HIDE DEF k
            <7>2. k \in grants'
              BY <2>0, <3>2, <4>2, <7>1 DEF SparesGrants
            <7> QED
              BY <7>2 DEF k
          <6> QED
            BY <2>3, <5>2, <6>1
        <5> QED
          BY <4>3, <5>1, <5>2 DEF SeenGrants
      <4> QED
        BY <2>0, <3>2, <4>1, <4>2, <4>3 DEF GrantsHold
    <3> QED
      BY <1>0, <2>0, <3>1, <3>2 DEF GrantsHold
  <2>5. \A e \in DOMAIN tx.employees : {g \in SeenGrants(q)' : g[1] = e} = {g \in SeenGrants(q) : g[1] = e}
    BY <2>0, <2>3 DEF SparesGrants, SeenGrants
  <2>6. \A e \in DOMAIN tx.employees : \A p : AsTicked(q, e, p) <=> AsTicked(q, e, p)'
    BY <1>0, <2>5 DEF AsTicked, Ticked
  <2>7. PeopleHold(q)'
    BY <1>0, <2>0, <2>6 DEF PeopleHold, PeopleDone
  <2> QED
    BY <2>2, <2>4, <2>7
<1> QED
  BY <1>0, <1>1, <1>2, <1>3, <1>4, <1>5 DEF CallHolds, Writing

\* A step that spares the other calls owes only what its own call leaves.
LEMMA OthersSpared ==
  ASSUME WorkforceInv, NEW o \in Request, \A q \in Request \ {o} : Spares(q),
         WorkforceTyped', AbsencesDisjoint', CallHolds(o)',
         \A q \in Request \ {o} : calls'[o].locks \cap calls[q].locks = {},
         Writing(o)' => \A q \in Request \ {o} : Writing(q) => calls'[o].tx.lost \cap calls[q].tx.lost = {}
  PROVE  WorkforceInv'
<1>1. \A q \in Request \ {o} : calls'[q] = calls[q]
  BY DEF Spares
<1>2. \A q \in Request : CallHolds(q)'
  BY SparedHolds
<1>3. LocksApart'
  BY <1>1 DEF WorkforceInv, LocksApart
<1>4. LostApart'
  BY <1>1 DEF WorkforceInv, LostApart, Writing
<1> QED
  BY <1>2, <1>3, <1>4 DEF WorkforceInv

\* A step that writes no table.
LEMMA OnlyItsCall ==
  ASSUME WorkforceInv, NEW o \in Request, UNCHANGED <<employees, vehicles, grants, absences>>,
         DOMAIN calls' = Request, \A q \in Request \ {o} : calls'[q] = calls[q], CallHolds(o)',
         \A q \in Request \ {o} : calls'[o].locks \cap calls[q].locks = {},
         Writing(o)' => \A q \in Request \ {o} : Writing(q) => calls'[o].tx.lost \cap calls[q].tx.lost = {}
  PROVE  WorkforceInv'
<1>1. ASSUME NEW q \in Request \ {o} PROVE Spares(q)
  <2>1. Writing(q) => calls[q].tx.lost \subseteq grants
    BY DEF WorkforceInv, CallHolds, GrantsHold
  <2> QED
    BY <2>1 DEF Spares, SparesGrants
<1>2. WorkforceTyped' /\ AbsencesDisjoint'
  BY DEF WorkforceInv, WorkforceTyped, AbsencesDisjoint
<1> QED
  BY <1>1, <1>2, OthersSpared

\* A step that ends its call.
LEMMA CallEnds ==
  ASSUME WorkforceInv, NEW o \in Request, \A q \in Request \ {o} : Spares(q),
         WorkforceTyped', AbsencesDisjoint', calls'[o].stage = "done", calls'[o].locks = {}
  PROVE  WorkforceInv'
<1>1. CallHolds(o)' /\ ~Writing(o)'
  BY DEF CallHolds, LocksKnown, GrantHolds, AbsenceHolds, ReadHolds, Writing
<1> QED
  BY <1>1, OthersSpared

LEMMA EndWrites ==
  ASSUME WorkforceInv, NEW o \in Request, End(o)
  PROVE  /\ DOMAIN calls' = Request /\ \A q \in Request \ {o} : calls'[q] = calls[q]
         /\ calls'[o].stage = "done" /\ calls'[o].locks = {}
  BY DEF End, Over, WorkforceInv, WorkforceTyped

LEMMA QuietEnd ==
  ASSUME WorkforceInv, NEW o \in Request, End(o), UNCHANGED <<employees, vehicles, grants, absences>>
  PROVE  WorkforceInv'
<1>1. /\ DOMAIN calls' = Request /\ \A q \in Request \ {o} : calls'[q] = calls[q]
      /\ calls'[o].stage = "done" /\ calls'[o].locks = {}
  BY EndWrites
<1>2. CallHolds(o)' /\ ~Writing(o)'
  BY <1>1 DEF CallHolds, LocksKnown, GrantHolds, AbsenceHolds, ReadHolds, Writing
<1> QED
  BY <1>1, <1>2, OnlyItsCall

\* An employee nobody else has locked is written, or one is added that no call knows of.
LEMMA EmployeeWritten ==
  ASSUME WorkforceInv, NEW o \in Request, End(o), UNCHANGED <<vehicles, grants, absences>>,
         DOMAIN employees \subseteq DOMAIN employees', DOMAIN employees' \subseteq PersonId,
         \A e \in DOMAIN employees' : DOMAIN employees'[e] = EmployeeFields,
         \A e \in DOMAIN employees' : \A q \in Request \ {o} : e \in calls[q].locks =>
            /\ e \in DOMAIN employees
            /\ employees'[e].key = employees[e].key /\ employees'[e].active = employees[e].active
  PROVE  WorkforceInv'
<1>1. /\ DOMAIN calls' = Request /\ \A q \in Request \ {o} : calls'[q] = calls[q]
      /\ calls'[o].stage = "done" /\ calls'[o].locks = {}
  BY EndWrites
<1>2. ASSUME NEW q \in Request \ {o} PROVE Spares(q)
  <2>1. Writing(q) => calls[q].tx.lost \subseteq grants
    BY DEF WorkforceInv, CallHolds, GrantsHold
  <2> QED
    BY <1>1, <2>1 DEF Spares, SparesGrants
<1>3. WorkforceTyped' /\ AbsencesDisjoint'
  BY <1>1 DEF WorkforceInv, WorkforceTyped, AbsencesDisjoint
<1> QED
  BY <1>1, <1>2, <1>3, CallEnds

LEMMA CreateEmployeeStands ==
  ASSUME WorkforceInv, NEW o \in Request, CreateEmployee(o)
  PROVE  WorkforceInv'
<1>1. PICK key \in Key, stationed \in BOOLEAN, site \in Station \cup {None},
          id \in Fresh(PersonId, DOMAIN employees \cup Inserted("employees")) :
        employees' = Upserted(employees, Single(id, [key |-> key, branch |-> key.branch,
              stationed |-> stationed, site |-> site, active |-> TRUE, skills |-> {}]))
  BY DEF CreateEmployee
<1>2. id \in PersonId /\ id \notin DOMAIN employees /\ id \notin Inserted("employees")
  BY DEF Fresh
<1>3. /\ DOMAIN employees' = {id} \cup DOMAIN employees
      /\ DOMAIN employees'[id] = EmployeeFields
      /\ \A e \in DOMAIN employees : employees'[e] = employees[e]
  BY <1>1, <1>2 DEF Upserted, Single, EmployeeFields
<1>4. ASSUME NEW q \in Request PROVE id \notin calls[q].locks
  <2>1. id \notin DOMAIN vehicles
    BY <1>2, WorkforceAssumption DEF WorkforceInv, WorkforceTyped
  <2>2. id \notin Own(q)
    <3>1. Writing(q) => id \notin DOMAIN calls[q].tx.employees
      BY <1>2 DEF Inserted, Writing
    <3>2. Writing(q) => id \notin DOMAIN calls[q].tx.vehicles
      BY <1>2, WorkforceAssumption DEF WorkforceInv, CallHolds, RowsHold
    <3> QED
      BY <3>1, <3>2 DEF Own
  <2> QED
    BY <1>2, <2>1, <2>2 DEF WorkforceInv, CallHolds, LocksKnown
<1>5. End(o) /\ UNCHANGED <<vehicles, grants, absences>>
  BY DEF CreateEmployee
<1> QED
  BY <1>2, <1>3, <1>4, <1>5, EmployeeWritten DEF WorkforceInv, WorkforceTyped

LEMMA EmployeeEditsStand ==
  ASSUME WorkforceInv, NEW o \in Request,
         Update(o) \/ SetEmployeeActive(o) \/ SetPermanentAssignment(o) \/ ReplaceSkills(o)
  PROVE  WorkforceInv'
<1>1. End(o) /\ UNCHANGED <<vehicles, grants, absences>>
  BY DEF Update, SetEmployeeActive, SetPermanentAssignment, ReplaceSkills
<1>2. \A e \in DOMAIN employees : DOMAIN employees[e] = EmployeeFields
  BY DEF WorkforceInv, WorkforceTyped
<1>3. PICK e :
        /\ Free(o, e) /\ DOMAIN employees' = DOMAIN employees
        /\ \A d \in DOMAIN employees : DOMAIN employees'[d] = EmployeeFields /\ (d # e => employees'[d] = employees[d])
  <2>1. CASE Update(o)
    <3>1. employees' = [employees EXCEPT ![calls[o].id] = Filled(employees[calls[o].id], calls[o].form)] /\ Free(o, calls[o].id)
      BY <2>1 DEF Update
    <3>2. \A row, form : DOMAIN row = EmployeeFields => DOMAIN Filled(row, form) = EmployeeFields
      BY DEF Filled
    <3> QED
      BY <1>2, <3>1, <3>2
  <2>2. CASE SetEmployeeActive(o)
    BY <1>2, <2>2 DEF SetEmployeeActive
  <2>3. CASE SetPermanentAssignment(o)
    <3>1. PICK e \in DOMAIN employees, site \in Station \cup {None} :
            Free(o, e) /\ employees' = [employees EXCEPT ![e].site = site, ![e].stationed = (site # None)]
      BY <2>3 DEF SetPermanentAssignment
    <3>2. DOMAIN employees' = DOMAIN employees /\ \A d \in DOMAIN employees \ {e} : employees'[d] = employees[d]
      BY <3>1
    <3>3. DOMAIN employees'[e] = DOMAIN employees[e]
      BY <3>1
    <3> QED
      BY <1>2, <3>1, <3>2, <3>3
  <2>4. CASE ReplaceSkills(o)
    BY <1>2, <2>4 DEF ReplaceSkills
  <2> QED
    BY <2>1, <2>2, <2>3, <2>4
<1>4. \A q \in Request \ {o} : e \notin calls[q].locks
  BY <1>3 DEF Free
<1> QED
  BY <1>1, <1>3, <1>4, EmployeeWritten DEF WorkforceInv, WorkforceTyped

LEMMA BeginStands ==
  ASSUME WorkforceInv, NEW o \in Request, BeginUpdate(o) \/ BeginGrant(o)
  PROVE  WorkforceInv'
<1>1. UNCHANGED <<employees, vehicles, grants, absences>>
  BY DEF BeginUpdate, BeginGrant
<1>2. CASE End(o)
  BY <1>1, <1>2, QuietEnd
<1>3. CASE ~End(o)
  <2>1. /\ DOMAIN calls' = Request /\ \A q \in Request \ {o} : calls'[q] = calls[q]
        /\ calls'[o].stage \in {"update", "grant"} /\ calls'[o].locks = {}
    BY <1>3 DEF BeginUpdate, BeginGrant, WorkforceInv, WorkforceTyped
  <2>2. CallHolds(o)' /\ ~Writing(o)'
    BY <2>1 DEF CallHolds, LocksKnown, GrantHolds, AbsenceHolds, ReadHolds, Writing
  <2> QED
    BY <1>1, <2>1, <2>2, OnlyItsCall
<1> QED
  BY <1>2, <1>3

LEMMA CheckGrantStands ==
  ASSUME WorkforceInv, NEW o \in Request, CheckGrant(o)
  PROVE  WorkforceInv'
<1> DEFINE r == calls[o]
<1>1. UNCHANGED <<employees, vehicles, grants, absences>> /\ \A row \in {r.id, r.vehicle} : Free(o, row)
  BY DEF CheckGrant, GrantLocks
<1>2. CASE End(o)
  BY <1>1, <1>2, QuietEnd
<1>3. CASE ~End(o)
  <2>1. /\ MayDrive(r.id, r.vehicle)
        /\ calls' = [calls EXCEPT ![o] = [stage |-> "granted", locks |-> {r.id, r.vehicle},
                                          id |-> r.id, vehicle |-> r.vehicle]]
    BY <1>3 DEF CheckGrant, GrantLocks
  <2>2. /\ DOMAIN calls' = Request /\ \A q \in Request \ {o} : calls'[q] = calls[q]
        /\ calls'[o].stage = "granted" /\ calls'[o].locks = {r.id, r.vehicle}
        /\ calls'[o].id = r.id /\ calls'[o].vehicle = r.vehicle
    BY <2>1 DEF WorkforceInv, WorkforceTyped
  <2>3. CallHolds(o)' /\ ~Writing(o)'
    BY <1>1, <2>1, <2>2 DEF CallHolds, LocksKnown, GrantHolds, AbsenceHolds, ReadHolds, Writing, MayDrive
  <2>4. \A q \in Request \ {o} : calls'[o].locks \cap calls[q].locks = {}
    BY <1>1, <2>2 DEF Free
  <2> QED
    BY <1>1, <2>2, <2>3, <2>4, OnlyItsCall
<1> QED
  BY <1>2, <1>3

\* The authorizations a manager gives or takes are of nobody another call has locked.
LEMMA GrantStepsStand ==
  ASSUME WorkforceInv, NEW o \in Request, Grant(o) \/ RevokeVehicle(o)
  PROVE  WorkforceInv'
<1>1. End(o) /\ UNCHANGED <<employees, vehicles, absences>>
  BY DEF Grant, RevokeVehicle
<1>2. /\ DOMAIN calls' = Request /\ \A q \in Request \ {o} : calls'[q] = calls[q]
      /\ calls'[o].stage = "done" /\ calls'[o].locks = {}
  BY <1>1, EndWrites
<1>3. PICK g \in (DOMAIN employees) \X (DOMAIN vehicles) :
        /\ Free(o, g[1]) /\ Free(o, g[2])
        /\ grants' = grants \cup {g} \/ (g \in grants /\ grants' = grants \ {g})
  <2>1. CASE Grant(o)
    <3> DEFINE g == <<calls[o].id, calls[o].vehicle>>
    <3>1. grants' = grants \cup {g} /\ calls[o].stage = "granted"
      BY <2>1 DEF Grant
    <3>2. /\ calls[o].id \in DOMAIN employees /\ calls[o].vehicle \in DOMAIN vehicles
          /\ calls[o].id \in calls[o].locks /\ calls[o].vehicle \in calls[o].locks
      BY <3>1 DEF WorkforceInv, CallHolds, GrantHolds
    <3>3. Free(o, calls[o].id) /\ Free(o, calls[o].vehicle)
      BY <3>2 DEF Free, WorkforceInv, LocksApart
    <3> QED
      BY <3>1, <3>2, <3>3
  <2>2. CASE RevokeVehicle(o)
    BY <2>2 DEF RevokeVehicle, WorkforceInv, WorkforceTyped
  <2> QED
    BY <2>1, <2>2
<1>4. ASSUME NEW q \in Request \ {o} PROVE Spares(q)
  <2>1. g[1] \notin calls[q].locks /\ g[2] \notin calls[q].locks
    BY <1>3 DEF Free
  <2>2. ASSUME Writing(q) PROVE SparesGrants(q)
    <3>1. DOMAIN calls[q].tx.employees \cup DOMAIN calls[q].tx.vehicles \cup calls[q].tx.gone \subseteq calls[q].locks
      BY <2>2 DEF WorkforceInv, CallHolds, RowsHold
    <3>2. g \notin calls[q].tx.lost /\ calls[q].tx.lost \subseteq grants
      BY <2>1, <2>2, <3>1 DEF WorkforceInv, CallHolds, GrantsHold
    <3> QED
      BY <1>3, <2>1, <3>1, <3>2 DEF SparesGrants
  <2> QED
    BY <1>1, <1>2, <2>2 DEF Spares
<1>5. WorkforceTyped' /\ AbsencesDisjoint'
  BY <1>1, <1>2, <1>3 DEF WorkforceInv, WorkforceTyped, AbsencesDisjoint
<1> QED
  BY <1>2, <1>4, <1>5, CallEnds

LEMMA CheckAbsenceStands ==
  ASSUME WorkforceInv, NEW o \in Request, CheckAbsence(o)
  PROVE  WorkforceInv'
<1>1. UNCHANGED <<employees, vehicles, grants, absences>>
  BY DEF CheckAbsence
<1>2. CASE End(o)
  BY <1>1, <1>2, QuietEnd
<1>3. CASE ~End(o)
  <2>1. PICK e \in DOMAIN employees, days \in Leave :
          /\ Free(o, e) /\ ~ \E a \in absences : a.who = e /\ Overlap(a.days, days)
          /\ calls' = [calls EXCEPT ![o] = [stage |-> "absent", locks |-> {e}, id |-> e, days |-> days]]
    BY <1>3 DEF CheckAbsence, AbsenceLocks
  <2>2. /\ DOMAIN calls' = Request /\ \A q \in Request \ {o} : calls'[q] = calls[q]
        /\ calls'[o].stage = "absent" /\ calls'[o].locks = {e} /\ calls'[o].id = e /\ calls'[o].days = days
    BY <2>1 DEF WorkforceInv, WorkforceTyped
  <2>3. CallHolds(o)' /\ ~Writing(o)'
    BY <1>1, <2>1, <2>2 DEF CallHolds, LocksKnown, GrantHolds, AbsenceHolds, ReadHolds, Writing
  <2>4. \A q \in Request \ {o} : calls'[o].locks \cap calls[q].locks = {}
    BY <2>1, <2>2 DEF Free
  <2> QED
    BY <1>1, <2>2, <2>3, <2>4, OnlyItsCall
<1> QED
  BY <1>2, <1>3

LEMMA AbsenceStepsStand ==
  ASSUME WorkforceInv, NEW o \in Request, AddAvailability(o) \/ RemoveAvailability(o)
  PROVE  WorkforceInv'
<1>1. End(o) /\ UNCHANGED <<employees, vehicles, grants>>
  BY DEF AddAvailability, RemoveAvailability
<1>2. /\ DOMAIN calls' = Request /\ \A q \in Request \ {o} : calls'[q] = calls[q]
      /\ calls'[o].stage = "done" /\ calls'[o].locks = {}
  BY <1>1, EndWrites
<1>3. AbsencesDisjoint' /\ \A q \in Request \ {o} : \A a \in absences' \ absences : a.who \notin calls[q].locks
  <2>1. CASE AddAvailability(o)
    <3> DEFINE new == [id |-> o, who |-> calls[o].id, days |-> calls[o].days]
    <3>1. absences' = absences \cup {new} /\ calls[o].stage = "absent"
      BY <2>1 DEF AddAvailability
    <3>2. /\ calls[o].id \in calls[o].locks
          /\ \A a \in absences : a.who = new.who => ~Overlap(a.days, new.days) /\ ~Overlap(new.days, a.days)
      BY <3>1 DEF WorkforceInv, CallHolds, AbsenceHolds, Overlap
    <3>3. AbsencesDisjoint'
      <4> HIDE DEF new
      <4> QED
        BY <3>1, <3>2 DEF WorkforceInv, AbsencesDisjoint
    <3>4. \A q \in Request \ {o} : new.who \notin calls[q].locks
      BY <3>2 DEF WorkforceInv, LocksApart
    <3> QED
      BY <3>1, <3>3, <3>4
  <2>2. CASE RemoveAvailability(o)
    BY <2>2 DEF RemoveAvailability, WorkforceInv, AbsencesDisjoint
  <2> QED
    BY <2>1, <2>2
<1>4. ASSUME NEW q \in Request \ {o} PROVE Spares(q)
  <2>1. Writing(q) => calls[q].tx.lost \subseteq grants
    BY DEF WorkforceInv, CallHolds, GrantsHold
  <2> QED
    BY <1>1, <1>2, <1>3, <2>1 DEF Spares, SparesGrants
<1>5. WorkforceTyped'
  BY <1>1, <1>2 DEF WorkforceInv, WorkforceTyped
<1> QED
  BY <1>2, <1>3, <1>4, <1>5, CallEnds

LEMMA VehicleStepsStand ==
  ASSUME WorkforceInv, NEW o \in Request, CreateVehicle(o) \/ UpdateVehicle(o) \/ SetVehicleActive(o)
  PROVE  WorkforceInv'
<1>1. End(o) /\ UNCHANGED <<employees, grants, absences>>
  BY DEF CreateVehicle, UpdateVehicle, SetVehicleActive
<1>2. /\ DOMAIN calls' = Request /\ \A q \in Request \ {o} : calls'[q] = calls[q]
      /\ calls'[o].stage = "done" /\ calls'[o].locks = {}
  BY <1>1, EndWrites
<1>3. \A v \in DOMAIN vehicles : DOMAIN vehicles[v] = VehicleFields
  BY DEF WorkforceInv, WorkforceTyped
<1>4. /\ DOMAIN vehicles \subseteq DOMAIN vehicles' /\ DOMAIN vehicles' \subseteq VehicleId
      /\ \A v \in DOMAIN vehicles' : DOMAIN vehicles'[v] = VehicleFields
      /\ \A v \in DOMAIN vehicles : vehicles'[v].active = vehicles[v].active \/ Free(o, v)
  <2>1. CASE CreateVehicle(o)
    <3>1. PICK code \in Code, id \in Fresh(VehicleId, DOMAIN vehicles \cup Inserted("vehicles")) :
            vehicles' = Upserted(vehicles, Single(id, [code |-> code, active |-> TRUE]))
      BY <2>1 DEF CreateVehicle
    <3>2. id \in VehicleId /\ id \notin DOMAIN vehicles
      BY DEF Fresh
    <3>3. /\ DOMAIN vehicles' = {id} \cup DOMAIN vehicles /\ DOMAIN vehicles'[id] = VehicleFields
          /\ \A v \in DOMAIN vehicles : vehicles'[v] = vehicles[v]
      BY <3>1, <3>2 DEF Upserted, Single, VehicleFields
    <3> QED
      BY <1>3, <3>2, <3>3 DEF WorkforceInv, WorkforceTyped
  <2>2. CASE UpdateVehicle(o)
    <3>1. PICK v \in DOMAIN vehicles, code \in Code : Free(o, v) /\ vehicles' = [vehicles EXCEPT ![v].code = code]
      BY <2>2 DEF UpdateVehicle
    <3> QED
      BY <1>3, <3>1 DEF WorkforceInv, WorkforceTyped
  <2>3. CASE SetVehicleActive(o)
    <3>1. PICK v \in DOMAIN vehicles, active \in BOOLEAN : Free(o, v) /\ vehicles' = [vehicles EXCEPT ![v].active = active]
      BY <2>3 DEF SetVehicleActive
    <3> QED
      BY <1>3, <3>1 DEF WorkforceInv, WorkforceTyped
  <2> QED
    BY <2>1, <2>2, <2>3
<1>5. ASSUME NEW q \in Request \ {o} PROVE Spares(q)
  <2>1. Writing(q) => calls[q].tx.lost \subseteq grants
    BY DEF WorkforceInv, CallHolds, GrantsHold
  <2> QED
    BY <1>1, <1>2, <1>4, <2>1 DEF Spares, SparesGrants, Free
<1>6. WorkforceTyped' /\ AbsencesDisjoint'
  BY <1>1, <1>2, <1>4 DEF WorkforceInv, WorkforceTyped, AbsencesDisjoint
<1> QED
  BY <1>2, <1>5, <1>6, CallEnds

-----------------------------------------------------------------------------
(* The import of a matrix.                                                 *)

LEMMA NewRowsUnlocked ==
  ASSUME WorkforceInv, NEW q \in Request
  PROVE  /\ \A id \in Fresh(PersonId, DOMAIN employees \cup Inserted("employees")) :
              id \in PersonId /\ id \notin DOMAIN employees /\ id \notin calls[q].locks
         /\ \A id \in Fresh(VehicleId, DOMAIN vehicles \cup Inserted("vehicles")) :
              id \in VehicleId /\ id \notin DOMAIN vehicles /\ id \notin calls[q].locks
<1>1. /\ calls[q].locks \subseteq DOMAIN employees \cup DOMAIN vehicles \cup Own(q)
      /\ DOMAIN employees \subseteq PersonId /\ DOMAIN vehicles \subseteq VehicleId
  BY DEF WorkforceInv, WorkforceTyped, CallHolds, LocksKnown
<1>2. Writing(q) => DOMAIN calls[q].tx.employees \subseteq PersonId /\ DOMAIN calls[q].tx.vehicles \subseteq VehicleId
  BY DEF WorkforceInv, CallHolds, RowsHold
<1>3. ASSUME NEW id \in Fresh(PersonId, DOMAIN employees \cup Inserted("employees"))
      PROVE  id \in PersonId /\ id \notin DOMAIN employees /\ id \notin calls[q].locks
  <2>1. id \in PersonId /\ id \notin DOMAIN employees /\ id \notin Inserted("employees")
    BY DEF Fresh
  <2>2. Writing(q) => id \notin DOMAIN calls[q].tx.employees
    BY <2>1 DEF Inserted, Writing
  <2> QED
    BY <1>1, <1>2, <2>1, <2>2, WorkforceAssumption DEF Own
<1>4. ASSUME NEW id \in Fresh(VehicleId, DOMAIN vehicles \cup Inserted("vehicles"))
      PROVE  id \in VehicleId /\ id \notin DOMAIN vehicles /\ id \notin calls[q].locks
  <2>1. id \in VehicleId /\ id \notin DOMAIN vehicles /\ id \notin Inserted("vehicles")
    BY DEF Fresh
  <2>2. Writing(q) => id \notin DOMAIN calls[q].tx.vehicles
    BY <2>1 DEF Inserted, Writing
  <2> QED
    BY <1>1, <1>2, <2>1, <2>2, WorkforceAssumption DEF Own
<1> QED
  BY <1>3, <1>4

LEMMA ReadingStands ==
  ASSUME WorkforceInv, NEW o \in Request, BeginMatrix(o) \/ LockMatrix(o) \/ FailMatrix(o)
  PROVE  WorkforceInv'
<1> DEFINE r == calls[o]
<1>1. UNCHANGED <<employees, vehicles, grants, absences>>
  BY DEF BeginMatrix, LockMatrix, FailMatrix
<1>2. DOMAIN calls' = Request /\ \A q \in Request \ {o} : calls'[q] = calls[q]
  <2>1. DOMAIN calls = Request
    BY DEF WorkforceInv, WorkforceTyped
  <2>2. CASE BeginMatrix(o)
    BY <2>1, <2>2 DEF BeginMatrix
  <2>3. CASE LockMatrix(o)
    BY <2>1, <2>3 DEF LockMatrix
  <2>4. CASE FailMatrix(o)
    BY <2>1, <2>4 DEF FailMatrix
  <2> QED
    BY <2>2, <2>3, <2>4
<1>3. CASE BeginMatrix(o)
  <2>1. /\ calls'[o].stage = "matrix" /\ calls'[o].locks = {} /\ calls'[o].matrix \in Matrices
        /\ calls'[o].people \subseteq DOMAIN employees
    <3>1. PICK call : /\ call.stage = "matrix" /\ call.locks = {} /\ call.matrix \in Matrices
                      /\ call.people \subseteq DOMAIN employees
                      /\ calls' = [calls EXCEPT ![o] = call]
      BY <1>3 DEF BeginMatrix
    <3>2. o \in DOMAIN calls
      BY DEF WorkforceInv, WorkforceTyped
    <3>3. calls'[o] = call
      BY <3>1, <3>2
    <3>4. QED
      BY <3>1, <3>3
  <2>2. CallHolds(o)' /\ ~Writing(o)'
    <3>1. ~Writing(o)'
      BY <2>1 DEF Writing
    <3>2. LocksKnown(o)'
      BY <2>1 DEF LocksKnown
    <3>3. GrantHolds(o)' /\ AbsenceHolds(o)'
      BY <2>1 DEF GrantHolds, AbsenceHolds
    <3>4. ReadHolds(o)'
      BY <1>1, <2>1 DEF ReadHolds
    <3> QED
      BY <3>1, <3>2, <3>3, <3>4 DEF CallHolds
  <2> QED
    BY <1>1, <1>2, <2>1, <2>2, OnlyItsCall
<1>4. CASE FailMatrix(o)
  <2>1. calls'[o].stage = "done" /\ calls'[o].locks = {}
    BY <1>4 DEF FailMatrix, Closed, WorkforceInv, WorkforceTyped
  <2>2. CallHolds(o)' /\ ~Writing(o)'
    BY <2>1 DEF CallHolds, LocksKnown, GrantHolds, AbsenceHolds, ReadHolds, Writing
  <2> QED
    BY <1>1, <1>2, <2>1, <2>2, OnlyItsCall
<1>5. CASE LockMatrix(o) /\ ~(DOMAIN r.seen \subseteq DOMAIN vehicles)
  <2>1. calls'[o].stage = "done" /\ calls'[o].locks = {}
    BY <1>5 DEF LockMatrix, Over, WorkforceInv, WorkforceTyped
  <2>2. CallHolds(o)' /\ ~Writing(o)'
    BY <2>1 DEF CallHolds, LocksKnown, GrantHolds, AbsenceHolds, ReadHolds, Writing
  <2> QED
    BY <1>1, <1>2, <2>1, <2>2, OnlyItsCall
<1>6. CASE LockMatrix(o) /\ DOMAIN r.seen \subseteq DOMAIN vehicles
  <2>1. /\ r.stage = "matrix" /\ calls'[o].stage = "vehicles" /\ calls'[o].locks = r.people \cup DOMAIN r.seen
        /\ calls'[o].matrix = r.matrix /\ calls'[o].seen = r.seen
        /\ \A row \in r.people \cup DOMAIN r.seen : Free(o, row)
    BY <1>6 DEF LockMatrix, MatrixLocks, WorkforceInv, WorkforceTyped
  <2>2. r.matrix \in Matrices /\ r.people \subseteq DOMAIN employees
    BY <2>1 DEF WorkforceInv, CallHolds, ReadHolds
  <2>3. CallHolds(o)' /\ ~Writing(o)'
    BY <1>1, <1>6, <2>1, <2>2 DEF CallHolds, LocksKnown, GrantHolds, AbsenceHolds, ReadHolds, Writing
  <2>4. \A q \in Request \ {o} : calls'[o].locks \cap calls[q].locks = {}
    BY <2>1 DEF Free
  <2> QED
    BY <1>1, <1>2, <2>3, <2>4, OnlyItsCall
<1> QED
  BY <1>3, <1>4, <1>5, <1>6

\* Every registration of a matrix has a vehicle of its own, and aliases are none of these.
LEMMA SurvivorsApart ==
  ASSUME WorkforceInv, NEW o \in Request, calls[o].stage = "vehicles"
  PROVE  /\ \A c \in Known(o) : Survivor(o, c) \in MatchesOf(o, c)
         /\ \A c, d \in Known(o) : c # d => MatchesOf(o, c) \cap MatchesOf(o, d) = {}
         /\ DOMAIN Renamed(o) = {Survivor(o, c) : c \in Known(o)}
         /\ \A c \in Known(o) : Renamed(o)[Survivor(o, c)].code = c
         /\ \A v \in DOMAIN Renamed(o) : DOMAIN Renamed(o)[v] = VehicleFields /\ Renamed(o)[v].code \in Known(o)
         /\ Aliases(o) \cap DOMAIN Renamed(o) = {}
         /\ Aliases(o) \cup DOMAIN Renamed(o) \subseteq DOMAIN calls[o].seen
<1> DEFINE surv(c) == Survivor(o, c)
<1>1. \A c \in Known(o) : Survivor(o, c) \in MatchesOf(o, c)
  <2> SUFFICES ASSUME NEW c \in Known(o) PROVE Survivor(o, c) \in MatchesOf(o, c)
    OBVIOUS
  <2> DEFINE exact == {v \in MatchesOf(o, c) : calls[o].seen[v].code = c}
             of == IF exact # {} THEN exact ELSE MatchesOf(o, c)
  <2>1. of # {} /\ of \subseteq MatchesOf(o, c)
    BY DEF Known
  <2>2. Survivor(o, c) = CHOOSE v \in of : TRUE
    BY DEF Survivor
  <2> HIDE DEF of
  <2> QED
    BY <2>1, <2>2
<1>2. calls[o].matrix \in Matrices
  BY DEF WorkforceInv, CallHolds, ReadHolds
<1>3. \A c, d \in Known(o) : Identity[c] = Identity[d] => c = d
  BY <1>2, WorkforceAssumption DEF Known, MatrixHolds
<1>4. \A c, d \in Known(o) : c # d => MatchesOf(o, c) \cap MatchesOf(o, d) = {}
  BY <1>3 DEF MatchesOf
<1>5. \A c, d \in Known(o) : Survivor(o, c) = Survivor(o, d) => c = d
  BY <1>1, <1>4
<1>6. DOMAIN Renamed(o) = {Survivor(o, c) : c \in Known(o)}
  BY DEF Renamed
<1>7. ASSUME NEW c \in Known(o) PROVE Renamed(o)[Survivor(o, c)].code = c
  <2>1. (CHOOSE d \in Known(o) : Survivor(o, d) = Survivor(o, c)) = c
    BY <1>5
  <2> QED
    BY <1>6, <2>1 DEF Renamed
<1>8. \A v \in DOMAIN Renamed(o) : DOMAIN Renamed(o)[v] = VehicleFields /\ Renamed(o)[v].code \in Known(o)
  <2>1. \A v \in DOMAIN Renamed(o) : DOMAIN Renamed(o)[v] = VehicleFields
    BY <1>6 DEF Renamed, VehicleFields
  <2> QED
    BY <1>6, <1>7, <2>1
<1>9. Aliases(o) \cap DOMAIN Renamed(o) = {}
  BY <1>1, <1>4, <1>6 DEF Aliases
<1>10. Aliases(o) \cup DOMAIN Renamed(o) \subseteq DOMAIN calls[o].seen
  BY <1>1, <1>6 DEF Aliases, MatchesOf
<1> QED
  BY <1>1, <1>4, <1>6, <1>7, <1>8, <1>9, <1>10

LEMMA WriteVehiclesStands ==
  ASSUME WorkforceInv, NEW o \in Request, WriteVehicles(o)
  PROVE  WorkforceInv'
<1> DEFINE r == calls[o]
           codes == r.matrix.codes
<1>1. /\ UNCHANGED <<employees, vehicles, grants, absences>>
      /\ r.stage = "vehicles" /\ Unwritten(o, Merged(o))
  BY DEF WriteVehicles
<1>2. CASE End(o)
  BY <1>1, <1>2, QuietEnd
<1>3. CASE ~End(o)
  <2>1. PICK rows :
          /\ calls' = [calls EXCEPT ![o] = VehiclesWritten(o, rows)]
          /\ \/ codes \subseteq Known(o) /\ rows = Renamed(o)
             \/ \E c \in codes \ Known(o), id \in Fresh(VehicleId, DOMAIN vehicles \cup Inserted("vehicles")) :
                  codes \ Known(o) = {c} /\ rows = Upserted(Renamed(o), Single(id, [code |-> c, active |-> TRUE]))
    BY <1>3 DEF WriteVehicles
  <2>2. /\ r.matrix \in Matrices /\ DOMAIN r.seen \subseteq DOMAIN vehicles /\ DOMAIN r.seen \subseteq r.locks
        /\ grants \subseteq (DOMAIN employees) \X (DOMAIN vehicles) /\ DOMAIN vehicles \subseteq VehicleId
    BY <1>1 DEF WorkforceInv, CallHolds, ReadHolds, WorkforceTyped
  <2>3. /\ Aliases(o) \cup DOMAIN Renamed(o) \subseteq DOMAIN r.seen /\ Aliases(o) \cap DOMAIN Renamed(o) = {}
        /\ \A v \in DOMAIN Renamed(o) : DOMAIN Renamed(o)[v] = VehicleFields /\ Renamed(o)[v].code \in codes
        /\ \A c \in Known(o) : Survivor(o, c) \in DOMAIN Renamed(o) /\ Renamed(o)[Survivor(o, c)].code = c
    <3>1. /\ DOMAIN Renamed(o) = {Survivor(o, c) : c \in Known(o)}
          /\ \A c \in Known(o) : Renamed(o)[Survivor(o, c)].code = c
          /\ \A v \in DOMAIN Renamed(o) : DOMAIN Renamed(o)[v] = VehicleFields /\ Renamed(o)[v].code \in Known(o)
          /\ Aliases(o) \cap DOMAIN Renamed(o) = {}
          /\ Aliases(o) \cup DOMAIN Renamed(o) \subseteq DOMAIN calls[o].seen
      BY <1>1, SurvivorsApart
    <3>2. \A c \in Known(o) : Survivor(o, c) \in DOMAIN Renamed(o)
      BY <3>1
    <3>3. Known(o) \subseteq codes
      BY DEF Known
    <3> QED
      BY <3>1, <3>2, <3>3
  <2>4. /\ DOMAIN Renamed(o) \subseteq DOMAIN rows /\ DOMAIN rows \subseteq VehicleId
        /\ \A v \in DOMAIN rows : DOMAIN rows[v] = VehicleFields /\ rows[v].code \in codes
        /\ \A c \in codes : \E v \in DOMAIN rows : rows[v].code = c
        /\ \A v \in DOMAIN rows \ DOMAIN Renamed(o) : v \notin DOMAIN vehicles
        /\ \A v \in DOMAIN rows \ DOMAIN Renamed(o) : \A q \in Request : v \notin calls[q].locks
    <3>1. CASE codes \subseteq Known(o) /\ rows = Renamed(o)
      BY <2>2, <2>3, <3>1
    <3>2. CASE \E c \in codes \ Known(o), id \in Fresh(VehicleId, DOMAIN vehicles \cup Inserted("vehicles")) :
                 codes \ Known(o) = {c} /\ rows = Upserted(Renamed(o), Single(id, [code |-> c, active |-> TRUE]))
      <4>1. PICK c \in codes \ Known(o), id \in Fresh(VehicleId, DOMAIN vehicles \cup Inserted("vehicles")) :
              codes \ Known(o) = {c} /\ rows = Upserted(Renamed(o), Single(id, [code |-> c, active |-> TRUE]))
        BY <3>2
      <4>2. id \in VehicleId /\ id \notin DOMAIN vehicles /\ \A q \in Request : id \notin calls[q].locks
        BY NewRowsUnlocked
      <4>3. id \notin DOMAIN Renamed(o)
        BY <2>2, <2>3, <4>2
      <4>4. /\ DOMAIN rows = {id} \cup DOMAIN Renamed(o) /\ \A v \in DOMAIN Renamed(o) : rows[v] = Renamed(o)[v]
            /\ rows[id] = [code |-> c, active |-> TRUE]
        <5> DEFINE one == Single(id, [code |-> c, active |-> TRUE])
        <5>1. DOMAIN one = {id} /\ one[id] = [code |-> c, active |-> TRUE]
          BY DEF Single
        <5> HIDE DEF one
        <5>2. rows = Upserted(Renamed(o), one)
          BY <4>1 DEF one
        <5> QED
          BY <4>3, <5>1, <5>2 DEF Upserted
      <4>5. DOMAIN rows[id] = VehicleFields /\ rows[id].code = c
        BY <4>4 DEF VehicleFields
      <4>6. DOMAIN Renamed(o) \subseteq DOMAIN rows /\ DOMAIN rows \subseteq VehicleId
        BY <2>2, <2>3, <4>2, <4>4
      <4>7. ASSUME NEW v \in DOMAIN rows PROVE DOMAIN rows[v] = VehicleFields /\ rows[v].code \in codes
        <5>1. CASE v = id
          BY <4>1, <4>5, <5>1
        <5>2. CASE v # id
          <6>1. v \in DOMAIN Renamed(o) /\ rows[v] = Renamed(o)[v]
            BY <4>4, <5>2
          <6> QED
            BY <2>3, <6>1
        <5> QED
          BY <5>1, <5>2
      <4>8. ASSUME NEW d \in codes PROVE \E v \in DOMAIN rows : rows[v].code = d
        <5>1. CASE d = c
          BY <4>4, <4>5, <5>1
        <5>2. CASE d # c
          <6>1. d \in Known(o)
            BY <4>1, <5>2
          <6>2. Survivor(o, d) \in DOMAIN Renamed(o) /\ Renamed(o)[Survivor(o, d)].code = d
            BY <2>3, <6>1
          <6> QED
            BY <4>4, <6>2
        <5> QED
          BY <5>1, <5>2
      <4>9. \A v \in DOMAIN rows \ DOMAIN Renamed(o) : v = id
        BY <4>4
      <4> QED
        BY <4>2, <4>6, <4>7, <4>8, <4>9
    <3> QED
      BY <2>1, <3>1, <3>2
  <2>5. /\ DOMAIN calls' = Request /\ \A q \in Request \ {o} : calls'[q] = calls[q]
        /\ calls'[o] = VehiclesWritten(o, rows)
    BY <2>1 DEF WorkforceInv, WorkforceTyped
  <2> DEFINE tx == calls'[o].tx
  <2>6. /\ calls'[o].stage = "people" /\ calls'[o].matrix = r.matrix /\ calls'[o].rest = r.matrix.people
        /\ calls'[o].locks = r.locks \cup DOMAIN rows
        /\ tx.vehicles = rows /\ tx.gone = Aliases(o) /\ DOMAIN tx.employees = {}
        /\ tx.lost = Merged(o) /\ tx.gained = Moved(o) \ grants
    BY <2>5 DEF VehiclesWritten
  <2> HIDE DEF tx
  <2>7. SeenGrants(o)' = (grants \ Merged(o)) \cup (Moved(o) \ grants)
    BY <1>1, <2>6 DEF SeenGrants, tx
  <2>8. RowsHold(o)'
    BY <1>1, <2>2, <2>3, <2>4, <2>6 DEF RowsHold, tx
  <2>9. \A g \in Moved(o) : \E c \in Known(o), h \in grants : h[2] \in MatchesOf(o, c) /\ g = <<h[1], Survivor(o, c)>>
    BY DEF Moved, GrantsMoved
  <2>10. GrantsHold(o)'
    <3>1. tx.lost \subseteq grants /\ \A g \in tx.lost : g[2] \in tx.gone
      BY <2>6 DEF Merged
    <3>2. tx.gained \subseteq (DOMAIN employees) \X (DOMAIN tx.vehicles)
      BY <2>2, <2>3, <2>4, <2>6, <2>9
    <3>3. ASSUME NEW g \in tx.gained PROVE \E h \in tx.lost : h[1] = g[1] /\ h[2] \in tx.gone
      <4>1. PICK c \in Known(o), h \in grants : h[2] \in MatchesOf(o, c) /\ g = <<h[1], Survivor(o, c)>>
        BY <2>6, <2>9
      <4>2. g \notin grants /\ h = <<h[1], h[2]>>
        BY <2>2, <2>6
      <4>3. h[2] # Survivor(o, c)
        BY <4>1, <4>2
      <4>4. h[2] \in Aliases(o)
        BY <4>1, <4>3 DEF Aliases
      <4> QED
        BY <2>6, <4>1, <4>4 DEF Merged
    <3>4. ASSUME NEW g \in grants, g[2] \in tx.gone
          PROVE  g \in tx.lost /\ \E w \in DOMAIN tx.vehicles : <<g[1], w>> \in SeenGrants(o)'
      <4>1. g \in tx.lost
        BY <2>6, <3>4 DEF Merged
      <4>2. PICK c \in Known(o) : g[2] \in MatchesOf(o, c)
        BY <2>6, <3>4 DEF Aliases
      <4>3. <<g[1], Survivor(o, c)>> \in Moved(o)
        BY <4>2 DEF Moved, GrantsMoved
      <4>4. <<g[1], Survivor(o, c)>> \notin Merged(o)
        BY <2>3 DEF Merged
      <4> QED
        BY <2>3, <2>4, <2>6, <2>7, <4>1, <4>3, <4>4
    <3> QED
      BY <1>1, <3>1, <3>2, <3>3, <3>4 DEF GrantsHold, tx
  <2>11. PeopleHold(o)'
    <3> DEFINE people == r.matrix.people
    <3>1. people \in Seq({people[i] : i \in DOMAIN people})
      BY <2>2, WorkforceAssumption DEF MatrixHolds
    <3> DEFINE People == {people[i] : i \in DOMAIN people}
    <3> HIDE DEF People, people
    <3>2. people \in Seq(People)
      BY <3>1 DEF People
    <3>3. Len(people) \in Nat /\ Len(people) - Len(people) = 0
      BY <3>2
    <3>4. calls'[o].matrix.people = people /\ calls'[o].rest = people
      BY <2>6 DEF people
    <3>5. PeopleDone(o)' = 0
      BY <3>3, <3>4 DEF PeopleDone
    <3>6. \A i \in 1..Len(people) : people[i] = people[0 + i]
      BY <3>3
    <3> QED
      BY <2>6, <3>2, <3>3, <3>4, <3>5, <3>6 DEF PeopleHold, tx, People
  <2>12. CallHolds(o)'
    <3>1. LocksKnown(o)'
      BY <1>1, <2>2, <2>6, <2>4 DEF LocksKnown, Own, Writing, tx, WorkforceInv, CallHolds
    <3> QED
      BY <2>2, <2>6, <2>8, <2>10, <2>11, <3>1 DEF CallHolds, GrantHolds, AbsenceHolds, ReadHolds
  <2>13. \A q \in Request \ {o} : calls'[o].locks \cap calls[q].locks = {}
    BY <2>2, <2>3, <2>4, <2>6 DEF WorkforceInv, LocksApart
  <2>14. \A q \in Request \ {o} : Writing(q) => calls'[o].tx.lost \cap calls[q].tx.lost = {}
    BY <1>1, <2>6 DEF Unwritten, Writing, tx
  <2> QED
    BY <1>1, <2>5, <2>12, <2>13, <2>14, OnlyItsCall
<1> QED
  BY <1>2, <1>3

\* The next person of the matrix has not been written.
LEMMA NextPerson ==
  ASSUME WorkforceInv, NEW o \in Request, Writing(o), calls[o].rest # <<>>
  PROVE  LET people == calls[o].matrix.people
             rest == calls[o].rest
             n == PeopleDone(o)
         IN  /\ n \in Nat /\ n + 1 \in DOMAIN people /\ Head(rest) = people[n + 1]
             /\ \A i \in 1..n : i \in DOMAIN people /\ people[i].key # people[n + 1].key
             /\ people[n + 1].codes \subseteq calls[o].matrix.codes
             /\ Tail(rest) \in Seq({people[i] : i \in DOMAIN people}) /\ Len(Tail(rest)) <= Len(people)
             /\ Len(people) - Len(Tail(rest)) = n + 1
             /\ \A i \in 1..Len(Tail(rest)) : Tail(rest)[i] = people[n + 1 + i]
<1> DEFINE people == calls[o].matrix.people
           rest == calls[o].rest
           n == PeopleDone(o)
           People == {people[i] : i \in DOMAIN people}
<1>1. calls[o].matrix \in Matrices /\ PeopleHold(o)
  BY DEF WorkforceInv, CallHolds, ReadHolds, Writing
<1>2. people \in Seq(People) /\ \A i, j \in DOMAIN people : people[i].key = people[j].key => i = j
  BY <1>1, WorkforceAssumption DEF MatrixHolds
<1>3. /\ rest \in Seq(People) /\ Len(rest) <= Len(people) /\ n = Len(people) - Len(rest)
      /\ \A i \in 1..Len(rest) : rest[i] = people[n + i]
  BY <1>1 DEF PeopleHold, PeopleDone
<1>4. \A i \in DOMAIN people : people[i].codes \subseteq calls[o].matrix.codes
  BY <1>1, WorkforceAssumption DEF MatrixHolds
<1>5. rest # <<>>
  OBVIOUS
<1> HIDE DEF People, people, rest, n
<1>6. /\ Len(rest) \in Nat \ {0} /\ Len(people) \in Nat /\ DOMAIN people = 1..Len(people)
      /\ Head(rest) = rest[1] /\ Tail(rest) \in Seq(People) /\ Len(Tail(rest)) = Len(rest) - 1
      /\ \A i \in 1..(Len(rest) - 1) : Tail(rest)[i] = rest[i + 1]
  BY <1>2, <1>3, <1>5
<1> DEFINE k == Len(rest)
           m == Len(people)
<1>7. k \in Nat \ {0} /\ m \in Nat /\ k <= m /\ n = m - k
  BY <1>3, <1>6
<1> HIDE DEF k, m
<1>8. n \in Nat /\ n + 1 \in 1..m /\ 1..n \subseteq 1..m /\ n + 1 \notin 1..n /\ m - (k - 1) = n + 1 /\ k - 1 <= m
  BY <1>7
<1>9. Head(rest) = people[n + 1]
  BY <1>3, <1>6
<1>10. \A i \in 1..(k - 1) : Tail(rest)[i] = people[n + 1 + i]
  <2> TAKE i \in 1..(k - 1)
  <2>1. i + 1 \in 1..k /\ n + (i + 1) = n + 1 + i
    BY <1>7
  <2>2. Tail(rest)[i] = rest[i + 1]
    BY <1>6 DEF k
  <2>3. rest[i + 1] = people[n + (i + 1)]
    BY <1>3, <2>1 DEF k
  <2> QED
    BY <2>1, <2>2, <2>3
<1>11. \A i \in 1..n : i \in DOMAIN people /\ people[i].key # people[n + 1].key
  BY <1>2, <1>6, <1>8 DEF m
<1>12. n + 1 \in DOMAIN people
  BY <1>6, <1>8 DEF m
<1> QED
  BY <1>4, <1>6, <1>8, <1>9, <1>10, <1>11, <1>12 DEF People, people, rest, n, k, m

\* Whom the matrix writes next is a row the import has not written and nobody has locked.
LEMMA PersonFound ==
  ASSUME WorkforceInv, NEW o \in Request, WritePerson(o)
  PROVE  \E e \in PersonId :
           /\ e \notin DOMAIN calls[o].tx.employees /\ \A q \in Request \ {o} : e \notin calls[q].locks
           /\ e \in DOMAIN employees => employees[e].key = Head(calls[o].rest).key
           /\ Unwritten(o, Dropped(o, e, Head(calls[o].rest)))
           /\ calls' = [calls EXCEPT ![o] = PersonWritten(o, e, Head(calls[o].rest))]
<1> DEFINE p == Head(calls[o].rest)
           existing == {e \in DOMAIN employees : employees[e].key = p.key}
           put(e) == Unwritten(o, Dropped(o, e, p)) /\ calls' = [calls EXCEPT ![o] = PersonWritten(o, e, p)]
<1>1. /\ Writing(o) /\ calls[o].rest # <<>>
      /\ IF existing # {}
           THEN \E e \in existing : Free(o, e) /\ put(e)
           ELSE \E e \in Fresh(PersonId, DOMAIN employees \cup Inserted("employees")) : put(e)
  BY DEF WritePerson, Writing
<1>2. RowsHold(o) /\ PeopleHold(o) /\ DOMAIN employees \subseteq PersonId
  BY <1>1 DEF WorkforceInv, CallHolds, WorkforceTyped
<1>3. CASE existing # {}
  <2>1. PICK e \in existing : Free(o, e) /\ put(e)
    BY <1>1, <1>3
  <2>2. e \in PersonId /\ employees[e].key = p.key /\ \A q \in Request \ {o} : e \notin calls[q].locks
    BY <1>2, <2>1 DEF Free
  <2>3. ASSUME e \in DOMAIN calls[o].tx.employees PROVE FALSE
    <3>1. calls[o].tx.employees[e].key = p.key
      BY <1>2, <2>1, <2>2, <2>3 DEF RowsHold
    <3>2. PICK i \in 1..PeopleDone(o) : AsTicked(o, e, calls[o].matrix.people[i])
      BY <1>2, <2>3 DEF PeopleHold
    <3>3. calls[o].matrix.people[i].key = p.key
      BY <3>1, <3>2 DEF AsTicked
    <3> QED
      BY <1>1, <3>3, NextPerson
  <2> QED
    BY <2>1, <2>2, <2>3
<1>4. CASE existing = {}
  <2>1. PICK e \in Fresh(PersonId, DOMAIN employees \cup Inserted("employees")) : put(e)
    BY <1>1, <1>4
  <2>2. e \in PersonId /\ e \notin DOMAIN employees /\ \A q \in Request : e \notin calls[q].locks
    BY NewRowsUnlocked
  <2>3. e \notin DOMAIN calls[o].tx.employees
    BY <1>2, <2>2 DEF RowsHold
  <2> QED
    BY <2>1, <2>2, <2>3
<1> QED
  BY <1>3, <1>4

LEMMA WritePersonStands ==
  ASSUME WorkforceInv, NEW o \in Request, WritePerson(o)
  PROVE  WorkforceInv'
<1> DEFINE r == calls[o]
           old == r.tx
<1>1. UNCHANGED <<employees, vehicles, grants, absences>> /\ Writing(o) /\ r.rest # <<>>
  BY DEF WritePerson, Writing
<1>2. PICK p : p = Head(r.rest)
  OBVIOUS
<1>3. /\ RowsHold(o) /\ GrantsHold(o) /\ PeopleHold(o) /\ LocksKnown(o) /\ r.matrix \in Matrices
      /\ grants \subseteq (DOMAIN employees) \X (DOMAIN vehicles)
  BY <1>1 DEF WorkforceInv, CallHolds, ReadHolds, Writing, WorkforceTyped
<1>4. PICK e \in PersonId :
        /\ e \notin DOMAIN old.employees /\ \A q \in Request \ {o} : e \notin calls[q].locks
        /\ e \in DOMAIN employees => employees[e].key = p.key
        /\ Unwritten(o, Dropped(o, e, p))
        /\ calls' = [calls EXCEPT ![o] = PersonWritten(o, e, p)]
  BY <1>2, PersonFound
<1>5. /\ DOMAIN calls' = Request /\ \A q \in Request \ {o} : calls'[q] = calls[q]
      /\ calls'[o] = PersonWritten(o, e, p)
  BY <1>4 DEF WorkforceInv, WorkforceTyped
<1> DEFINE tx == calls'[o].tx
           pairs == {<<e, v>> : v \in Ticked(o, p)}
<1>6. /\ calls'[o].stage = "people" /\ calls'[o].matrix = r.matrix /\ calls'[o].rest = Tail(r.rest)
      /\ calls'[o].locks = r.locks \cup {e}
      /\ tx.vehicles = old.vehicles /\ tx.gone = old.gone
      /\ tx.lost = {g \in old.lost : g[1] # e} \cup Dropped(o, e, p)
      /\ tx.gained = {g \in old.gained : g[1] # e} \cup {<<e, v>> : v \in {w \in Ticked(o, p) : <<e, w>> \notin grants}}
  BY <1>5 DEF PersonWritten
<1>7. /\ DOMAIN tx.employees = {e} \cup DOMAIN old.employees
      /\ \A f \in DOMAIN old.employees : tx.employees[f] = old.employees[f]
      /\ DOMAIN tx.employees[e] = EmployeeFields
      /\ tx.employees[e].key = p.key /\ tx.employees[e].active /\ tx.employees[e].skills = p.skills
  BY <1>4, <1>5 DEF PersonWritten, Upserted, Single, EmployeeFields
<1>8. SeenGrants(o)' = (grants \ tx.lost) \cup tx.gained
  BY <1>1 DEF SeenGrants
<1> HIDE DEF tx
<1>9. Ticked(o, p) \subseteq DOMAIN old.vehicles
  BY DEF Ticked
<1>10. \A g : g \in tx.gained <=>
              (g \in old.gained /\ g[1] # e) \/ (g \notin grants /\ \E v \in Ticked(o, p) : g = <<e, v>>)
  BY <1>6
<1>11. tx.lost \subseteq grants
  BY <1>3, <1>6 DEF GrantsHold, Dropped
<1>12. \A g : g[1] # e => /\ g \in tx.lost <=> g \in old.lost
                          /\ g \in tx.gained <=> g \in old.gained
                          /\ g \in SeenGrants(o)' <=> g \in SeenGrants(o)
  <2>1. \A g : g[1] # e => (g \in tx.lost <=> g \in old.lost)
    BY <1>6 DEF Dropped
  <2>2. \A g : g[1] # e => (g \in tx.gained <=> g \in old.gained)
    BY <1>10
  <2> QED
    BY <1>8, <2>1, <2>2 DEF SeenGrants
<1>13. {g \in SeenGrants(o)' : g[1] = e} = pairs
  <2>1. ASSUME NEW g \in grants \ tx.lost, g[1] = e PROVE g \in pairs
    <3>1. g = <<e, g[2]>> /\ g[2] \in Ticked(o, p)
      BY <1>3, <1>6, <2>1 DEF Dropped
    <3> QED
      BY <3>1
  <2>2. ASSUME NEW g \in tx.gained, g[1] = e PROVE g \in pairs
    BY <1>10, <2>2
  <2>3. ASSUME NEW v \in Ticked(o, p) PROVE <<e, v>> \in SeenGrants(o)'
    <3>1. CASE <<e, v>> \in grants
      <4>1. <<e, v>> \notin tx.lost
        BY <1>6 DEF Dropped
      <4> QED
        BY <1>8, <3>1, <4>1
    <3>2. CASE <<e, v>> \notin grants
      <4>1. <<e, v>> \in tx.gained
        BY <1>10, <3>2
      <4> QED
        BY <1>8, <4>1
    <3> QED
      BY <3>1, <3>2
  <2>4. \A g \in pairs : g[1] = e /\ g \in SeenGrants(o)'
    BY <2>3
  <2> HIDE DEF pairs
  <2> QED
    BY <1>8, <2>1, <2>2, <2>4
<1>14. RowsHold(o)'
  <2>1. \A f \in DOMAIN tx.employees : DOMAIN tx.employees[f] = EmployeeFields
    BY <1>3, <1>7 DEF RowsHold
  <2>2. \A f \in DOMAIN tx.employees : f \in DOMAIN employees => employees[f].key = tx.employees[f].key
    BY <1>3, <1>4, <1>7 DEF RowsHold
  <2>3. DOMAIN tx.employees \subseteq PersonId /\ DOMAIN tx.employees \subseteq r.locks \cup {e}
    BY <1>3, <1>4, <1>7 DEF RowsHold
  <2>4. /\ DOMAIN old.vehicles \subseteq VehicleId /\ DOMAIN old.vehicles \cup old.gone \subseteq r.locks
        /\ old.gone \subseteq DOMAIN vehicles /\ old.gone \cap DOMAIN old.vehicles = {}
        /\ \A v \in DOMAIN old.vehicles : DOMAIN old.vehicles[v] = VehicleFields /\ old.vehicles[v].code \in r.matrix.codes
        /\ \A c \in r.matrix.codes : \E v \in DOMAIN old.vehicles : old.vehicles[v].code = c
    BY <1>3 DEF RowsHold
  <2> QED
    BY <1>1, <1>6, <2>1, <2>2, <2>3, <2>4 DEF RowsHold, tx
<1>15. GrantsHold(o)'
  <2>1. \A g \in tx.lost : g[2] \in tx.gone \/ g[1] \in DOMAIN tx.employees
    BY <1>3, <1>6, <1>7, <1>12 DEF GrantsHold
  <2>2. tx.gained \subseteq (DOMAIN employees \cup DOMAIN tx.employees) \X DOMAIN tx.vehicles
    <3>1. old.gained \subseteq (DOMAIN employees \cup DOMAIN old.employees) \X DOMAIN old.vehicles
      BY <1>3 DEF GrantsHold
    <3>2. \A g \in tx.gained : g \in old.gained \/ \E v \in DOMAIN old.vehicles : g = <<e, v>>
      BY <1>9, <1>10
    <3>3. \A g \in old.gained : g \in (DOMAIN employees \cup DOMAIN tx.employees) \X DOMAIN old.vehicles
      BY <1>7, <3>1
    <3>4. \A v \in DOMAIN old.vehicles : <<e, v>> \in (DOMAIN employees \cup DOMAIN tx.employees) \X DOMAIN old.vehicles
      BY <1>7
    <3>5. tx.vehicles = old.vehicles
      BY <1>6
    <3> QED
      BY <3>2, <3>3, <3>4, <3>5
  <2>3. \A g \in tx.gained : g[1] \in DOMAIN tx.employees \/ \E h \in tx.lost : h[1] = g[1] /\ h[2] \in tx.gone
    <3> SUFFICES ASSUME NEW g \in tx.gained, g[1] \notin DOMAIN tx.employees
                 PROVE  \E h \in tx.lost : h[1] = g[1] /\ h[2] \in tx.gone
      OBVIOUS
    <3>1. g[1] # e /\ g \in old.gained /\ g[1] \notin DOMAIN old.employees
      BY <1>7, <1>12
    <3>2. PICK h \in old.lost : h[1] = g[1] /\ h[2] \in old.gone
      BY <1>3, <3>1 DEF GrantsHold
    <3> QED
      BY <1>6, <1>12, <3>1, <3>2
  <2>4. ASSUME NEW g \in grants, g[2] \in tx.gone
        PROVE  /\ g \in tx.lost
               /\ g[1] \in DOMAIN tx.employees \/ \E w \in DOMAIN tx.vehicles : <<g[1], w>> \in SeenGrants(o)'
    <3>1. CASE g[1] = e
      <4>1. g[2] \notin Ticked(o, p)
        BY <1>3, <1>6, <1>9, <2>4 DEF RowsHold
      <4> QED
        BY <1>6, <1>7, <3>1, <4>1 DEF Dropped
    <3>2. CASE g[1] # e
      <4>1. /\ g \in old.lost
            /\ g[1] \in DOMAIN old.employees \/ \E w \in DOMAIN old.vehicles : <<g[1], w>> \in SeenGrants(o)
        BY <1>3, <1>6, <2>4 DEF GrantsHold
      <4>2. \A w : <<g[1], w>> \in SeenGrants(o) => <<g[1], w>> \in SeenGrants(o)'
        BY <1>12, <3>2
      <4> QED
        BY <1>6, <1>7, <1>12, <3>2, <4>1, <4>2
    <3> QED
      BY <3>1, <3>2
  <2> QED
    BY <1>1, <1>11, <2>1, <2>2, <2>3, <2>4 DEF GrantsHold, tx
<1>16. /\ \A f \in DOMAIN old.employees : \A w : AsTicked(o, f, w) => AsTicked(o, f, w)'
       /\ AsTicked(o, e, p)'
  <2>1. \A w : Ticked(o, w)' = Ticked(o, w)
    BY <1>6 DEF Ticked, tx
  <2>2. \A f \in DOMAIN old.employees : {g \in SeenGrants(o)' : g[1] = f} = {g \in SeenGrants(o) : g[1] = f}
    BY <1>4, <1>12
  <2>3. AsTicked(o, e, p)'
    BY <1>7, <1>13, <2>1 DEF AsTicked, tx
  <2>4. \A f \in DOMAIN old.employees : \A w : AsTicked(o, f, w) => AsTicked(o, f, w)'
    BY <1>7, <2>1, <2>2 DEF AsTicked, tx
  <2> QED
    BY <2>3, <2>4
<1>17. PeopleHold(o)'
  <2>1. PICK people, n, People : /\ people = r.matrix.people /\ n = PeopleDone(o)
                                 /\ People = {r.matrix.people[i] : i \in DOMAIN r.matrix.people}
    OBVIOUS
  <2>2. /\ n \in Nat /\ p = people[n + 1]
        /\ Tail(r.rest) \in Seq(People) /\ Len(Tail(r.rest)) <= Len(people)
        /\ Len(people) - Len(Tail(r.rest)) = n + 1
        /\ \A i \in 1..Len(Tail(r.rest)) : Tail(r.rest)[i] = people[n + 1 + i]
    BY <1>2, <1>1, <2>1, NextPerson
  <2>3. PeopleDone(o)' = n + 1
    BY <1>6, <2>1, <2>2 DEF PeopleDone
  <2>4. /\ \A i \in 1..n : \E f \in DOMAIN old.employees : AsTicked(o, f, people[i])
        /\ \A f \in DOMAIN old.employees : \E i \in 1..n : AsTicked(o, f, people[i])
    BY <1>3, <2>1 DEF PeopleHold
  <2>5. 1..(n + 1) = (1..n) \cup {n + 1}
    BY <2>2
  <2>6. \A i \in 1..(n + 1) : \E f \in DOMAIN tx.employees : AsTicked(o, f, people[i])'
    BY <1>7, <1>16, <2>2, <2>4, <2>5
  <2>7. \A f \in DOMAIN tx.employees : \E i \in 1..(n + 1) : AsTicked(o, f, people[i])'
    BY <1>7, <1>16, <2>2, <2>4, <2>5
  <2>8. People = {calls'[o].matrix.people[i] : i \in DOMAIN calls'[o].matrix.people}
    BY <1>6, <2>1
  <2> QED
    BY <1>6, <2>1, <2>2, <2>3, <2>6, <2>7, <2>8 DEF PeopleHold, tx
<1>18. CallHolds(o)'
  <2>1. LocksKnown(o)'
    BY <1>1, <1>3, <1>6, <1>7 DEF LocksKnown, Own, Writing, tx
  <2> QED
    BY <1>3, <1>6, <1>14, <1>15, <1>17, <2>1 DEF CallHolds, GrantHolds, AbsenceHolds, ReadHolds
<1>19. \A q \in Request \ {o} : calls'[o].locks \cap calls[q].locks = {}
  BY <1>4, <1>6 DEF WorkforceInv, LocksApart
<1>20. \A q \in Request \ {o} : Writing(q) => calls'[o].tx.lost \cap calls[q].tx.lost = {}
  <2> SUFFICES ASSUME NEW q \in Request \ {o}, Writing(q) PROVE tx.lost \cap calls[q].tx.lost = {}
    BY DEF tx
  <2>1. old.lost \cap calls[q].tx.lost = {}
    BY <1>1 DEF WorkforceInv, LostApart
  <2>2. Dropped(o, e, p) \cap calls[q].tx.lost = {}
    BY <1>4 DEF Unwritten, Writing
  <2> QED
    BY <1>6, <2>1, <2>2
<1> QED
  BY <1>1, <1>5, <1>18, <1>19, <1>20, OnlyItsCall

\* A person an open import has written may drive vehicles of the matrix only.
LEMMA DrivesTicked ==
  ASSUME WorkforceInv, NEW q \in Request, Writing(q), NEW g \in SeenGrants(q),
         g[1] \in DOMAIN calls[q].tx.employees
  PROVE  g[2] \in DOMAIN calls[q].tx.vehicles
<1> DEFINE e == g[1]
<1>1. PeopleHold(q)
  BY DEF WorkforceInv, CallHolds
<1>2. PICK i \in 1..PeopleDone(q) : AsTicked(q, e, calls[q].matrix.people[i])
  BY <1>1 DEF PeopleHold
<1>3. PICK p : p = calls[q].matrix.people[i]
  OBVIOUS
<1>4. {h \in SeenGrants(q) : h[1] = e} = {<<e, v>> : v \in Ticked(q, p)}
  BY <1>2, <1>3 DEF AsTicked
<1>5. PICK v \in Ticked(q, p) : g = <<e, v>>
  BY <1>4
<1>6. g[2] = v
  BY <1>5
<1> QED
  BY <1>6 DEF Ticked

\* Two open imports do not meet in a row, nor in who drives what.
LEMMA ImportsApart ==
  ASSUME WorkforceInv, NEW o \in Request, NEW q \in Request \ {o}, Writing(o), Writing(q)
  PROVE  LET tx == calls[o].tx
             other == calls[q].tx
         IN  /\ \A g \in tx.lost : g \notin other.lost /\ g[1] \notin DOMAIN other.employees
             /\ \A g \in tx.gained : g[1] \notin DOMAIN other.employees /\ g[2] \notin calls[q].locks
             /\ \A g \in tx.lost : g[2] \in DOMAIN other.vehicles =>
                  \A h \in other.lost : h[1] = g[1] => h[2] \notin other.gone
<1> DEFINE tx == calls[o].tx
           other == calls[q].tx
<1>1. RowsHold(o) /\ GrantsHold(o) /\ RowsHold(q) /\ GrantsHold(q) /\ calls[o].locks \cap calls[q].locks = {}
  BY DEF WorkforceInv, CallHolds, LocksApart
<1>2. /\ DOMAIN tx.employees \cup DOMAIN tx.vehicles \cup tx.gone \subseteq calls[o].locks
      /\ DOMAIN other.employees \cup DOMAIN other.vehicles \cup other.gone \subseteq calls[q].locks
  BY <1>1 DEF RowsHold
<1>3. /\ tx.lost \subseteq grants /\ other.lost \subseteq grants /\ tx.lost \cap other.lost = {}
      /\ \A g \in tx.lost : g[2] \in tx.gone \/ g[1] \in DOMAIN tx.employees
  BY <1>1 DEF GrantsHold, WorkforceInv, LostApart
<1>4. ASSUME NEW g \in tx.lost, g[1] \in DOMAIN other.employees PROVE FALSE
  <2>1. g[2] \in tx.gone /\ g \in SeenGrants(q)
    BY <1>1, <1>2, <1>3, <1>4 DEF SeenGrants
  <2>2. g[2] \in DOMAIN other.vehicles
    BY <1>4, <2>1, DrivesTicked
  <2> QED
    BY <1>1, <1>2, <2>1, <2>2
<1>5. ASSUME NEW g \in tx.gained PROVE g[1] \notin DOMAIN other.employees /\ g[2] \notin calls[q].locks
  <2>1. g[2] \in DOMAIN tx.vehicles
    BY <1>1 DEF GrantsHold
  <2>2. g[1] \in DOMAIN tx.employees \/ \E h \in tx.lost : h[1] = g[1]
    BY <1>1 DEF GrantsHold
  <2> QED
    BY <1>1, <1>2, <1>4, <2>1, <2>2
<1>6. ASSUME NEW g \in tx.lost, g[2] \in DOMAIN other.vehicles, NEW h \in other.lost, h[1] = g[1], h[2] \in other.gone
      PROVE  FALSE
  <2>1. g[1] \in DOMAIN tx.employees
    BY <1>1, <1>2, <1>3, <1>6
  <2>2. h \in SeenGrants(o)
    BY <1>3 DEF SeenGrants
  <2>3. h[2] \in DOMAIN tx.vehicles
    BY <1>6, <2>1, <2>2, DrivesTicked
  <2> QED
    BY <1>1, <1>2, <1>6, <2>3
<1> QED
  BY <1>3, <1>4, <1>5, <1>6

\* What a committed import leaves in the tables.
LEMMA CommitWrites ==
  ASSUME WorkforceInv, NEW o \in Request, CommitMatrix(o)
  PROVE  LET tx == calls[o].tx
         IN  /\ Writing(o) /\ calls[o].rest = <<>> /\ RowsHold(o) /\ GrantsHold(o) /\ PeopleHold(o)
             /\ DOMAIN employees' = DOMAIN employees \cup DOMAIN tx.employees
             /\ \A e \in DOMAIN tx.employees : employees'[e] = tx.employees[e]
             /\ \A e \in DOMAIN employees' \ DOMAIN tx.employees : employees'[e] = employees[e]
             /\ DOMAIN vehicles' = (DOMAIN vehicles \ tx.gone) \cup DOMAIN tx.vehicles
             /\ \A v \in DOMAIN tx.vehicles : vehicles'[v] = tx.vehicles[v]
             /\ \A v \in DOMAIN vehicles' \ DOMAIN tx.vehicles : vehicles'[v] = vehicles[v]
             /\ grants' = SeenGrants(o) /\ absences' = absences
             /\ DOMAIN calls' = Request /\ \A q \in Request \ {o} : calls'[q] = calls[q]
             /\ calls'[o].stage = "done" /\ calls'[o].locks = {}
<1> DEFINE tx == calls[o].tx
<1>1. Writing(o) /\ calls[o].rest = <<>>
  BY DEF CommitMatrix, Writing
<1>2. RowsHold(o) /\ GrantsHold(o) /\ PeopleHold(o)
  BY <1>1 DEF WorkforceInv, CallHolds
<1>3. employees' = Upserted(employees, tx.employees)
  BY DEF CommitMatrix
<1>4. vehicles' = Upserted([v \in DOMAIN vehicles \ tx.gone |-> vehicles[v]], tx.vehicles)
  BY DEF CommitMatrix
<1>5. /\ DOMAIN calls' = Request /\ \A q \in Request \ {o} : calls'[q] = calls[q]
      /\ calls'[o].stage = "done" /\ calls'[o].locks = {}
  BY DEF CommitMatrix, Closed, WorkforceInv, WorkforceTyped
<1>6. grants' = SeenGrants(o) /\ absences' = absences
  BY DEF CommitMatrix
<1> HIDE DEF tx
<1>7. /\ DOMAIN employees' = DOMAIN employees \cup DOMAIN tx.employees
      /\ \A e \in DOMAIN tx.employees : employees'[e] = tx.employees[e]
      /\ \A e \in DOMAIN employees' \ DOMAIN tx.employees : employees'[e] = employees[e]
  BY <1>3 DEF Upserted
<1>8. /\ DOMAIN vehicles' = (DOMAIN vehicles \ tx.gone) \cup DOMAIN tx.vehicles
      /\ \A v \in DOMAIN tx.vehicles : vehicles'[v] = tx.vehicles[v]
      /\ \A v \in DOMAIN vehicles' \ DOMAIN tx.vehicles : vehicles'[v] = vehicles[v]
  BY <1>4 DEF Upserted
<1> QED
  BY <1>1, <1>2, <1>5, <1>6, <1>7, <1>8 DEF tx

LEMMA CommitMatrixStands ==
  ASSUME WorkforceInv, NEW o \in Request, CommitMatrix(o)
  PROVE  WorkforceInv'
<1> DEFINE tx == calls[o].tx
<1>1. /\ Writing(o) /\ RowsHold(o) /\ GrantsHold(o)
      /\ DOMAIN employees' = DOMAIN employees \cup DOMAIN tx.employees
      /\ \A e \in DOMAIN tx.employees : employees'[e] = tx.employees[e]
      /\ \A e \in DOMAIN employees' \ DOMAIN tx.employees : employees'[e] = employees[e]
  BY CommitWrites
<1>2. /\ DOMAIN vehicles' = (DOMAIN vehicles \ tx.gone) \cup DOMAIN tx.vehicles
      /\ \A v \in DOMAIN tx.vehicles : vehicles'[v] = tx.vehicles[v]
      /\ \A v \in DOMAIN vehicles' \ DOMAIN tx.vehicles : vehicles'[v] = vehicles[v]
  BY CommitWrites
<1>3. /\ grants' = SeenGrants(o) /\ absences' = absences
      /\ DOMAIN calls' = Request /\ \A q \in Request \ {o} : calls'[q] = calls[q]
      /\ calls'[o].stage = "done" /\ calls'[o].locks = {}
  BY CommitWrites
<1>4. DOMAIN tx.employees \cup DOMAIN tx.vehicles \cup tx.gone \subseteq calls[o].locks
  BY <1>1 DEF RowsHold
<1>5. WorkforceTyped'
  <2>1. /\ DOMAIN employees' \subseteq PersonId /\ DOMAIN vehicles' \subseteq VehicleId
        /\ \A e \in DOMAIN employees' : DOMAIN employees'[e] = EmployeeFields
    BY <1>1, <1>2 DEF RowsHold, WorkforceInv, WorkforceTyped
  <2>2. \A v \in DOMAIN vehicles' : DOMAIN vehicles'[v] = VehicleFields
    BY <1>1, <1>2 DEF RowsHold, WorkforceInv, WorkforceTyped
  <2>3. grants' \subseteq (DOMAIN employees') \X (DOMAIN vehicles')
    <3>1. \A g \in grants \ tx.lost : g \in (DOMAIN employees') \X (DOMAIN vehicles')
      <4> SUFFICES ASSUME NEW g \in grants \ tx.lost PROVE g \in (DOMAIN employees') \X (DOMAIN vehicles')
        OBVIOUS
      <4>1. g[2] \notin tx.gone
        BY <1>1 DEF GrantsHold
      <4>2. g = <<g[1], g[2]>> /\ g[1] \in DOMAIN employees /\ g[2] \in DOMAIN vehicles
        BY DEF WorkforceInv, WorkforceTyped
      <4>3. g[1] \in DOMAIN employees' /\ g[2] \in DOMAIN vehicles'
        BY <1>1, <1>2, <4>1, <4>2
      <4> QED
        BY <4>2, <4>3
    <3>2. \A g \in tx.gained : g \in (DOMAIN employees') \X (DOMAIN vehicles')
      <4>1. tx.gained \subseteq (DOMAIN employees \cup DOMAIN tx.employees) \X DOMAIN tx.vehicles
        BY <1>1 DEF GrantsHold
      <4> QED
        BY <1>1, <1>2, <4>1
    <3> QED
      BY <1>3, <3>1, <3>2 DEF SeenGrants
  <2> QED
    BY <1>3, <2>1, <2>2, <2>3 DEF WorkforceTyped
<1>6. AbsencesDisjoint'
  BY <1>3 DEF WorkforceInv, AbsencesDisjoint
<1>7. ASSUME NEW q \in Request \ {o} PROVE Spares(q)
  <2>1. calls[o].locks \cap calls[q].locks = {}
    BY DEF WorkforceInv, LocksApart
  <2>2. ASSUME NEW e \in DOMAIN employees', e \in calls[q].locks
        PROVE  e \in DOMAIN employees /\ employees'[e] = employees[e]
    BY <1>1, <1>4, <2>1, <2>2
  <2>3. ASSUME NEW v \in DOMAIN vehicles \cap calls[q].locks
        PROVE  v \in DOMAIN vehicles' /\ vehicles'[v] = vehicles[v]
    BY <1>2, <1>4, <2>1
  <2>4. ASSUME Writing(q) PROVE SparesGrants(q)
    <3>1. \A g : g \in grants' <=> (g \in grants /\ g \notin tx.lost) \/ g \in tx.gained
      BY <1>3 DEF SeenGrants
    <3>2. calls[q].tx.lost \subseteq grants
      BY <2>4 DEF WorkforceInv, CallHolds, GrantsHold
    <3>3. calls[q].tx.lost \subseteq grants'
      BY <1>1, <2>4, <3>1, <3>2, ImportsApart
    <3>4. \A g \in grants' \ grants : g[2] \notin calls[q].locks /\ g[1] \notin DOMAIN calls[q].tx.employees
      BY <1>1, <2>4, <3>1, ImportsApart
    <3>5. \A g \in grants \ grants' :
            /\ g[1] \notin DOMAIN calls[q].tx.employees
            /\ g[2] \in DOMAIN calls[q].tx.vehicles => \A h \in calls[q].tx.lost : h[1] = g[1] => h[2] \notin calls[q].tx.gone
      BY <1>1, <2>4, <3>1, ImportsApart
    <3> QED
      BY <3>3, <3>4, <3>5 DEF SparesGrants
  <2> QED
    BY <1>1, <1>3, <2>2, <2>3, <2>4 DEF Spares
<1> QED
  BY <1>3, <1>5, <1>6, <1>7, CallEnds

\* No request about the catalogue writes what is about the workforce.
LEMMA CatalogueApart ==
  ASSUME CatalogueNext
  PROVE  UNCHANGED workforce
<1> PICK q \in Request :
    \/ BeginAgreement(q) \/ CreateAgreement(q) \/ PlanAgreement(q)
    \/ BeginEdit(q) \/ Edit(q) \/ BeginStatus(q) \/ ChangeStatus(q)
    \/ BeginReactivation(q) \/ ReactivateImported(q)
    \/ CreateCustomer(q) \/ SetCustomer(q) \/ BeginSite(q) \/ CreateSite(q)
    \/ UpdateSite(q) \/ SetSite(q) \/ SetJob(q)
    \/ BeginImport(q) \/ EnsureJob(q) \/ BeginClient(q) \/ FindRow(q)
    \/ WriteSite(q) \/ WriteAgreement(q) \/ CommitClient(q) \/ FailClient(q)
  BY DEF CatalogueNext
<1>1. CASE BeginAgreement(q) \/ CreateAgreement(q) \/ PlanAgreement(q) \/ BeginEdit(q) \/ Edit(q) \/ BeginStatus(q)
  BY <1>1 DEF BeginAgreement, CreateAgreement, PlanAgreement, BeginEdit, Edit, BeginStatus
<1>2. CASE ChangeStatus(q) \/ BeginReactivation(q) \/ ReactivateImported(q) \/ CreateCustomer(q) \/ SetCustomer(q)
  BY <1>2 DEF ChangeStatus, BeginReactivation, ReactivateImported, CreateCustomer, SetCustomer
<1>3. CASE BeginSite(q) \/ CreateSite(q) \/ UpdateSite(q) \/ SetSite(q) \/ SetJob(q)
  BY <1>3 DEF BeginSite, CreateSite, UpdateSite, SetSite, SetJob
<1>4. CASE BeginImport(q) \/ EnsureJob(q) \/ BeginClient(q) \/ FindRow(q)
  BY <1>4 DEF BeginImport, EnsureJob, BeginClient, FindRow
<1>5. CASE WriteSite(q) \/ WriteAgreement(q) \/ CommitClient(q) \/ FailClient(q)
  BY <1>5 DEF WriteSite, WriteAgreement, CommitClient, FailClient
<1> QED
  BY <1>1, <1>2, <1>3, <1>4, <1>5

LEMMA WorkforceKept ==
  ASSUME WorkforceInv, [Next]_<<catalogue, workforce, capacity>>
  PROVE  WorkforceInv'
<1>1. CASE UNCHANGED workforce
  <2>1. UNCHANGED <<employees, vehicles, grants, absences, calls>>
    BY <1>1 DEF workforce
  <2>2. ASSUME NEW q \in Request PROVE Spares(q)
    <3>1. Writing(q) => calls[q].tx.lost \subseteq grants
      BY DEF WorkforceInv, CallHolds, GrantsHold
    <3> QED
      BY <2>1, <3>1 DEF Spares, SparesGrants
  <2>3. \A q \in Request : CallHolds(q)'
    BY <2>2, SparedHolds
  <2>4. WorkforceTyped' /\ LocksApart' /\ LostApart' /\ AbsencesDisjoint'
    BY <2>1 DEF WorkforceInv, WorkforceTyped, LocksApart, LostApart, Writing, AbsencesDisjoint
  <2> QED
    BY <2>3, <2>4 DEF WorkforceInv
<1>2. CASE WorkforceNext
  BY <1>2, CreateEmployeeStands, EmployeeEditsStand, BeginStands, CheckGrantStands, GrantStepsStand,
     CheckAbsenceStands, AbsenceStepsStand, VehicleStepsStand, ReadingStands, WriteVehiclesStands,
     WritePersonStands, CommitMatrixStands DEF WorkforceNext
<1> QED
  BY <1>1, <1>2, CatalogueApart DEF Next

\* However the requests of managers cross the import of a matrix: rows are locked by
\* one call, what a call found under its locks is so until it writes, and what an
\* import has written is its matrix so far.
THEOREM WorkforceRecordsStand == Spec => []WorkforceInv
<1> QED
  BY WorkforceStarts, WorkforceKept, PTL DEF Spec

\* A driving authorization is added by a grant or by the import of a matrix.
LEMMA GrantsAdded ==
  ASSUME WorkforceInv, WorkforceNext, NEW g \in grants' \ grants
  PROVE  \/ \E q \in Request : calls[q].stage = "people" /\ calls'[q].stage = "done"
         \/ employees[g[1]].active /\ vehicles[g[2]].active
<1>1. PICK q \in Request :
        \/ Grant(q) \/ RevokeVehicle(q) \/ CommitMatrix(q)
        \/ UNCHANGED grants
  BY DEF WorkforceNext, CreateEmployee, BeginUpdate, Update, SetEmployeeActive, SetPermanentAssignment, ReplaceSkills,
     BeginGrant, CheckGrant, CheckAbsence, AddAvailability, RemoveAvailability, CreateVehicle, UpdateVehicle,
     SetVehicleActive, BeginMatrix, LockMatrix, WriteVehicles, WritePerson, FailMatrix
<1>2. CASE Grant(q)
  <2>1. calls[q].stage = "granted" /\ g = <<calls[q].id, calls[q].vehicle>>
    BY <1>2 DEF Grant
  <2>2. GrantHolds(q)
    BY DEF WorkforceInv, CallHolds
  <2> QED
    BY <2>1, <2>2 DEF GrantHolds
<1>3. CASE RevokeVehicle(q)
  BY <1>3 DEF RevokeVehicle
<1>4. CASE CommitMatrix(q)
  BY <1>4, CommitWrites DEF Writing
<1> QED
  BY <1>1, <1>2, <1>3, <1>4

\* Whatever is edited and imported at one time, a manager's authorization is given to
\* somebody employed for a vehicle in use when it is written, none is for a row that is
\* gone, and nobody is away twice on one day.
THEOREM GrantsAlwaysStand == Spec => GrantsStand
<1>1. ASSUME WorkforceInv, WorkforceInv', [Next]_<<catalogue, workforce, capacity>>
      PROVE  [/\ AbsencesDisjoint'
              /\ grants' \subseteq (DOMAIN employees') \X (DOMAIN vehicles')
              /\ \A g \in grants' \ grants :
                   \/ \E q \in Request : calls[q].stage = "people" /\ calls'[q].stage = "done"
                   \/ employees[g[1]].active /\ vehicles[g[2]].active]_workforce
  <2>1. AbsencesDisjoint' /\ grants' \subseteq (DOMAIN employees') \X (DOMAIN vehicles')
    BY <1>1 DEF WorkforceInv, WorkforceTyped
  <2>2. WorkforceNext \/ UNCHANGED workforce
    BY <1>1, CatalogueApart DEF Next
  <2> QED
    BY <1>1, <2>1, <2>2, GrantsAdded
<1> QED
  BY <1>1, WorkforceRecordsStand, PTL DEF Spec, GrantsStand

\* What the import of a matrix leaves is the matrix: its people and what they drive ...
LEMMA PeopleAsTicked ==
  ASSUME WorkforceInv, NEW q \in Request, CommitMatrix(q), NEW i \in DOMAIN calls[q].matrix.people
  PROVE  LET p == calls[q].matrix.people[i]
         IN  \E e \in DOMAIN employees' :
               /\ employees'[e].key = p.key /\ employees'[e].active /\ employees'[e].skills = p.skills
               /\ {vehicles'[g[2]].code : g \in {h \in grants' : h[1] = e}} = p.codes
<1> DEFINE tx == calls[q].tx
           people == calls[q].matrix.people
           People == {people[j] : j \in DOMAIN people}
<1>1. /\ Writing(q) /\ calls[q].rest = <<>> /\ RowsHold(q) /\ PeopleHold(q)
      /\ DOMAIN employees' = DOMAIN employees \cup DOMAIN tx.employees
      /\ \A e \in DOMAIN tx.employees : employees'[e] = tx.employees[e]
      /\ \A v \in DOMAIN tx.vehicles : vehicles'[v] = tx.vehicles[v]
      /\ grants' = SeenGrants(q)
  BY CommitWrites
<1>2. calls[q].matrix \in Matrices
  BY <1>1 DEF WorkforceInv, CallHolds, ReadHolds, Writing
<1>3. people \in Seq(People) /\ people[i].codes \subseteq calls[q].matrix.codes
  BY <1>2, WorkforceAssumption DEF MatrixHolds
<1>4. i \in 1..PeopleDone(q)
  <2>1. PeopleDone(q) = Len(people) - Len(calls[q].rest)
    BY DEF PeopleDone
  <2>2. i \in DOMAIN people
    OBVIOUS
  <2> HIDE DEF people, People
  <2> QED
    BY <1>1, <1>3, <2>1, <2>2
<1>5. PICK e \in DOMAIN tx.employees : AsTicked(q, e, people[i])
  BY <1>1, <1>4 DEF PeopleHold
<1>6. PICK p : p = people[i]
  OBVIOUS
<1>7. /\ tx.employees[e].key = p.key /\ tx.employees[e].active /\ tx.employees[e].skills = p.skills
      /\ {h \in grants' : h[1] = e} = {<<e, v>> : v \in Ticked(q, p)}
  BY <1>1, <1>5, <1>6 DEF AsTicked
<1>8. {vehicles'[g[2]].code : g \in {<<e, v>> : v \in Ticked(q, p)}} = p.codes
  <2>1. ASSUME NEW v \in Ticked(q, p) PROVE vehicles'[v].code \in p.codes
    BY <1>1 DEF Ticked
  <2>2. ASSUME NEW c \in p.codes PROVE \E v \in Ticked(q, p) : vehicles'[v].code = c
    <3>1. PICK v \in DOMAIN tx.vehicles : tx.vehicles[v].code = c
      BY <1>1, <1>3, <1>6 DEF RowsHold
    <3> QED
      BY <1>1, <3>1 DEF Ticked
  <2> DEFINE pairs == {<<e, v>> : v \in Ticked(q, p)}
             codes == {vehicles'[g[2]].code : g \in pairs}
  <2>3. \A g \in pairs : g[2] \in Ticked(q, p)
    OBVIOUS
  <2>4. ASSUME NEW v \in Ticked(q, p) PROVE \E g \in pairs : g[2] = v
    <3>1. <<e, v>> \in pairs /\ <<e, v>>[2] = v
      OBVIOUS
    <3> HIDE DEF pairs
    <3> QED
      BY <3>1
  <2> HIDE DEF pairs
  <2>5. \A c \in codes : c \in p.codes
    BY <2>1, <2>3
  <2>6. \A c \in p.codes : c \in codes
    BY <2>2, <2>4
  <2> HIDE DEF codes
  <2>7. codes = p.codes
    BY <2>5, <2>6
  <2> QED
    BY <2>7 DEF codes, pairs
<1>9. {vehicles'[g[2]].code : g \in {h \in grants' : h[1] = e}} = p.codes
  BY <1>7, <1>8, Zenon
<1>10. e \in DOMAIN employees' /\ employees'[e] = tx.employees[e]
  BY <1>1
<1> QED
  BY <1>6, <1>7, <1>9, <1>10

\* ... and of everybody else each authorization, for the vehicle that stays.
LEMMA DriversKept ==
  ASSUME WorkforceInv, NEW q \in Request, CommitMatrix(q), NEW g \in grants
  PROVE  \/ g[2] \in DOMAIN vehicles' \/ g[1] \in DOMAIN calls[q].tx.employees
         \/ \E w \in DOMAIN vehicles' : <<g[1], w>> \in grants' /\ vehicles'[w].code \in calls[q].matrix.codes
<1> DEFINE tx == calls[q].tx
<1>1. /\ RowsHold(q) /\ GrantsHold(q) /\ grants' = SeenGrants(q)
      /\ DOMAIN vehicles' = (DOMAIN vehicles \ tx.gone) \cup DOMAIN tx.vehicles
      /\ \A v \in DOMAIN tx.vehicles : vehicles'[v] = tx.vehicles[v]
  BY CommitWrites
<1>2. g[2] \in DOMAIN vehicles
  BY DEF WorkforceInv, WorkforceTyped
<1>3. CASE g[2] \in tx.gone
  <2>1. g[1] \in DOMAIN tx.employees \/ \E w \in DOMAIN tx.vehicles : <<g[1], w>> \in SeenGrants(q)
    BY <1>1, <1>3 DEF GrantsHold
  <2> QED
    BY <1>1, <2>1 DEF RowsHold
<1> QED
  BY <1>1, <1>2, <1>3

\* A committed import is its matrix as a whole, whatever managers changed while it ran,
\* and nobody else loses a vehicle to the merging of two spellings.
THEOREM MatrixAlwaysStands == Spec => MatrixStands
<1>1. WorkforceInv /\ [Next]_<<catalogue, workforce, capacity>> =>
        [\A q \in Request : CommitMatrix(q) =>
           /\ \A i \in DOMAIN calls[q].matrix.people :
                LET p == calls[q].matrix.people[i]
                IN  \E e \in DOMAIN employees' :
                      /\ employees'[e].key = p.key /\ employees'[e].active /\ employees'[e].skills = p.skills
                      /\ {vehicles'[g[2]].code : g \in {h \in grants' : h[1] = e}} = p.codes
           /\ \A g \in grants :
                g[2] \in DOMAIN vehicles' \/ g[1] \in DOMAIN calls[q].tx.employees
                \/ \E w \in DOMAIN vehicles' : <<g[1], w>> \in grants' /\ vehicles'[w].code \in calls[q].matrix.codes
        ]_workforce
  BY PeopleAsTicked, DriversKept
<1> QED
  BY <1>1, WorkforceRecordsStand, PTL DEF Spec, MatrixStands

\* The people and vehicles the schedule is made of stand while it is made.
THEOREM PeopleStand == Spec => WorkforceStands
<1> QED
  BY MatrixAlwaysStands, GrantsAlwaysStand, LiveCrewsAlwaysStand DEF WorkforceStands

==============================================================================
