------------------------- MODULE PublishedRepairProofs -------------------------
(***************************************************************************)
(* What the repair of published assignments keeps, for any number of       *)
(* visits, employees, calls and keys: the calendar, the answers and the    *)
(* history.  The invariant says, besides the properties, what identities   *)
(* a visit's assignments have, and what a call that judged its plan still  *)
(* finds when it commits.                                                  *)
(*                                                                         *)
(* The second half is about what managers and crews are shown of it: the   *)
(* story a visit's published assignments tell is found by following who    *)
(* replaced whom, and a second invariant says enough about that to write   *)
(* the story down.                                                         *)
(***************************************************************************)
EXTENDS ReadModels, FoldTheorems

-----------------------------------------------------------------------------
(* Types *)

VisitStatus == {"PENDING", "SCHEDULED", "UNASSIGNED"}
VisitRecord == [status : VisitStatus, reasons : SUBSET {"withdrawn"}, rev : Nat]
Codes == {"EMPLOYEE_DOUBLE_BOOKED", "EMPLOYEE_UNAVAILABLE", "ASSIGNMENT_LOCKED", "BATCH"}
ItemRow == [operation : Operation, fingerprint : [source : Row, status : VisitStatus, rev : Nat],
            scope : {"HISTORICAL", "CURRENT_DAY", "FUTURE"}, conflicts : SUBSET Codes]
Form == [operations : SUBSET Operation, plan : SUBSET ItemRow, acknowledged : BOOLEAN]
Written == [operation : Operation, replacement : Nat]
RepairRow == [key : Key, form : Form, items : SUBSET Written]
CallPC == {"idle", "sent", "preflight", "begun", "locked", "judged", "applied", "refused", "failed"}
CallRow == [pc : CallPC, key : Key \cup {None}, form : Form, result : SUBSET Written]

TypeOK ==
  /\ visits \in [Visit -> VisitRecord]
  /\ rows \in [Visit -> SUBSET Row]
  /\ intents \subseteq Intent
  /\ repairs \subseteq RepairRow
  /\ calls \in [Call -> CallRow]
  /\ visitLock \in [Visit -> Call \cup {None}]
  /\ crewLock \in [Employee -> Call \cup {None}]

\* A call that is in flight has a key, and a form with one operation for a source.
OnePerSource(operations) ==
  \A o, p \in operations : o.visit = p.visit /\ o.id = p.id => o = p
Sent(c) == calls[c].pc # "idle" => calls[c].key \in Key /\ OnePerSource(calls[c].form.operations)

-----------------------------------------------------------------------------
(* Identities: the assignments of a visit are numbered without a gap, a draft  *)
(* is alone, and what an assignment supersedes is superseded.                  *)

Ids(v) == {a.id : a \in rows[v]}
Numbered(v) ==
  /\ \E n \in Nat : Ids(v) = 1 .. n
  /\ \A a, b \in rows[v] : a.id = b.id => a = b
Drafted(v) == \A a \in rows[v] : a.status = "DRAFT" => rows[v] = {a}
Descended(v) ==
  \A a \in rows[v] : a.supersedes # 0 =>
    \E b \in rows[v] : b.id = a.supersedes /\ b.status = "SUPERSEDED"
\* An intent is about an assignment that was published.
Addressed == \A i \in intents : \E a \in rows[i.visit] : a.id = i.id /\ a.status # "DRAFT"

\* What a recorded repair took away is superseded.
Settled == \A r \in repairs : \A i \in r.items :
             \E a \in rows[i.operation.visit] : a.id = i.operation.id /\ a.status = "SUPERSEDED"

RowsInv == (\A v \in Visit : Numbered(v) /\ Drafted(v) /\ Descended(v)) /\ Addressed /\ Settled

-----------------------------------------------------------------------------
(* Calls *)

Locked(c) ==
  calls[c].pc \in {"locked", "judged"} =>
    \A o \in calls[c].form.operations :
      visitLock[o.visit] = c /\ \A e \in o.crew : crewLock[e] = c

\* What a plan keeps from its judgement to its commit.
Sourced(operations) ==
  \A o \in operations :
    /\ \E a \in Published(o.visit) : a.id = o.id
    /\ \A a \in Published(o.visit) : \E p \in operations : p.visit = o.visit /\ p.id = a.id
    /\ \A p \in operations : p.visit = o.visit /\ Replaces(p) /\ Replaces(o) => p = o
Unclashing(operations) ==
  \A o \in operations : Replaces(o) =>
    /\ ~ Booked(o, operations) /\ ~ SourceRow(o).pinned
    /\ \A p \in operations \ {o} : DayOf[p.visit] = DayOf[o.visit] => p.crew \cap o.crew = {}
Reviewed(form) ==
  \A i \in form.plan :
    i.operation \in form.operations /\ i.conflicts = {} /\ Fingerprint(i.operation) = i.fingerprint
Stands(c) ==
  calls[c].pc = "judged" =>
    /\ Sourced(calls[c].form.operations)
    /\ Unclashing(calls[c].form.operations)
    /\ Reviewed(calls[c].form)

CallsInv == \A c \in Call : Sent(c) /\ Locked(c) /\ Stands(c)

RepairInv ==
  TypeOK /\ RowsInv /\ CallsInv /\ CalendarHolds /\ OneLineOfDescent /\ AnswerIsRecorded

-----------------------------------------------------------------------------
(* Lemmas about the model's operators *)

LEMMA NextIdIsFree ==
  ASSUME TypeOK, NEW v \in Visit, Numbered(v)
  PROVE  \E n \in Nat : Ids(v) = 1 .. n /\ NextId(v) = n + 1
<1>1. PICK n \in Nat : Ids(v) = 1 .. n
  BY DEF Numbered
<1> DEFINE f == [a \in rows[v] |-> a.id]
<1>2. \A a \in rows[v] : a.id \in 1 .. n
  BY <1>1 DEF Ids
<1>3. \A i \in 1 .. n : \E a \in rows[v] : a.id = i
  BY <1>1 DEF Ids
<1>4. f \in Injection(rows[v], 1 .. n)
  BY <1>2 DEF Injection, Numbered, IsInjective
<1>5. f \in Surjection(rows[v], 1 .. n)
  BY <1>2, <1>3 DEF Surjection
<1> HIDE DEF f
<1>6. IsFiniteSet(1 .. n) /\ Cardinality(1 .. n) = n
  BY FS_Interval
<1>7. Cardinality(rows[v]) = n
  BY <1>4, <1>5, <1>6, FS_Injection
<1>8. QED
  BY <1>1, <1>7 DEF NextId

\* The operations the page can propose name each source once.
LEMMA ProposalsName ==
  ASSUME TypeOK, NEW operations \in Proposals
  PROVE  operations \subseteq Operation /\ OnePerSource(operations)
<1>0. PICK sources \in SUBSET PublishedIds : \E crews \in [sources -> Crews \cup {{}}] :
        operations = {[visit |-> s[1], id |-> s[2], crew |-> crews[s]] : s \in sources}
  BY DEF Proposals
<1>1. PICK crews \in [sources -> Crews \cup {{}}] :
        operations = {[visit |-> s[1], id |-> s[2], crew |-> crews[s]] : s \in sources}
  BY <1>0
<1>2. \A s \in PublishedIds : s[1] \in Visit /\ s[2] \in Nat /\ s = <<s[1], s[2]>>
  BY DEF PublishedIds, Published, TypeOK, Row
<1>3. \A s \in sources : crews[s] \in SUBSET Employee
  BY RepairAssumption
<1>4. operations \subseteq Operation
  BY <1>1, <1>2, <1>3 DEF Operation
<1>5. OnePerSource(operations)
  BY <1>1, <1>2 DEF OnePerSource
<1>6. QED
  BY <1>4, <1>5

\* The row a plan names, when it is there.
LEMMA SourceIs ==
  ASSUME NEW v \in Visit, Numbered(v), NEW o \in Operation, o.visit = v, NEW a \in rows[v], a.id = o.id
  PROVE  SourceRow(o) = a
  BY DEF SourceRow, Numbered

LEMMA PlanType ==
  ASSUME TypeOK, RowsInv, NEW operations \in SUBSET Operation, Repairable(operations)
  PROVE  Plan(operations) \subseteq ItemRow
<1> SUFFICES ASSUME NEW o \in operations PROVE Item(o, operations) \in ItemRow
  BY DEF Plan
<1>1. o \in Operation /\ o.visit \in Visit
  BY DEF Operation
<1>2. PICK a \in rows[o.visit] : a.id = o.id
  BY DEF Repairable, Published
<1>3. SourceRow(o) \in Row
  BY <1>1, <1>2, SourceIs DEF RowsInv, TypeOK
<1>4. Fingerprint(o) \in [source : Row, status : VisitStatus, rev : Nat]
  BY <1>1, <1>3 DEF Fingerprint, TypeOK, VisitRecord
<1>5. TimeScope(o.visit) \in {"HISTORICAL", "CURRENT_DAY", "FUTURE"}
  <2>1. \/ TimeScope(o.visit) = "HISTORICAL" \/ TimeScope(o.visit) = "CURRENT_DAY"
        \/ TimeScope(o.visit) = "FUTURE"
    BY DEF TimeScope
  <2>2. QED
    BY <2>1
<1>6. Conflicts(o, operations) \subseteq Codes
  BY DEF Conflicts, RuleConflicts, Codes
<1>7. QED
  BY <1>1, <1>4, <1>5, <1>6 DEF Item, ItemRow

-----------------------------------------------------------------------------
(* Type correctness *)

LEMMA AnswerType ==
  ASSUME TypeOK, NEW c \in Call, NEW pc \in CallPC, NEW result \in SUBSET Written, Answer(c, pc, result)
  PROVE  /\ calls' \in [Call -> CallRow]
         /\ visitLock' \in [Visit -> Call \cup {None}] /\ crewLock' \in [Employee -> Call \cup {None}]
<1>1. [calls[c] EXCEPT !.pc = pc, !.result = result] \in CallRow
  BY DEF TypeOK, CallRow
<1>2. calls' = [calls EXCEPT ![c] = [calls[c] EXCEPT !.pc = pc, !.result = result]]
  BY DEF Answer, TypeOK
<1>3. calls' \in [Call -> CallRow]
  BY <1>1, <1>2 DEF TypeOK
<1>4. QED
  BY <1>3 DEF Answer, TypeOK

LEMMA GotoType ==
  ASSUME TypeOK, NEW c \in Call, NEW pc \in CallPC, Goto(c, pc)
  PROVE  calls' \in [Call -> CallRow]
<1>1. [calls[c] EXCEPT !.pc = pc] \in CallRow
  BY DEF TypeOK, CallRow
<1>2. QED
  BY <1>1 DEF Goto, TypeOK

LEMMA ReplayType ==
  ASSUME TypeOK, NEW c \in Call, ReplayOrReject(c)
  PROVE  /\ calls' \in [Call -> CallRow]
         /\ visitLock' \in [Visit -> Call \cup {None}] /\ crewLock' \in [Employee -> Call \cup {None}]
<1>1. PICK r \in repairs : IF r.form = calls[c].form THEN Answer(c, "applied", r.items) ELSE Answer(c, "refused", {})
  BY DEF ReplayOrReject, Recorded
<1>2. r.items \in SUBSET Written
  BY DEF TypeOK, RepairRow
<1>3. QED
  BY <1>1, <1>2, AnswerType DEF CallPC

LEMMA PreviewType ==
  ASSUME RepairInv, NEW c \in Call, Preview(c)
  PROVE  /\ calls' \in [Call -> CallRow]
         /\ Sent(c)' /\ calls'[c].pc = "sent"
<1> USE DEF RepairInv
<1>1. PICK operations \in Proposals, key \in Key, acknowledged \in BOOLEAN :
        /\ Repairable(operations)
        /\ calls' = [calls EXCEPT ![c] =
             [IdleCall EXCEPT !.pc = "sent", !.key = key,
                              !.form = [operations |-> operations, plan |-> Plan(operations),
                                        acknowledged |-> acknowledged]]]
  BY DEF Preview
<1>2. operations \in SUBSET Operation /\ OnePerSource(operations)
  BY ProposalsName
<1>3. [operations |-> operations, plan |-> Plan(operations), acknowledged |-> acknowledged] \in Form
  BY <1>1, <1>2, PlanType DEF Form
<1> DEFINE sent == [IdleCall EXCEPT !.pc = "sent", !.key = key,
                              !.form = [operations |-> operations, plan |-> Plan(operations),
                                        acknowledged |-> acknowledged]]
<1>4. sent \in CallRow /\ sent.pc = "sent" /\ sent.key = key /\ sent.form.operations = operations
  BY <1>3 DEF IdleCall, CallRow, CallPC
<1>5. calls' = [calls EXCEPT ![c] = sent]
  BY <1>1
<1> HIDE DEF sent
<1>6. calls'[c] = sent /\ calls' \in [Call -> CallRow]
  BY <1>4, <1>5 DEF TypeOK
<1>7. QED
  BY <1>2, <1>4, <1>6 DEF Sent

LEMMA RepeatType ==
  ASSUME RepairInv, NEW c \in Call, NEW first \in Call, Repeat(c, first)
  PROVE  /\ calls' \in [Call -> CallRow]
         /\ Sent(c)' /\ calls'[c].pc = "sent"
<1> USE DEF RepairInv
<1> DEFINE sent == [IdleCall EXCEPT !.pc = "sent", !.key = calls[first].key, !.form = calls[first].form]
<1>1. calls[first] \in CallRow /\ calls[first].pc # "idle"
  BY DEF TypeOK, Repeat
<1>2. sent \in CallRow /\ sent.pc = "sent" /\ sent.key = calls[first].key /\ sent.form = calls[first].form
  BY <1>1 DEF IdleCall, CallRow, CallPC
<1>3. calls' = [calls EXCEPT ![c] = sent]
  BY DEF Repeat
<1> HIDE DEF sent
<1>4. calls'[c] = sent /\ calls' \in [Call -> CallRow]
  BY <1>2, <1>3 DEF TypeOK
<1>5. Sent(first)
  BY DEF CallsInv
<1>6. QED
  BY <1>1, <1>2, <1>4, <1>5 DEF Sent

\* A call that goes on keeps its key and its form.
Keeps(c) == calls'[c].key = calls[c].key /\ calls'[c].form = calls[c].form

LEMMA AnswerKeeps ==
  ASSUME TypeOK, NEW c \in Call, NEW pc, NEW result, Answer(c, pc, result)
  PROVE  Keeps(c) /\ calls'[c].pc = pc /\ calls'[c].result = result
<1>1. calls = [d \in Call |-> calls[d]] /\ calls[c] \in CallRow
  BY DEF TypeOK
<1>2. calls'[c] = [calls[c] EXCEPT !.pc = pc, !.result = result]
  BY <1>1 DEF Answer
<1>3. QED
  BY <1>1, <1>2 DEF Keeps, CallRow

LEMMA GotoKeeps ==
  ASSUME TypeOK, NEW c \in Call, NEW pc, Goto(c, pc)
  PROVE  Keeps(c) /\ calls'[c].pc = pc
<1>1. calls = [d \in Call |-> calls[d]] /\ calls[c] \in CallRow
  BY DEF TypeOK
<1>2. calls'[c] = [calls[c] EXCEPT !.pc = pc]
  BY <1>1 DEF Goto
<1>3. QED
  BY <1>1, <1>2 DEF Keeps, CallRow

LEMMA ReplayKeeps ==
  ASSUME TypeOK, NEW c \in Call, ReplayOrReject(c)
  PROVE  /\ Keeps(c) /\ calls'[c].pc \in {"applied", "refused"}
         /\ calls'[c].pc = "applied" =>
              \E r \in repairs : r.key = calls[c].key /\ r.form = calls[c].form /\ r.items = calls'[c].result
<1>1. PICK r \in Recorded(c) :
        IF r.form = calls[c].form THEN Answer(c, "applied", r.items) ELSE Answer(c, "refused", {})
  BY DEF ReplayOrReject
<1>2. CASE r.form = calls[c].form /\ Answer(c, "applied", r.items)
  BY <1>2, AnswerKeeps DEF Recorded
<1>3. CASE Answer(c, "refused", {})
  BY <1>3, AnswerKeeps
<1>4. QED
  BY <1>1, <1>2, <1>3

-----------------------------------------------------------------------------
(* Steps *)

\* A commit that writes.
Land(c) == Commit(c) /\ Recorded(c) = {}
\* A call's step that writes nothing but the call and its locks.
Converses(c) ==
  \/ Preview(c) \/ (\E first \in Call : Repeat(c, first))
  \/ LookUp(c) \/ Preflight(c) \/ Lock(c) \/ Judge(c) \/ Fail(c)
  \/ Commit(c) /\ Recorded(c) # {}
Drafting(v) == (\E crew \in Crews, pinned \in BOOLEAN : Book(v, crew, pinned)) \/ Unbook(v) \/ PublishDraft(v) \/ SetLocked(v)
Quiet == UNCHANGED <<visits, rows, intents, repairs>>
Elsewhere == UNCHANGED <<calls, visitLock, crewLock>>

LEMMA Steps ==
  [Next]_vars =>
    \/ \E c \in Call : Converses(c) \/ Land(c)
    \/ \E v \in Visit : Drafting(v)
    \/ Quiet /\ Elsewhere
<1>1. ASSUME NEW c \in Call, Preview(c) \/ Apply(c) \/ \E first \in Call : Repeat(c, first)
      PROVE  Converses(c) \/ Land(c)
  BY <1>1 DEF Converses, Land, Apply
<1>2. ASSUME NEW e, NEW day, AddAvailability(e, day) PROVE Quiet /\ Elsewhere
  BY <1>2 DEF AddAvailability, Quiet, Elsewhere
<1>3. Midnight => Quiet /\ Elsewhere
  BY DEF Midnight, Quiet, Elsewhere
<1>4. UNCHANGED vars => Quiet /\ Elsewhere
  BY DEF vars, Quiet, Elsewhere
<1>5. QED
  BY <1>1, <1>2, <1>3, <1>4 DEF Next, Drafting

LEMMA ConversesIsQuiet == ASSUME NEW c \in Call, Converses(c) PROVE Quiet
  BY DEF Converses, Preview, Repeat, LookUp, Preflight, Lock, Judge, Fail, Commit, Quiet

LEMMA DraftingIsElsewhere == ASSUME NEW v \in Visit, Drafting(v) PROVE Elsewhere /\ UNCHANGED repairs
  BY DEF Drafting, Book, Unbook, PublishDraft, SetLocked, Elsewhere

\* What a call's own steps do to it, and what they leave of the others.
LEMMA OthersStay ==
  ASSUME TypeOK, NEW c \in Call, Converses(c) \/ Land(c), NEW d \in Call \ {c}
  PROVE  /\ calls'[d] = calls[d]
         /\ \A v \in Visit : visitLock[v] = d => visitLock'[v] = d
         /\ \A e \in Employee : crewLock[e] = d => crewLock'[e] = d
<1> DEFINE Stay == /\ calls'[d] = calls[d]
                   /\ \A v \in Visit : visitLock[v] = d => visitLock'[v] = d
                   /\ \A e \in Employee : crewLock[e] = d => crewLock'[e] = d
<1>0. calls = [b \in Call |-> calls[b]] /\ d # c /\ d # None
  BY RepairAssumption DEF TypeOK
<1>1. ASSUME NEW pc, NEW result, Answer(c, pc, result) PROVE Stay
  BY <1>0, <1>1 DEF Answer, TypeOK
<1>2. ASSUME NEW pc, Goto(c, pc) PROVE calls'[d] = calls[d]
  BY <1>0, <1>2 DEF Goto
<1>3. ReplayOrReject(c) => Stay
  <2>1. ReplayOrReject(c) => Answer(c, "refused", {}) \/ \E r \in repairs : Answer(c, "applied", r.items)
    BY DEF ReplayOrReject, Recorded
  <2>2. QED
    BY <1>1, <2>1
<1> HIDE DEF Stay
<1>4. CASE Preview(c) \/ \E first \in Call : Repeat(c, first)
  BY <1>0, <1>4 DEF Preview, Repeat, Stay
<1>5. CASE LookUp(c)
  BY <1>2, <1>3, <1>5 DEF LookUp, Stay
<1>6. CASE Preflight(c)
  BY <1>1, <1>2, <1>6 DEF Preflight, Stay
<1>7. CASE Lock(c)
  BY <1>0, <1>2, <1>7 DEF Lock, LockCrew, Stay, TypeOK
<1>8. CASE Judge(c)
  BY <1>1, <1>2, <1>3, <1>8 DEF Judge, Stay
<1>9. Commit(c) => Stay
  <2>1. Commit(c) => ReplayOrReject(c) \/ \E items : Answer(c, "applied", items)
    BY DEF Commit
  <2>2. QED
    BY <1>1, <1>3, <2>1
<1>10. Fail(c) => Stay
  BY <1>1 DEF Fail
<1>11. QED
  BY <1>4, <1>5, <1>6, <1>7, <1>8, <1>9, <1>10 DEF Converses, Land, Stay

LEMMA OwnSteps ==
  ASSUME RepairInv, NEW c \in Call, Converses(c) \/ Land(c)
  PROVE  /\ Sent(c)'
         /\ calls'[c].pc \in {"locked", "judged"} => Keeps(c) /\ (Lock(c) \/ Judge(c))
         /\ calls'[c].pc = "judged" => Judge(c)
         /\ calls'[c].pc # "idle"
<1> USE DEF RepairInv
<1> DEFINE Own == /\ Sent(c)'
                  /\ calls'[c].pc \in {"locked", "judged"} => Keeps(c) /\ (Lock(c) \/ Judge(c))
                  /\ calls'[c].pc = "judged" => Judge(c)
                  /\ calls'[c].pc # "idle"
<1>0. Sent(c)
  BY DEF CallsInv
<1>1. ASSUME Keeps(c), calls[c].pc # "idle" PROVE Sent(c)'
  BY <1>0, <1>1 DEF Sent, Keeps
<1>2. CASE Preview(c) \/ \E first \in Call : Repeat(c, first)
  BY <1>2, PreviewType, RepeatType
<1>3. CASE LookUp(c)
  BY <1>1, <1>3, ReplayKeeps, GotoKeeps DEF LookUp
<1>4. CASE Preflight(c)
  BY <1>1, <1>4, AnswerKeeps, GotoKeeps DEF Preflight
<1>5. CASE Lock(c)
  BY <1>1, <1>5, GotoKeeps DEF Lock
<1>6. CASE Judge(c)
  BY <1>1, <1>6, ReplayKeeps, AnswerKeeps, GotoKeeps DEF Judge
<1>7. CASE Commit(c)
  BY <1>1, <1>7, ReplayKeeps, AnswerKeeps DEF Commit
<1>8. CASE Fail(c)
  BY <1>1, <1>8, AnswerKeeps DEF Fail
<1>9. QED
  BY <1>2, <1>3, <1>4, <1>5, <1>6, <1>7, <1>8 DEF Converses, Land

-----------------------------------------------------------------------------
(* What a commit that writes makes of a visit. *)

Ops(c) == calls[c].form.operations
Touched(c, v) == \E o \in Ops(c) : o.visit = v
Taken(c, v, id) == \E o \in Ops(c) : o.visit = v /\ o.id = id
After(c, v, a) == IF Taken(c, v, a.id) THEN [a EXCEPT !.status = "SUPERSEDED"] ELSE a
Successor(o) ==
  [id |-> NextId(o.visit), crew |-> o.crew, status |-> "PUBLISHED", pinned |-> FALSE, supersedes |-> o.id]
Heirs(c, v) == {o \in Ops(c) : o.visit = v /\ Replaces(o)}
Entry(c) ==
  [key |-> calls[c].key, form |-> calls[c].form,
   items |-> {[operation |-> o, replacement |-> IF Replaces(o) THEN NextId(o.visit) ELSE 0] : o \in Ops(c)}]

LEMMA LandWrites ==
  ASSUME RepairInv, NEW c \in Call, Land(c)
  PROVE  /\ calls[c].pc = "judged" /\ calls[c] \in CallRow /\ Ops(c) \subseteq Operation
         /\ repairs' = repairs \cup {Entry(c)}
         /\ Answer(c, "applied", Entry(c).items)
         /\ \A v \in Visit : rows'[v] = {After(c, v, a) : a \in rows[v]} \cup {Successor(o) : o \in Heirs(c, v)}
         /\ \A v \in Visit : ~ Touched(c, v) => visits'[v] = visits[v]
         /\ \A v \in Visit : Touched(c, v) =>
              /\ visits'[v].status = IF Heirs(c, v) = {} THEN "UNASSIGNED" ELSE "SCHEDULED"
              /\ visits'[v].reasons = IF Heirs(c, v) = {} THEN {"withdrawn"} ELSE {}
<1>1. calls[c].pc = "judged" /\ Recorded(c) = {} /\ calls[c] \in CallRow /\ Ops(c) \subseteq Operation
  BY DEF Land, Commit, RepairInv, TypeOK, CallRow, Form, Ops
<1>2. repairs' = repairs \cup {Entry(c)} /\ Answer(c, "applied", Entry(c).items)
  BY DEF Land, Commit, Entry, Ops
<1>3. ASSUME NEW v \in Visit
      PROVE  rows'[v] = {After(c, v, a) : a \in rows[v]} \cup {Successor(o) : o \in Heirs(c, v)}
  <2>1. rows'[v] = Supersede(v, Ops(c)) \cup
            {[id |-> NextId(v), crew |-> o.crew, status |-> "PUBLISHED", pinned |-> FALSE,
              supersedes |-> o.id] : o \in {p \in Ops(c) : p.visit = v} \cap {p \in Ops(c) : Replaces(p)}}
    BY DEF Land, Commit, Ops
  <2>2. Supersede(v, Ops(c)) = {After(c, v, a) : a \in rows[v]}
    BY DEF Supersede, After, Taken
  <2>3. {[id |-> NextId(v), crew |-> o.crew, status |-> "PUBLISHED", pinned |-> FALSE,
              supersedes |-> o.id] : o \in {p \in Ops(c) : p.visit = v} \cap {p \in Ops(c) : Replaces(p)}}
        = {Successor(o) : o \in Heirs(c, v)}
    <3>1. {p \in Ops(c) : p.visit = v} \cap {p \in Ops(c) : Replaces(p)} = Heirs(c, v)
      BY DEF Heirs
    <3>2. \A o \in Heirs(c, v) : Successor(o) = [id |-> NextId(v), crew |-> o.crew, status |-> "PUBLISHED",
                                                 pinned |-> FALSE, supersedes |-> o.id]
      BY DEF Heirs, Successor
    <3> HIDE DEF Heirs, Successor
    <3>3. QED
      BY <3>1, <3>2
  <2>4. QED
    BY <2>1, <2>2, <2>3
<1>4. ASSUME NEW v \in Visit
      PROVE  visits'[v] = IF {o \in Ops(c) : o.visit = v} = {} THEN visits[v]
                          ELSE Outcome(v, {o \in Ops(c) : o.visit = v})
  BY DEF Land, Commit, Ops
<1>5. ASSUME NEW v \in Visit, Touched(c, v)
      PROVE  /\ visits'[v].status = IF Heirs(c, v) = {} THEN "UNASSIGNED" ELSE "SCHEDULED"
             /\ visits'[v].reasons = IF Heirs(c, v) = {} THEN {"withdrawn"} ELSE {}
  <2>1. visits'[v] = Outcome(v, {o \in Ops(c) : o.visit = v})
    BY <1>4, <1>5 DEF Touched
  <2>2. (\E o \in {p \in Ops(c) : p.visit = v} : Replaces(o)) <=> Heirs(c, v) # {}
    BY DEF Heirs
  <2>3. visits[v] \in VisitRecord
    BY DEF RepairInv, TypeOK
  <2>4. ASSUME NEW rev, NEW status, NEW reasons
        PROVE  /\ [visits[v] EXCEPT !.rev = rev, !.status = status, !.reasons = reasons].status = status
               /\ [visits[v] EXCEPT !.rev = rev, !.status = status, !.reasons = reasons].reasons = reasons
    BY <2>3 DEF VisitRecord
  <2>5. QED
    BY <2>1, <2>2, <2>4 DEF Outcome
<1>6. \A v \in Visit : ~ Touched(c, v) => visits'[v] = visits[v]
  BY <1>4 DEF Touched
<1>7. QED
  BY <1>1, <1>2, <1>3, <1>5, <1>6

\* A call that commits still finds what it judged.
LEMMA LandStands ==
  ASSUME RepairInv, NEW c \in Call, Land(c)
  PROVE  /\ Sourced(Ops(c)) /\ Unclashing(Ops(c)) /\ Reviewed(calls[c].form) /\ OnePerSource(Ops(c))
         /\ \A o \in Ops(c) : /\ o.visit \in Visit /\ o.id \in Nat /\ o.crew \subseteq Employee
                              /\ visitLock[o.visit] = c /\ \A e \in o.crew : crewLock[e] = c
<1>1. calls[c].pc = "judged" /\ Ops(c) \subseteq Operation
  BY LandWrites
<1>2. Stands(c) /\ Locked(c) /\ Sent(c)
  BY DEF RepairInv, CallsInv
<1>3. QED
  BY <1>1, <1>2 DEF Stands, Locked, Sent, Ops, Operation

\* Every source is published, and what was in force of a visit gives way to one
\* successor at most.
LEMMA LandVisit ==
  ASSUME RepairInv, NEW c \in Call, Land(c), NEW v \in Visit
  PROVE  /\ \A a \in rows[v] : Taken(c, v, a.id) => a.status = "PUBLISHED"
         /\ Touched(c, v) => \A a \in rows[v] : a.status = "PUBLISHED" \/ a.status = "SUPERSEDED"
         /\ Touched(c, v) => \A a \in rows[v] : a.status = "PUBLISHED" => Taken(c, v, a.id)
         /\ Touched(c, v) => Live(v)' = {Successor(o) : o \in Heirs(c, v)}
         /\ ~ Touched(c, v) => rows'[v] = rows[v] /\ Live(v)' = Live(v)
         /\ \A o, p \in Heirs(c, v) : o = p
<1>0. Numbered(v) /\ Drafted(v) /\ rows[v] \subseteq Row
  BY DEF RepairInv, RowsInv, TypeOK
<1>1. \A a \in rows[v] : Taken(c, v, a.id) => a.status = "PUBLISHED"
  BY <1>0, LandStands DEF Taken, Sourced, Published, Numbered
<1>2. ASSUME Touched(c, v), NEW a \in rows[v] PROVE a.status = "PUBLISHED" \/ a.status = "SUPERSEDED"
  <2>1. PICK b \in rows[v] : b.status = "PUBLISHED"
    BY <1>2, LandStands DEF Touched, Sourced, Published
  <2>2. QED
    BY <1>0, <2>1 DEF Drafted, Row
<1>3. ASSUME Touched(c, v), NEW a \in rows[v], a.status = "PUBLISHED" PROVE Taken(c, v, a.id)
  <2>1. PICK o \in Ops(c) : o.visit = v
    BY <1>3 DEF Touched
  <2>2. \A x \in Published(v) : \E p \in Ops(c) : p.visit = v /\ p.id = x.id
    <3>1. \A x \in Published(o.visit) : \E p \in Ops(c) : p.visit = o.visit /\ p.id = x.id
      BY LandStands DEF Sourced
    <3>2. QED
      BY <2>1, <3>1
  <2>3. a \in Published(v)
    BY <1>3 DEF Published
  <2>4. QED
    BY <2>2, <2>3 DEF Taken
<1>4. rows'[v] = {After(c, v, a) : a \in rows[v]} \cup {Successor(o) : o \in Heirs(c, v)}
  BY LandWrites
<1>5. ASSUME NEW a \in rows[v]
      PROVE  After(c, v, a).status = IF Taken(c, v, a.id) THEN "SUPERSEDED" ELSE a.status
  BY <1>0 DEF After, Row
<1>6. \A o : Successor(o).status = "PUBLISHED"
  BY DEF Successor
<1>7. ASSUME Touched(c, v) PROVE Live(v)' = {Successor(o) : o \in Heirs(c, v)}
  <2>1. \A a \in rows[v] : After(c, v, a).status = "SUPERSEDED"
    BY <1>2, <1>3, <1>5, <1>7
  <2> HIDE DEF After, Successor
  <2>2. QED
    BY <1>4, <1>6, <2>1 DEF Live
<1>8. ASSUME ~ Touched(c, v) PROVE rows'[v] = rows[v] /\ Live(v)' = Live(v)
  <2>1. Heirs(c, v) = {}
    BY <1>8 DEF Touched, Heirs
  <2>2. \A a \in rows[v] : After(c, v, a) = a
    BY <1>8 DEF After, Taken, Touched
  <2> HIDE DEF After, Successor, Heirs
  <2>3. rows'[v] = rows[v]
    BY <1>4, <2>1, <2>2
  <2>4. QED
    BY <2>3 DEF Live
<1>9. \A o, p \in Heirs(c, v) : o = p
  BY LandStands DEF Heirs, Sourced
<1>10. QED
  BY <1>1, <1>2, <1>3, <1>7, <1>8, <1>9

-----------------------------------------------------------------------------
(* A commit keeps the identities. *)

LEMMA LandFresh ==
  ASSUME RepairInv, NEW c \in Call, Land(c), NEW v \in Visit
  PROVE  /\ \E n \in Nat : Ids(v) = 1 .. n /\ NextId(v) = n + 1
         /\ \A a \in rows[v] : a.id # NextId(v) /\ a.id # 0 /\ a.id \in Nat
         /\ NextId(v) # 0
<1>1. PICK n \in Nat : Ids(v) = 1 .. n /\ NextId(v) = n + 1
  BY NextIdIsFree DEF RepairInv, RowsInv
<1>2. ASSUME NEW a \in rows[v] PROVE a.id \in 1 .. n
  BY <1>1 DEF Ids
<1>3. QED
  BY <1>1, <1>2

LEMMA AfterKeeps ==
  ASSUME RepairInv, NEW c, NEW v \in Visit, NEW a \in rows[v]
  PROVE  LET b == After(c, v, a) IN
         /\ b.id = a.id /\ b.crew = a.crew /\ b.pinned = a.pinned /\ b.supersedes = a.supersedes
         /\ b.status = IF Taken(c, v, a.id) THEN "SUPERSEDED" ELSE a.status
         /\ b \in Row
<1>1. a \in Row
  BY DEF RepairInv, TypeOK
<1>2. QED
  BY <1>1 DEF After, Row

LEMMA SuccessorIs ==
  ASSUME NEW o
  PROVE  /\ Successor(o).id = NextId(o.visit) /\ Successor(o).crew = o.crew
         /\ Successor(o).status = "PUBLISHED" /\ Successor(o).pinned = FALSE
         /\ Successor(o).supersedes = o.id
  BY DEF Successor

\* Every row of a visit after a commit comes from one before it, or is a successor.
LEMMA LandOrigin ==
  ASSUME RepairInv, NEW c \in Call, Land(c), NEW v \in Visit, NEW b \in rows'[v]
  PROVE  (\E a \in rows[v] : b = After(c, v, a)) \/ (\E o \in Heirs(c, v) : b = Successor(o) /\ o.visit = v)
<1>1. rows'[v] = {After(c, v, a) : a \in rows[v]} \cup {Successor(o) : o \in Heirs(c, v)}
  BY LandWrites
<1>2. \A o \in Heirs(c, v) : o.visit = v
  BY DEF Heirs
<1> HIDE DEF After, Successor, Heirs
<1>3. QED
  BY <1>1, <1>2

LEMMA LandTypes == ASSUME RepairInv, NEW c \in Call, Land(c) PROVE TypeOK'
<1>1. \A o \in Ops(c) : o \in Operation /\ o.visit \in Visit /\ o.id \in Nat /\ o.crew \subseteq Employee
  BY LandWrites DEF Operation
<1>2. \A o \in Ops(c) : NextId(o.visit) \in Nat
  <2>1. \A v \in Visit : NextId(v) \in Nat
    BY LandFresh
  <2>2. QED
    BY <1>1, <2>1
<1>3. rows' \in [Visit -> SUBSET Row]
  <2>1. ASSUME NEW v \in Visit PROVE rows'[v] \subseteq Row
    <3>1. \A a \in rows[v] : After(c, v, a) \in Row
      BY AfterKeeps
    <3>2. \A o \in Heirs(c, v) : Successor(o) \in Row
      BY <1>1, <1>2 DEF Heirs, Successor, Row
    <3> HIDE DEF After, Successor, Heirs
    <3>3. QED
      BY <3>1, <3>2, LandOrigin
  <2>2. DOMAIN rows' = Visit /\ rows' = [v \in Visit |-> rows'[v]]
    BY DEF Land, Commit
  <2>3. QED
    BY <2>1, <2>2
<1>4. visits' \in [Visit -> VisitRecord]
  <2>1. ASSUME NEW v \in Visit, NEW os PROVE Outcome(v, os) \in VisitRecord
    <3>1. visits[v] \in VisitRecord
      BY DEF RepairInv, TypeOK
    <3>2. ASSUME NEW rev \in Nat, NEW status \in VisitStatus, NEW reasons \in SUBSET {"withdrawn"}
          PROVE  [visits[v] EXCEPT !.rev = rev, !.status = status, !.reasons = reasons] \in VisitRecord
      BY <3>1 DEF VisitRecord
    <3>3. visits[v].rev + 1 \in Nat
      BY <3>1 DEF VisitRecord
    <3>4. CASE \E o \in os : Replaces(o)
      <4>1. Outcome(v, os) = [visits[v] EXCEPT !.rev = visits[v].rev + 1, !.status = "SCHEDULED", !.reasons = {}]
        BY <3>4 DEF Outcome
      <4>2. QED
        BY <3>2, <3>3, <4>1 DEF VisitStatus
    <3>5. CASE ~ \E o \in os : Replaces(o)
      <4>1. Outcome(v, os) =
              [visits[v] EXCEPT !.rev = visits[v].rev + 1, !.status = "UNASSIGNED", !.reasons = {"withdrawn"}]
        BY <3>5 DEF Outcome
      <4>2. QED
        BY <3>2, <3>3, <4>1 DEF VisitStatus
    <3>6. QED
      BY <3>4, <3>5
  <2>2. visits \in [Visit -> VisitRecord]
    BY DEF RepairInv, TypeOK
  <2> HIDE DEF Outcome
  <2>3. visits' = [v \in Visit |-> IF {o \in Ops(c) : o.visit = v} = {} THEN visits[v]
                          ELSE Outcome(v, {o \in Ops(c) : o.visit = v})]
    BY DEF Land, Commit, Ops
  <2>4. QED
    BY <2>1, <2>2, <2>3
<1>5. Entry(c) \in RepairRow
  <2>1. calls[c].key \in Key /\ calls[c].form \in Form
    <3>1. calls[c] \in CallRow /\ Sent(c) /\ calls[c].pc = "judged"
      BY LandWrites DEF RepairInv, CallsInv
    <3>2. QED
      BY <3>1 DEF CallRow, Sent
  <2>2. Entry(c).items \subseteq Written
    BY <1>1, <1>2 DEF Entry, Written
  <2>3. QED
    BY <2>1, <2>2 DEF Entry, RepairRow
<1>6. repairs' \subseteq RepairRow
  BY <1>5, LandWrites DEF RepairInv, TypeOK
<1>7. intents' \subseteq Intent
  <2>1. ASSUME NEW v \in Visit, NEW id \in Nat, NEW crew \in SUBSET Employee,
               NEW event \in {"assignment.published", "assignment.corrected", "assignment.withdrawn"}
        PROVE  Intents(v, id, crew, event) \subseteq Intent
    <3>1. ASSUME NEW e \in crew
          PROVE  [visit |-> v, id |-> id, employee |-> e, event |-> event, cancelled |-> FALSE] \in Intent
      BY DEF Intent
    <3>2. QED
      BY <3>1 DEF Intents
  <2>2. \A o \in Ops(c) : SourceRow(o).crew \subseteq Employee
    <3>1. SUFFICES ASSUME NEW o \in Ops(c) PROVE SourceRow(o).crew \subseteq Employee
      OBVIOUS
    <3>2. PICK a \in rows[o.visit] : a.id = o.id
      BY LandStands DEF Sourced, Published
    <3>3. Numbered(o.visit) /\ a \in Row
      BY <1>1 DEF RepairInv, RowsInv, TypeOK
    <3>4. QED
      BY <1>1, <3>2, <3>3, SourceIs DEF Row
  <2>3. CancelIntents(Ops(c)) \subseteq Intent
    <3>1. \A i \in intents : i \in Intent /\ [i EXCEPT !.cancelled = TRUE] \in Intent
      BY DEF RepairInv, TypeOK, Intent
    <3>2. QED
      BY <3>1 DEF CancelIntents
  <2> DEFINE told == UNION {Intents(o.visit, o.id, SourceRow(o).crew,
                        IF Replaces(o) THEN "assignment.corrected" ELSE "assignment.withdrawn") : o \in Ops(c)}
             news == UNION {Intents(o.visit, NextId(o.visit), o.crew, "assignment.published") :
                        o \in {p \in Ops(c) : Replaces(p)}}
  <2>4. told \subseteq Intent
    BY <1>1, <2>1, <2>2
  <2>5. news \subseteq Intent
    BY <1>1, <1>2, <2>1
  <2> HIDE DEF told, news
  <2>6. intents' = CancelIntents(Ops(c)) \cup told \cup news
    BY DEF Land, Commit, Ops, told, news
  <2>7. QED
    BY <2>3, <2>4, <2>5, <2>6
<1>8. QED
  BY <1>3, <1>4, <1>5, <1>6, <1>7, LandWrites, AnswerType DEF RepairInv, TypeOK, CallPC, RepairRow

\* What a commit does to the intents.
Retold(c, i) == IF i.event = "assignment.published" /\ Taken(c, i.visit, i.id) THEN [i EXCEPT !.cancelled = TRUE] ELSE i
Notice(o, e) ==
  [visit |-> o.visit, id |-> o.id, employee |-> e, cancelled |-> FALSE,
   event |-> IF Replaces(o) THEN "assignment.corrected" ELSE "assignment.withdrawn"]
News(o, e) ==
  [visit |-> o.visit, id |-> NextId(o.visit), employee |-> e, cancelled |-> FALSE, event |-> "assignment.published"]

LEMMA LandIntents ==
  ASSUME RepairInv, NEW c \in Call, Land(c), NEW i
  PROVE  i \in intents' <=>
           \/ \E j \in intents : i = Retold(c, j)
           \/ \E o \in Ops(c) : \E e \in SourceRow(o).crew : i = Notice(o, e)
           \/ \E o \in Ops(c) : \E e \in o.crew : i = News(o, e)
<1> DEFINE told == UNION {Intents(o.visit, o.id, SourceRow(o).crew,
                      IF Replaces(o) THEN "assignment.corrected" ELSE "assignment.withdrawn") : o \in Ops(c)}
           news == UNION {Intents(o.visit, NextId(o.visit), o.crew, "assignment.published") :
                      o \in {p \in Ops(c) : Replaces(p)}}
<1>1. intents' = CancelIntents(Ops(c)) \cup told \cup news
  BY DEF Land, Commit, Ops
<1>2. i \in told <=> \E o \in Ops(c) : \E e \in SourceRow(o).crew : i = Notice(o, e)
  <2>1. \A o : i \in Intents(o.visit, o.id, SourceRow(o).crew,
                       IF Replaces(o) THEN "assignment.corrected" ELSE "assignment.withdrawn")
                 <=> \E e \in SourceRow(o).crew : i = Notice(o, e)
    BY DEF Intents, Notice
  <2> HIDE DEF Intents, Notice
  <2>2. QED
    BY <2>1
<1>3. i \in news <=> \E o \in Ops(c) : \E e \in o.crew : i = News(o, e)
  <2>1. \A o : i \in Intents(o.visit, NextId(o.visit), o.crew, "assignment.published")
                 <=> \E e \in o.crew : i = News(o, e)
    BY DEF Intents, News
  <2>2. \A o : (\E e \in o.crew : TRUE) => Replaces(o)
    BY DEF Replaces
  <2> HIDE DEF Intents, News
  <2>3. QED
    BY <2>1, <2>2
<1>4. i \in CancelIntents(Ops(c)) <=> \E j \in intents : i = Retold(c, j)
  BY DEF CancelIntents, Retold, Taken
<1> HIDE DEF told, news
<1>5. QED
  BY <1>1, <1>2, <1>3, <1>4

LEMMA LandRows == ASSUME RepairInv, NEW c \in Call, Land(c) PROVE RowsInv'
<1>1. ASSUME NEW v \in Visit PROVE Numbered(v)'
  <2>1. PICK n \in Nat : Ids(v) = 1 .. n /\ NextId(v) = n + 1
    BY LandFresh
  <2>2. Ids(v)' = Ids(v) \cup {NextId(v) : o \in Heirs(c, v)}
    <3>1. rows'[v] = {After(c, v, a) : a \in rows[v]} \cup {Successor(o) : o \in Heirs(c, v)}
      BY LandWrites
    <3>2. \A o \in Heirs(c, v) : Successor(o).id = NextId(v)
      BY SuccessorIs DEF Heirs
    <3>3. \A a \in rows[v] : After(c, v, a).id = a.id
      BY AfterKeeps
    <3> HIDE DEF After, Successor, Heirs
    <3>4. QED
      BY <3>1, <3>2, <3>3 DEF Ids
  <2>3. \E m \in Nat : Ids(v)' = 1 .. m
    <3>1. CASE Heirs(c, v) = {}
      BY <2>1, <2>2, <3>1
    <3>2. CASE Heirs(c, v) # {}
      <4>1. Ids(v)' = (1 .. n) \cup {n + 1}
        BY <2>1, <2>2, <3>2
      <4>2. (1 .. n) \cup {n + 1} = 1 .. (n + 1)
        OBVIOUS
      <4>3. QED
        BY <4>1, <4>2
    <3>3. QED
      BY <3>1, <3>2
  <2>4. ASSUME NEW a \in rows'[v], NEW b \in rows'[v], a.id = b.id PROVE a = b
    <3>1. \A x \in rows[v] : After(c, v, x).id = x.id /\ x.id # NextId(v)
      BY AfterKeeps, LandFresh
    <3>2. \A o \in Heirs(c, v) : Successor(o).id = NextId(v)
      BY SuccessorIs DEF Heirs
    <3>3. \A x, y \in rows[v] : x.id = y.id => x = y
      BY DEF RepairInv, RowsInv, Numbered
    <3>4. \A o, p \in Heirs(c, v) : o = p
      BY LandVisit
    <3> HIDE DEF After, Successor, Heirs
    <3>5. QED
      BY <2>4, <3>1, <3>2, <3>3, <3>4, LandOrigin
  <2>5. QED
    BY <2>3, <2>4 DEF Numbered
<1>2. ASSUME NEW v \in Visit PROVE Drafted(v)'
  <2>1. CASE Touched(c, v)
    <3>1. \A a \in rows[v] : After(c, v, a).status # "DRAFT"
      BY <2>1, AfterKeeps, LandVisit
    <3>2. \A o : Successor(o).status # "DRAFT"
      BY SuccessorIs
    <3>3. \A b \in rows'[v] : b.status # "DRAFT"
      BY <3>1, <3>2, LandOrigin
    <3>4. QED
      BY <3>3 DEF Drafted
  <2>2. CASE ~ Touched(c, v)
    BY <2>2, LandVisit DEF RepairInv, RowsInv, Drafted
  <2>3. QED
    BY <2>1, <2>2
<1>3. ASSUME NEW v \in Visit, NEW a \in rows[v]
      PROVE  After(c, v, a) \in rows'[v]
  <2>1. rows'[v] = {After(c, v, x) : x \in rows[v]} \cup {Successor(o) : o \in Heirs(c, v)}
    BY LandWrites
  <2> HIDE DEF After, Successor, Heirs
  <2>2. QED
    BY <2>1
<1>4. ASSUME NEW v \in Visit PROVE Descended(v)'
  <2> SUFFICES ASSUME NEW b \in rows'[v], b.supersedes # 0
               PROVE  \E x \in rows'[v] : x.id = b.supersedes /\ x.status = "SUPERSEDED"
    BY DEF Descended
  <2>1. ASSUME NEW a \in rows[v], b = After(c, v, a)
        PROVE  \E x \in rows'[v] : x.id = b.supersedes /\ x.status = "SUPERSEDED"
    <3>1. a.supersedes = b.supersedes
      BY <2>1, AfterKeeps
    <3>2. PICK y \in rows[v] : y.id = a.supersedes /\ y.status = "SUPERSEDED"
      BY <3>1 DEF RepairInv, RowsInv, Descended
    <3>3. QED
      BY <1>3, <3>1, <3>2, AfterKeeps
  <2>2. ASSUME NEW o \in Heirs(c, v), b = Successor(o)
        PROVE  \E x \in rows'[v] : x.id = b.supersedes /\ x.status = "SUPERSEDED"
    <3>1. o \in Ops(c) /\ o.visit = v /\ b.supersedes = o.id
      BY <2>2, SuccessorIs DEF Heirs
    <3>2. PICK y \in rows[v] : y.id = o.id
      BY <3>1, LandStands DEF Sourced, Published
    <3>3. Taken(c, v, y.id)
      BY <3>1, <3>2 DEF Taken
    <3>4. QED
      BY <1>3, <3>1, <3>2, <3>3, AfterKeeps
  <2>3. QED
    BY <2>1, <2>2, LandOrigin
<1>5. Settled'
  <2> SUFFICES ASSUME NEW r \in repairs', NEW i \in r.items
               PROVE  /\ i.operation.visit \in Visit
                      /\ \E x \in rows'[i.operation.visit] : x.id = i.operation.id /\ x.status = "SUPERSEDED"
    BY DEF Settled
  <2>1. CASE r \in repairs
    <3>1. i.operation.visit \in Visit
      BY <2>1 DEF RepairInv, TypeOK, RepairRow, Written, Operation
    <3>2. PICK y \in rows[i.operation.visit] : y.id = i.operation.id /\ y.status = "SUPERSEDED"
      BY <2>1 DEF RepairInv, RowsInv, Settled
    <3>3. QED
      BY <1>3, <3>1, <3>2, AfterKeeps
  <2>2. CASE r = Entry(c)
    <3>1. i.operation \in Ops(c)
      BY <2>2 DEF Entry
    <3>2. PICK y \in rows[i.operation.visit] : y.id = i.operation.id
      BY <3>1, LandStands DEF Sourced, Published
    <3>3. Taken(c, i.operation.visit, y.id) /\ i.operation.visit \in Visit
      BY <3>1, <3>2, LandStands DEF Taken
    <3>4. QED
      BY <1>3, <3>2, <3>3, AfterKeeps
  <2>3. QED
    BY <2>1, <2>2, LandWrites
<1>6. Addressed'
  <2> SUFFICES ASSUME NEW i \in intents' PROVE \E x \in rows'[i.visit] : x.id = i.id /\ x.status # "DRAFT"
    BY DEF Addressed
  <2>1. ASSUME NEW j \in intents, i = Retold(c, j) PROVE \E x \in rows'[i.visit] : x.id = i.id /\ x.status # "DRAFT"
    <3>1. j \in Intent
      BY DEF RepairInv, TypeOK
    <3>2. i.visit = j.visit /\ i.id = j.id /\ j.visit \in Visit
      BY <2>1, <3>1 DEF Retold, Intent
    <3>3. PICK y \in rows[j.visit] : y.id = j.id /\ y.status # "DRAFT"
      BY DEF RepairInv, RowsInv, Addressed
    <3>4. QED
      BY <1>3, <3>2, <3>3, AfterKeeps
  <2>2. ASSUME NEW o \in Ops(c), NEW e, i = Notice(o, e)
        PROVE  \E x \in rows'[i.visit] : x.id = i.id /\ x.status # "DRAFT"
    <3>1. i.visit = o.visit /\ i.id = o.id /\ o.visit \in Visit
      BY <2>2, LandStands DEF Notice
    <3>2. PICK y \in rows[o.visit] : y.id = o.id
      BY LandStands DEF Sourced, Published
    <3>3. Taken(c, o.visit, y.id)
      BY <3>2 DEF Taken
    <3>4. QED
      BY <1>3, <3>1, <3>2, <3>3, AfterKeeps
  <2>3. ASSUME NEW o \in Ops(c), NEW e \in o.crew, i = News(o, e)
        PROVE  \E x \in rows'[i.visit] : x.id = i.id /\ x.status # "DRAFT"
    <3>1. i.visit = o.visit /\ i.id = NextId(o.visit) /\ o.visit \in Visit
      BY <2>3, LandStands DEF News
    <3>2. o \in Heirs(c, o.visit)
      BY DEF Heirs, Replaces
    <3>3. Successor(o) \in rows'[o.visit]
      <4>1. rows'[o.visit] = {After(c, o.visit, x) : x \in rows[o.visit]} \cup {Successor(p) : p \in Heirs(c, o.visit)}
        BY <3>1, LandWrites
      <4> HIDE DEF After, Successor, Heirs
      <4>2. QED
        BY <3>2, <4>1
    <3>4. QED
      BY <3>1, <3>3, SuccessorIs
  <2>4. QED
    BY <2>1, <2>2, <2>3, LandIntents
<1>7. QED
  BY <1>1, <1>2, <1>4, <1>5, <1>6 DEF RowsInv

-----------------------------------------------------------------------------
(* A commit keeps the calendar. *)

\* What somebody hears of an assignment.
Hears(v, id, e, event) ==
  \E i \in intents : i.visit = v /\ i.id = id /\ i.employee = e /\ i.event = event /\ ~ i.cancelled
Ended(v, a) == IF \E b \in rows[v] : b.supersedes = a.id THEN "assignment.corrected" ELSE "assignment.withdrawn"
HearsRight(v, a) ==
  \A e \in a.crew :
    /\ a.status = "DRAFT" => ~ \E i \in intents : i.visit = v /\ i.id = a.id /\ i.employee = e
    /\ a.status = "PUBLISHED" => \A event : Hears(v, a.id, e, event) <=> event = "assignment.published"
    /\ a.status = "SUPERSEDED" => \A event : Hears(v, a.id, e, event) <=> event = Ended(v, a)

Told(v, id, e) == {i \in intents : i.visit = v /\ i.id = id /\ i.employee = e}
LiveEvents(v, id, e) == {i.event : i \in {j \in Told(v, id, e) : ~ j.cancelled}}

AllHearRight == \A v \in Visit : \A a \in rows[v] : HearsRight(v, a)

LEMMA TruthIsHeard == CrewsHearTheTruth <=> AllHearRight
<1> DEFINE Tells(v, a, e) ==
             /\ a.status = "DRAFT" => Told(v, a.id, e) = {}
             /\ a.status = "PUBLISHED" => LiveEvents(v, a.id, e) = {"assignment.published"}
             /\ a.status = "SUPERSEDED" =>
                  LiveEvents(v, a.id, e) = IF \E b \in rows[v] : b.supersedes = a.id THEN {"assignment.corrected"}
                                           ELSE {"assignment.withdrawn"}
           Right(v, a, e) ==
             /\ a.status = "DRAFT" => ~ \E i \in intents : i.visit = v /\ i.id = a.id /\ i.employee = e
             /\ a.status = "PUBLISHED" => \A event : Hears(v, a.id, e, event) <=> event = "assignment.published"
             /\ a.status = "SUPERSEDED" => \A event : Hears(v, a.id, e, event) <=> event = Ended(v, a)
<1>1. CrewsHearTheTruth <=> \A v \in Visit : \A a \in rows[v] : \A e \in a.crew : Tells(v, a, e)
  BY Zenon DEF CrewsHearTheTruth, Told, LiveEvents
<1>2. ASSUME NEW v, NEW a, NEW e PROVE Tells(v, a, e) <=> Right(v, a, e)
  <2>1. Told(v, a.id, e) = {} <=> ~ \E i \in intents : i.visit = v /\ i.id = a.id /\ i.employee = e
    BY DEF Told
  <2>2. \A event : event \in LiveEvents(v, a.id, e) <=> Hears(v, a.id, e, event)
    BY DEF LiveEvents, Told, Hears
  <2> HIDE DEF LiveEvents, Hears
  <2>3. \A x : LiveEvents(v, a.id, e) = {x} <=> \A event : Hears(v, a.id, e, event) <=> event = x
    BY <2>2
  <2>4. (IF \E b \in rows[v] : b.supersedes = a.id THEN {"assignment.corrected"}
         ELSE {"assignment.withdrawn"}) = {Ended(v, a)}
    BY DEF Ended
  <2> HIDE DEF Told, Ended
  <2>5. QED
    BY <2>1, <2>3, <2>4
<1>3. \A v \in Visit : \A a \in rows[v] : HearsRight(v, a) <=> \A e \in a.crew : Right(v, a, e)
  BY DEF HearsRight
<1> HIDE DEF Tells, Right
<1>4. QED
  BY <1>1, <1>2, <1>3 DEF AllHearRight

LEMMA LandHears ==
  ASSUME RepairInv, NEW c \in Call, Land(c), NEW v \in Visit, NEW id, NEW e, NEW event
  PROVE  Hears(v, id, e, event)' <=>
           \/ Hears(v, id, e, event) /\ ~ (event = "assignment.published" /\ Taken(c, v, id))
           \/ \E o \in Ops(c) : /\ o.visit = v /\ o.id = id /\ e \in SourceRow(o).crew
                                /\ event = IF Replaces(o) THEN "assignment.corrected" ELSE "assignment.withdrawn"
           \/ \E o \in Heirs(c, v) : NextId(v) = id /\ e \in o.crew /\ event = "assignment.published"
<1> DEFINE Is(i) == i.visit = v /\ i.id = id /\ i.employee = e /\ i.event = event /\ ~ i.cancelled
<1>1. Hears(v, id, e, event)' <=> \E i \in intents' : Is(i)
  BY DEF Hears
<1>2. \A j \in intents : Is(Retold(c, j)) <=> Is(j) /\ ~ (event = "assignment.published" /\ Taken(c, v, id))
  <2> SUFFICES ASSUME NEW j \in intents
      PROVE Is(Retold(c, j)) <=> Is(j) /\ ~ (event = "assignment.published" /\ Taken(c, v, id))
    OBVIOUS
  <2>1. j \in Intent
    BY DEF RepairInv, TypeOK
  <2>2. CASE j.event = "assignment.published" /\ Taken(c, j.visit, j.id)
    <3>1. Retold(c, j).cancelled
      BY <2>1, <2>2 DEF Retold, Intent
    <3>2. QED
      BY <2>2, <3>1
  <2>3. CASE ~ (j.event = "assignment.published" /\ Taken(c, j.visit, j.id))
    <3>1. Retold(c, j) = j
      BY <2>3 DEF Retold
    <3>2. QED
      BY <2>3, <3>1
  <2>4. QED
    BY <2>2, <2>3
<1>3. \A o, f : Is(Notice(o, f)) <=> /\ o.visit = v /\ o.id = id /\ f = e
                                     /\ event = IF Replaces(o) THEN "assignment.corrected" ELSE "assignment.withdrawn"
  BY DEF Notice
<1>4. \A o, f : Is(News(o, f)) <=> o.visit = v /\ NextId(o.visit) = id /\ f = e /\ event = "assignment.published"
  BY DEF News
<1>5. Hears(v, id, e, event) <=> \E i \in intents : Is(i)
  BY DEF Hears
<1> HIDE DEF Is
<1>6. (\E i \in intents' : Is(i)) <=>
           \/ \E j \in intents : Is(Retold(c, j))
           \/ \E o \in Ops(c) : \E f \in SourceRow(o).crew : Is(Notice(o, f))
           \/ \E o \in Ops(c) : \E f \in o.crew : Is(News(o, f))
  <2>1. \A i : i \in intents' <=>
           \/ \E j \in intents : i = Retold(c, j)
           \/ \E o \in Ops(c) : \E f \in SourceRow(o).crew : i = Notice(o, f)
           \/ \E o \in Ops(c) : \E f \in o.crew : i = News(o, f)
    BY LandIntents
  <2> HIDE DEF Retold, Notice, News
  <2>2. ASSUME NEW i \in intents', Is(i)
        PROVE  \/ \E j \in intents : Is(Retold(c, j))
               \/ \E o \in Ops(c) : \E f \in SourceRow(o).crew : Is(Notice(o, f))
               \/ \E o \in Ops(c) : \E f \in o.crew : Is(News(o, f))
    BY <2>1, <2>2
  <2>3. ASSUME NEW j \in intents, Is(Retold(c, j)) PROVE \E i \in intents' : Is(i)
    BY <2>1, <2>3
  <2>4. ASSUME NEW o \in Ops(c), NEW f \in SourceRow(o).crew, Is(Notice(o, f)) PROVE \E i \in intents' : Is(i)
    BY <2>1, <2>4
  <2>5. ASSUME NEW o \in Ops(c), NEW f \in o.crew, Is(News(o, f)) PROVE \E i \in intents' : Is(i)
    BY <2>1, <2>5
  <2>6. QED
    BY <2>2, <2>3, <2>4, <2>5
<1>7. (\E j \in intents : Is(Retold(c, j))) <=>
        Hears(v, id, e, event) /\ ~ (event = "assignment.published" /\ Taken(c, v, id))
  BY Zenon, <1>2, <1>5
<1>8. (\E o \in Ops(c) : \E f \in SourceRow(o).crew : Is(Notice(o, f))) <=>
        \E o \in Ops(c) : /\ o.visit = v /\ o.id = id /\ e \in SourceRow(o).crew
                          /\ event = IF Replaces(o) THEN "assignment.corrected" ELSE "assignment.withdrawn"
  BY <1>3
<1>9. (\E o \in Ops(c) : \E f \in o.crew : Is(News(o, f))) <=>
        \E o \in Heirs(c, v) : NextId(v) = id /\ e \in o.crew /\ event = "assignment.published"
  BY <1>4 DEF Heirs, Replaces
<1>10. QED
  BY <1>1, <1>6, <1>7, <1>8, <1>9

\* Nobody has heard of an identity nobody has.
LEMMA NobodyHears ==
  ASSUME RowsInv, NEW v \in Visit, NEW id, \A a \in rows[v] : a.id # id
  PROVE  ~ \E i \in intents : i.visit = v /\ i.id = id
<1>1. ASSUME NEW i \in intents, i.visit = v, i.id = id PROVE FALSE
  <2>1. \E a \in rows[i.visit] : a.id = i.id
    BY DEF RowsInv, Addressed
  <2>2. QED
    BY <1>1, <2>1
<1>2. QED
  BY <1>1

\* Nobody is told of a draft.
DraftsUntold ==
  \A v \in Visit : \A a \in rows[v] : a.status = "DRAFT" => ~ \E i \in intents : i.visit = v /\ i.id = a.id

LEMMA DraftsAreQuiet == RowsInv => DraftsUntold
<1> SUFFICES ASSUME RowsInv, NEW v \in Visit, NEW a \in rows[v], a.status = "DRAFT",
                    NEW i \in intents, i.visit = v, i.id = a.id
             PROVE  FALSE
  BY DEF DraftsUntold
<1>1. PICK b \in rows[i.visit] : b.id = i.id /\ b.status # "DRAFT"
  BY DEF RowsInv, Addressed
<1>2. b = a
  BY <1>1 DEF RowsInv, Numbered
<1>3. QED
  BY <1>1, <1>2

LEMMA LandTold ==
  ASSUME RepairInv, NEW c \in Call, Land(c)
  PROVE  CrewsHearTheTruth'
<1>0. RowsInv'
  BY LandRows
<1>1. AllHearRight' => CrewsHearTheTruth'
  BY TruthIsHeard, PTL
<1>2. DraftsUntold'
  BY <1>0, DraftsAreQuiet, PTL
<1> SUFFICES ASSUME NEW v \in Visit, NEW b \in rows'[v], NEW e \in b.crew
    PROVE  /\ b.status = "PUBLISHED" =>
                \A event : Hears(v, b.id, e, event)' <=> event = "assignment.published"
           /\ b.status = "SUPERSEDED" =>
                \A event : Hears(v, b.id, e, event)' <=> event = Ended(v, b)'
  BY <1>1, <1>2 DEF AllHearRight, HearsRight, DraftsUntold
<1>3. Numbered(v) /\ Descended(v) /\ rows[v] \subseteq Row /\ \A a \in rows[v] : HearsRight(v, a)
  BY TruthIsHeard DEF RepairInv, RowsInv, TypeOK, CalendarHolds, AllHearRight
<1>4. \A x \in rows'[v] : (\E y \in rows[v] : x = After(c, v, y)) \/ (\E o \in Heirs(c, v) : x = Successor(o))
  BY LandOrigin
<1>5. \A y \in rows[v] : After(c, v, y) \in rows'[v] /\ y.id # NextId(v) /\ y.id # 0
  <2>1. rows'[v] = {After(c, v, x) : x \in rows[v]} \cup {Successor(o) : o \in Heirs(c, v)}
    BY LandWrites
  <2> HIDE DEF After, Successor, Heirs
  <2>2. QED
    BY <2>1, LandFresh
<1>6. \A o \in Heirs(c, v) : Successor(o) \in rows'[v]
  <2>1. rows'[v] = {After(c, v, x) : x \in rows[v]} \cup {Successor(o) : o \in Heirs(c, v)}
    BY LandWrites
  <2> HIDE DEF After, Successor, Heirs
  <2>2. QED
    BY <2>1
\* A source was in force: now its crew hears of the end of it.
<1>7. ASSUME NEW a \in rows[v], b = After(c, v, a), Taken(c, v, a.id)
      PROVE  b.status = "SUPERSEDED" /\ \A event : Hears(v, b.id, e, event)' <=> event = Ended(v, b)'
  <2>1. b.status = "SUPERSEDED" /\ b.id = a.id /\ e \in a.crew
    BY <1>7, AfterKeeps
  <2>2. a.status = "PUBLISHED"
    BY <1>7, LandVisit
  <2>3. PICK o \in Ops(c) : o.visit = v /\ o.id = a.id
    BY <1>7 DEF Taken
  <2>4. SourceRow(o) = a
    BY <1>3, <2>3, LandWrites, SourceIs
  <2>5. \A p \in Ops(c) : p.visit = v /\ p.id = a.id => p = o
    BY <2>3, LandStands DEF OnePerSource
  <2>6. (\E x \in rows'[v] : x.supersedes = a.id) <=> Replaces(o)
    <3>1. ASSUME Replaces(o) PROVE \E x \in rows'[v] : x.supersedes = a.id
      BY <1>6, <2>3, <3>1, SuccessorIs DEF Heirs
    <3>2. ASSUME NEW y \in rows[v], After(c, v, y).supersedes = a.id PROVE FALSE
      <4>1. y.supersedes = a.id /\ a.id # 0
        BY <1>5, <3>2, AfterKeeps
      <4>2. PICK z \in rows[v] : z.id = a.id /\ z.status = "SUPERSEDED"
        BY <1>3, <4>1 DEF Descended
      <4>3. z = a
        BY <1>3, <4>2 DEF Numbered
      <4>4. QED
        BY <2>2, <4>2, <4>3
    <3>3. ASSUME NEW p \in Heirs(c, v), Successor(p).supersedes = a.id PROVE Replaces(o)
      <4>1. p \in Ops(c) /\ p.visit = v /\ p.id = a.id /\ Replaces(p)
        BY <3>3, SuccessorIs DEF Heirs
      <4>2. QED
        BY <2>5, <4>1
    <3>4. QED
      BY <1>4, <3>1, <3>2, <3>3
  <2>7. Ended(v, b)' = IF Replaces(o) THEN "assignment.corrected" ELSE "assignment.withdrawn"
    BY <2>1, <2>6 DEF Ended
  <2>8. \A event : Hears(v, a.id, e, event) <=> event = "assignment.published"
    BY <1>3, <2>1, <2>2 DEF HearsRight
  <2>9. ASSUME NEW event PROVE Hears(v, a.id, e, event)' <=> event = Ended(v, b)'
    <3>1. ~ (Hears(v, a.id, e, event) /\ ~ (event = "assignment.published" /\ Taken(c, v, a.id)))
      BY <1>7, <2>8
    <3>2. ~ \E p \in Heirs(c, v) : NextId(v) = a.id /\ e \in p.crew /\ event = "assignment.published"
      BY <1>5
    <3>3. (\E p \in Ops(c) : /\ p.visit = v /\ p.id = a.id /\ e \in SourceRow(p).crew
                             /\ event = IF Replaces(p) THEN "assignment.corrected" ELSE "assignment.withdrawn")
          <=> event = Ended(v, b)'
      BY <2>1, <2>3, <2>4, <2>5, <2>7
    <3>4. QED
      BY <3>1, <3>2, <3>3, LandHears
  <2>10. QED
    BY <2>1, <2>9
\* Any other assignment is as before, and so is what is heard of it.
<1>8. ASSUME NEW a \in rows[v], b = After(c, v, a), ~ Taken(c, v, a.id)
      PROVE  /\ b = a
             /\ \A event : Hears(v, b.id, e, event)' <=> Hears(v, b.id, e, event)
             /\ Ended(v, b)' = Ended(v, b)
  <2>1. b = a
    BY <1>8 DEF After
  <2>2. ~ \E p \in Ops(c) : p.visit = v /\ p.id = a.id
    BY <1>8 DEF Taken
  <2>3. ASSUME NEW event PROVE Hears(v, a.id, e, event)' <=> Hears(v, a.id, e, event)
    BY <1>5, <1>8, <2>2, LandHears
  <2>4. (\E x \in rows'[v] : x.supersedes = a.id) <=> \E x \in rows[v] : x.supersedes = a.id
    <3>1. ASSUME NEW y \in rows[v] PROVE After(c, v, y).supersedes = y.supersedes
      BY AfterKeeps
    <3>2. ASSUME NEW p \in Heirs(c, v), Successor(p).supersedes = a.id PROVE FALSE
      BY <2>2, <3>2, SuccessorIs DEF Heirs
    <3>3. QED
      BY <1>4, <1>5, <3>1, <3>2
  <2>5. QED
    BY <2>1, <2>3, <2>4 DEF Ended
\* A successor is new, and its crew hears that it is published.
<1>9. ASSUME NEW o \in Heirs(c, v), b = Successor(o)
      PROVE  b.status = "PUBLISHED" /\ \A event : Hears(v, b.id, e, event)' <=> event = "assignment.published"
  <2>1. b.status = "PUBLISHED" /\ b.id = NextId(v) /\ e \in o.crew
    BY <1>9, SuccessorIs DEF Heirs
  <2>2. ASSUME NEW event PROVE ~ Hears(v, b.id, e, event)
    <3>1. ~ \E i \in intents : i.visit = v /\ i.id = b.id
      BY <1>5, <2>1, NobodyHears DEF RepairInv
    <3>2. QED
      BY <3>1 DEF Hears
  <2>3. ~ \E p \in Ops(c) : p.visit = v /\ p.id = b.id
    <3>1. SUFFICES ASSUME NEW p \in Ops(c), p.visit = v, p.id = b.id PROVE FALSE
      OBVIOUS
    <3>2. \E x \in rows[p.visit] : x.id = p.id
      BY LandStands DEF Sourced, Published
    <3>3. QED
      BY <1>5, <2>1, <3>1, <3>2
  <2>4. ASSUME NEW event PROVE Hears(v, b.id, e, event)' <=> event = "assignment.published"
    BY <2>1, <2>2, <2>3, LandHears
  <2>5. QED
    BY <2>1, <2>4
<1>10. QED
  <2>1. CASE \E a \in rows[v] : b = After(c, v, a) /\ Taken(c, v, a.id)
    BY <1>7, <2>1
  <2>2. CASE \E a \in rows[v] : b = After(c, v, a) /\ ~ Taken(c, v, a.id)
    <3>1. b \in rows[v]
      BY <1>8, <2>2
    <3>2. HearsRight(v, b)
      BY <1>3, <3>1
    <3>3. QED
      BY <1>8, <2>2, <3>2 DEF HearsRight
  <2>3. CASE \E o \in Heirs(c, v) : b = Successor(o)
    BY <1>9, <2>3
  <2>4. QED
    BY <1>4, <2>1, <2>2, <2>3

LEMMA LandClear == ASSUME RepairInv, NEW c \in Call, Land(c) PROVE NobodyDoubleBooked'
<1> SUFFICES ASSUME NEW v \in Visit, NEW w \in Visit, v # w, DayOf[v] = DayOf[w],
                    NEW a \in Live(v)', NEW b \in Live(w)'
             PROVE  a.crew \cap b.crew = {}
  BY DEF NobodyDoubleBooked
\* A successor's crew is on no visit the plan leaves alone.
<1>1. ASSUME NEW u \in Visit, NEW x \in Visit, DayOf[u] = DayOf[x], Touched(c, u), ~ Touched(c, x),
             NEW y \in Live(u)', NEW z \in Live(x)'
      PROVE  y.crew \cap z.crew = {}
  <2>1. PICK o \in Heirs(c, u) : y = Successor(o)
    BY <1>1, LandVisit
  <2>2. o \in Ops(c) /\ o.visit = u /\ Replaces(o) /\ y.crew = o.crew
    BY <2>1, SuccessorIs DEF Heirs
  <2>3. z \in Live(x)
    BY <1>1, LandVisit
  <2>4. ~ Booked(o, Ops(c))
    BY <2>2, LandStands DEF Unclashing
  <2>5. \A p \in Ops(c) : ~ (p.visit = x /\ p.id = z.id)
    BY <1>1 DEF Touched
  <2>6. z.crew \cap o.crew = {}
    BY <1>1, <2>2, <2>3, <2>4, <2>5 DEF Booked
  <2>7. QED
    BY <2>2, <2>6
<1>2. CASE Touched(c, v) /\ Touched(c, w)
  <2>1. PICK o \in Heirs(c, v) : a = Successor(o)
    BY <1>2, LandVisit
  <2>2. PICK p \in Heirs(c, w) : b = Successor(p)
    BY <1>2, LandVisit
  <2>3. o \in Ops(c) /\ o.visit = v /\ a.crew = o.crew
    BY <2>1, SuccessorIs DEF Heirs
  <2>4. p \in Ops(c) /\ p.visit = w /\ Replaces(p) /\ b.crew = p.crew
    BY <2>2, SuccessorIs DEF Heirs
  <2>5. o \in Ops(c) \ {p} /\ DayOf[o.visit] = DayOf[p.visit]
    BY <2>3, <2>4
  <2>6. o.crew \cap p.crew = {}
    BY <2>4, <2>5, LandStands DEF Unclashing
  <2>7. QED
    BY <2>3, <2>4, <2>6
<1>3. CASE Touched(c, v) /\ ~ Touched(c, w)
  BY <1>1, <1>3
<1>4. CASE ~ Touched(c, v) /\ Touched(c, w)
  <2>1. b.crew \cap a.crew = {}
    BY <1>1, <1>4
  <2>2. QED
    BY <2>1
<1>5. CASE ~ Touched(c, v) /\ ~ Touched(c, w)
  <2>1. a \in Live(v) /\ b \in Live(w)
    BY <1>5, LandVisit
  <2>2. QED
    BY <2>1 DEF RepairInv, CalendarHolds, NobodyDoubleBooked
<1>6. QED
  BY <1>2, <1>3, <1>4, <1>5

LEMMA LandTrue == ASSUME RepairInv, NEW c \in Call, Land(c) PROVE VisitTellsTheTruth'
<1> SUFFICES ASSUME NEW v \in Visit
             PROVE  /\ visits'[v].status = "SCHEDULED" <=> Live(v)' # {}
                    /\ visits'[v].reasons # {} <=> visits'[v].status = "UNASSIGNED" /\ rows'[v] # {}
  BY DEF VisitTellsTheTruth
<1>1. CASE ~ Touched(c, v)
  BY <1>1, LandVisit, LandWrites DEF RepairInv, CalendarHolds, VisitTellsTheTruth
<1>2. CASE Touched(c, v)
  <2>1. /\ visits'[v].status = IF Heirs(c, v) = {} THEN "UNASSIGNED" ELSE "SCHEDULED"
        /\ visits'[v].reasons = IF Heirs(c, v) = {} THEN {"withdrawn"} ELSE {}
    BY <1>2, LandWrites
  <2>2. Live(v)' = {Successor(o) : o \in Heirs(c, v)}
    BY <1>2, LandVisit
  <2>3. rows'[v] # {}
    <3>1. PICK o \in Ops(c) : o.visit = v
      BY <1>2 DEF Touched
    <3>2. PICK y \in rows[o.visit] : y.id = o.id
      BY LandStands DEF Sourced, Published
    <3>3. rows'[v] = {After(c, v, x) : x \in rows[v]} \cup {Successor(p) : p \in Heirs(c, v)}
      BY LandWrites
    <3> HIDE DEF After, Successor, Heirs
    <3>4. QED
      BY <3>1, <3>2, <3>3
  <2> HIDE DEF Successor, Heirs
  <2>4. Live(v)' = {} <=> Heirs(c, v) = {}
    BY <2>2
  <2>5. QED
    BY <2>1, <2>3, <2>4
<1>3. QED
  BY <1>1, <1>2

LEMMA LandDescends == ASSUME RepairInv, NEW c \in Call, Land(c) PROVE OneLineOfDescent'
<1>0. repairs' = repairs \cup {Entry(c)} /\ Recorded(c) = {}
  BY LandWrites DEF Land
<1>1. Entry(c).key = calls[c].key /\ \A i \in Entry(c).items : i.operation \in Ops(c)
  BY DEF Entry
\* What an earlier repair took is no source of this plan.
<1>2. ASSUME NEW r \in repairs, NEW i \in r.items, NEW o \in Ops(c),
             i.operation.visit = o.visit, i.operation.id = o.id
      PROVE  FALSE
  <2>1. PICK a \in rows[i.operation.visit] : a.id = i.operation.id /\ a.status = "SUPERSEDED"
    BY DEF RepairInv, RowsInv, Settled
  <2>2. PICK b \in rows[o.visit] : b.id = o.id /\ b.status = "PUBLISHED"
    BY LandStands DEF Sourced, Published
  <2>3. o.visit \in Visit /\ Numbered(o.visit)
    BY LandStands DEF RepairInv, RowsInv
  <2>4. a = b
    BY <1>2, <2>1, <2>2, <2>3 DEF Numbered
  <2>5. QED
    BY <2>1, <2>2, <2>4
<1>3. ASSUME NEW i \in Entry(c).items, NEW j \in Entry(c).items,
             i.operation.visit = j.operation.visit, i.operation.id = j.operation.id
      PROVE  i = j
  <2>1. i.operation = j.operation
    BY <1>1, <1>3, LandStands DEF OnePerSource
  <2>2. QED
    BY <2>1 DEF Entry
<1>4. ASSUME NEW r \in repairs', NEW q \in repairs', NEW i \in r.items, NEW j \in q.items
      PROVE  /\ i.operation.visit = j.operation.visit /\ i.operation.id = j.operation.id => r = q /\ i = j
             /\ r.key = q.key => r = q
  <2>1. CASE r \in repairs /\ q \in repairs
    BY <2>1 DEF RepairInv, OneLineOfDescent
  <2>2. CASE r = Entry(c) /\ q = Entry(c)
    BY <1>3, <2>2
  <2>3. ASSUME NEW x \in repairs PROVE x.key # calls[c].key
    BY <1>0 DEF Recorded
  <2>4. CASE r \in repairs /\ q = Entry(c)
    <3>1. j.operation \in Ops(c)
      BY <1>1, <2>4
    <3>2. QED
      BY <1>1, <1>2, <2>3, <2>4, <3>1
  <2>5. CASE r = Entry(c) /\ q \in repairs
    <3>1. i.operation \in Ops(c)
      BY <1>1, <2>5
    <3>2. QED
      BY <1>1, <1>2, <2>3, <2>5, <3>1
  <2>6. QED
    BY <1>0, <2>1, <2>2, <2>4, <2>5
<1>5. ASSUME NEW v \in Visit, NEW b \in rows'[v]
      PROVE  b.status = "SUPERSEDED" <=>
               \E r \in repairs' : \E i \in r.items : i.operation.visit = v /\ i.operation.id = b.id
  <2>1. (\E r \in repairs' : \E i \in r.items : i.operation.visit = v /\ i.operation.id = b.id) <=>
          \/ \E r \in repairs : \E i \in r.items : i.operation.visit = v /\ i.operation.id = b.id
          \/ Taken(c, v, b.id)
    <3>1. (\E i \in Entry(c).items : i.operation.visit = v /\ i.operation.id = b.id) <=> Taken(c, v, b.id)
      <4>1. ASSUME NEW o \in Ops(c) PROVE \E i \in Entry(c).items : i.operation = o
        <5> DEFINE line == [operation |-> o, replacement |-> IF Replaces(o) THEN NextId(o.visit) ELSE 0]
        <5>1. line \in Entry(c).items /\ line.operation = o
          BY DEF Entry
        <5>2. QED
          BY <5>1
      <4>2. QED
        BY <1>1, <4>1 DEF Taken
    <3>2. QED
      BY <1>0, <3>1
  <2>2. ASSUME NEW a \in rows[v], b = After(c, v, a)
        PROVE  b.status = "SUPERSEDED" <=>
                 \/ \E r \in repairs : \E i \in r.items : i.operation.visit = v /\ i.operation.id = b.id
                 \/ Taken(c, v, b.id)
    <3>1. b.id = a.id /\ b.status = IF Taken(c, v, a.id) THEN "SUPERSEDED" ELSE a.status
      BY <2>2, AfterKeeps
    <3>2. a.status = "SUPERSEDED" <=>
            \E r \in repairs : \E i \in r.items : i.operation.visit = v /\ i.operation.id = a.id
      BY DEF RepairInv, OneLineOfDescent
    <3>3. QED
      BY <3>1, <3>2
  <2>3. ASSUME NEW o \in Heirs(c, v), b = Successor(o)
        PROVE  /\ b.status = "PUBLISHED"
               /\ ~ \E r \in repairs : \E i \in r.items : i.operation.visit = v /\ i.operation.id = b.id
               /\ ~ Taken(c, v, b.id)
    <3>1. b.status = "PUBLISHED" /\ b.id = NextId(v) /\ \A a \in rows[v] : a.id # NextId(v)
      BY <2>3, SuccessorIs, LandFresh DEF Heirs
    <3>2. ASSUME NEW r \in repairs, NEW i \in r.items, i.operation.visit = v, i.operation.id = b.id PROVE FALSE
      <4>1. \E a \in rows[i.operation.visit] : a.id = i.operation.id
        BY DEF RepairInv, RowsInv, Settled
      <4>2. QED
        BY <3>1, <3>2, <4>1
    <3>3. ASSUME NEW p \in Ops(c), p.visit = v, p.id = b.id PROVE FALSE
      <4>1. \E a \in rows[p.visit] : a.id = p.id
        BY LandStands DEF Sourced, Published
      <4>2. QED
        BY <3>1, <3>3, <4>1
    <3>4. QED
      BY <3>1, <3>2, <3>3 DEF Taken
  <2>4. QED
    BY <2>1, <2>2, <2>3, LandOrigin
<1>6. ASSUME NEW v \in Visit, NEW b \in rows'[v], b.pinned, NEW d \in rows'[v], d.supersedes = b.id PROVE FALSE
  <2>1. PICK a \in rows[v] : b = After(c, v, a)
    <3>1. ASSUME NEW o \in Heirs(c, v), b = Successor(o) PROVE FALSE
      <4>1. b.pinned = FALSE
        BY <3>1, SuccessorIs
      <4>2. QED
        BY <1>6, <4>1
    <3>2. QED
      BY <3>1, LandOrigin
  <2>2. a.pinned /\ a.id = b.id
    BY <1>6, <2>1, AfterKeeps
  <2>3. ASSUME NEW x \in rows[v], d = After(c, v, x) PROVE FALSE
    <3>1. x.supersedes = a.id
      BY <1>6, <2>2, <2>3, AfterKeeps
    <3>2. QED
      BY <2>2, <3>1 DEF RepairInv, OneLineOfDescent
  <2>4. ASSUME NEW o \in Heirs(c, v), d = Successor(o) PROVE FALSE
    <3>1. o \in Ops(c) /\ o.visit = v /\ Replaces(o) /\ o.id = a.id
      BY <1>6, <2>2, <2>4, SuccessorIs DEF Heirs
    <3>2. SourceRow(o) = a
      BY <3>1, LandWrites, SourceIs DEF RepairInv, RowsInv
    <3>3. ~ SourceRow(o).pinned
      BY <3>1, LandStands DEF Unclashing
    <3>4. QED
      BY <2>2, <3>2, <3>3
  <2>5. QED
    BY <2>3, <2>4, LandOrigin
<1>7. ASSUME NEW v \in Visit, NEW b \in rows'[v], b.status = "SUPERSEDED" PROVE (Cardinality(Live(v)) <= 1)'
  <2>1. CASE Touched(c, v)
    <3>1. Live(v)' = {Successor(o) : o \in Heirs(c, v)} /\ \A o, p \in Heirs(c, v) : o = p
      BY <2>1, LandVisit
    <3> HIDE DEF Successor, Heirs
    <3>2. Live(v)' = {} \/ \E x : Live(v)' = {x}
      BY <3>1
    <3>3. QED
      BY <3>2, FS_EmptySet, FS_Singleton
  <2>2. CASE ~ Touched(c, v)
    <3>1. b \in rows[v] /\ Live(v)' = Live(v)
      BY <2>2, LandVisit
    <3>2. QED
      BY <1>7, <3>1 DEF RepairInv, OneLineOfDescent
  <2>3. QED
    BY <2>1, <2>2
<1>8. QED
  BY <1>4, <1>5, <1>6, <1>7 DEF OneLineOfDescent

LEMMA LandAnswers == ASSUME RepairInv, NEW c \in Call, Land(c) PROVE AnswerIsRecorded'
<1> SUFFICES ASSUME NEW d \in Call, calls'[d].pc = "applied"
             PROVE  \E r \in repairs' : r.key = calls'[d].key /\ r.form = calls'[d].form /\ r.items = calls'[d].result
  BY DEF AnswerIsRecorded
<1>1. repairs' = repairs \cup {Entry(c)}
  BY LandWrites
<1>2. CASE d = c
  <2>1. Keeps(c) /\ calls'[c].result = Entry(c).items
    BY LandWrites, AnswerKeeps DEF RepairInv
  <2>2. Entry(c).key = calls[c].key /\ Entry(c).form = calls[c].form
    BY DEF Entry
  <2>3. QED
    BY <1>1, <1>2, <2>1, <2>2 DEF Keeps
<1>3. CASE d # c
  <2>1. calls'[d] = calls[d]
    BY <1>3, OthersStay DEF RepairInv
  <2>2. QED
    BY <1>1, <2>1 DEF RepairInv, AnswerIsRecorded
<1>4. QED
  BY <1>2, <1>3

-----------------------------------------------------------------------------
(* The draft writers change one visit: what is to show of it, and that it is   *)
(* enough.                                                                   *)

OnlyVisit(v) ==
  /\ \A w \in Visit \ {v} : rows'[w] = rows[w] /\ visits'[w] = visits[w]
  /\ intents \subseteq intents' /\ \A i \in intents' : i \in intents \/ i.visit = v
  /\ repairs' = repairs /\ Elsewhere

RowsRight(v) ==
  /\ Numbered(v)' /\ Drafted(v)' /\ Descended(v)'
  /\ \A i \in intents' : i.visit = v => \E x \in rows'[v] : x.id = i.id /\ x.status # "DRAFT"
  /\ \A r \in repairs : \A i \in r.items : i.operation.visit = v =>
       \E x \in rows'[v] : x.id = i.operation.id /\ x.status = "SUPERSEDED"
ClearRight(v) ==
  \A w \in Visit \ {v} : DayOf[w] = DayOf[v] =>
    \A a \in Live(v)', b \in Live(w) : a.crew \cap b.crew = {}
TruthRight(v) ==
  /\ visits'[v].status = "SCHEDULED" <=> Live(v)' # {}
  /\ visits'[v].reasons # {} <=> visits'[v].status = "UNASSIGNED" /\ rows'[v] # {}
DescentRight(v) ==
  \A a \in rows'[v] :
    /\ a.status = "SUPERSEDED" <=>
         \E r \in repairs : \E i \in r.items : i.operation.visit = v /\ i.operation.id = a.id
    /\ a.pinned => \A b \in rows'[v] : b.supersedes # a.id
    /\ a.status = "SUPERSEDED" => (Cardinality(Live(v)) <= 1)'
AllRight(v) ==
  /\ RowsRight(v) /\ ClearRight(v) /\ TruthRight(v) /\ DescentRight(v)
  /\ \A a \in rows'[v] : HearsRight(v, a)'

LEMMA OnlyVisitRows ==
  ASSUME RepairInv, NEW v \in Visit, OnlyVisit(v), RowsRight(v)
  PROVE  RowsInv'
<1>1. ASSUME NEW w \in Visit PROVE Numbered(w)' /\ Drafted(w)' /\ Descended(w)'
  <2>1. CASE w = v
    BY <2>1 DEF RowsRight
  <2>2. CASE w # v
    BY <2>2 DEF OnlyVisit, RepairInv, RowsInv, Numbered, Drafted, Descended, Ids
  <2>3. QED
    BY <2>1, <2>2
<1>2. Addressed'
  <2> SUFFICES ASSUME NEW i \in intents' PROVE \E x \in rows'[i.visit] : x.id = i.id /\ x.status # "DRAFT"
    BY DEF Addressed
  <2>1. CASE i.visit = v
    BY <2>1 DEF RowsRight
  <2>2. CASE i.visit # v
    <3>1. i \in intents /\ i.visit \in Visit
      BY <2>2 DEF OnlyVisit, RepairInv, TypeOK, Intent
    <3>2. \E x \in rows[i.visit] : x.id = i.id /\ x.status # "DRAFT"
      BY <3>1 DEF RepairInv, RowsInv, Addressed
    <3>3. rows'[i.visit] = rows[i.visit]
      BY <2>2, <3>1 DEF OnlyVisit
    <3>4. QED
      BY <3>2, <3>3
  <2>3. QED
    BY <2>1, <2>2
<1>3. Settled'
  <2> SUFFICES ASSUME NEW r \in repairs, NEW i \in r.items
      PROVE \E x \in rows'[i.operation.visit] : x.id = i.operation.id /\ x.status = "SUPERSEDED"
    BY DEF Settled, OnlyVisit
  <2>1. CASE i.operation.visit = v
    BY <2>1 DEF RowsRight
  <2>2. CASE i.operation.visit # v
    <3>1. i.operation.visit \in Visit
      BY DEF RepairInv, TypeOK, RepairRow, Written, Operation
    <3>2. \E x \in rows[i.operation.visit] : x.id = i.operation.id /\ x.status = "SUPERSEDED"
      BY DEF RepairInv, RowsInv, Settled
    <3>3. rows'[i.operation.visit] = rows[i.operation.visit]
      BY <2>2, <3>1 DEF OnlyVisit
    <3>4. QED
      BY <3>2, <3>3
  <2>3. QED
    BY <2>1, <2>2
<1>4. QED
  BY <1>1, <1>2, <1>3 DEF RowsInv

LEMMA OnlyVisitCalendar ==
  ASSUME RepairInv, NEW v \in Visit, OnlyVisit(v), AllRight(v)
  PROVE  CalendarHolds' /\ OneLineOfDescent' /\ AnswerIsRecorded'
<1>0. \A w \in Visit \ {v} : rows'[w] = rows[w] /\ Live(w)' = Live(w) /\ visits'[w] = visits[w]
  BY DEF OnlyVisit, Live
<1>1. NobodyDoubleBooked'
  <2> SUFFICES ASSUME NEW u \in Visit, NEW w \in Visit, u # w, DayOf[u] = DayOf[w],
                      NEW a \in Live(u)', NEW b \in Live(w)'
               PROVE  a.crew \cap b.crew = {}
    BY DEF NobodyDoubleBooked
  <2>1. CASE u = v
    BY <1>0, <2>1 DEF AllRight, ClearRight
  <2>2. CASE w = v
    <3>1. b.crew \cap a.crew = {}
      BY <1>0, <2>2 DEF AllRight, ClearRight
    <3>2. QED
      BY <3>1
  <2>3. CASE u # v /\ w # v
    BY <1>0, <2>3 DEF RepairInv, CalendarHolds, NobodyDoubleBooked
  <2>4. QED
    BY <2>1, <2>2, <2>3
<1>2. VisitTellsTheTruth'
  BY <1>0 DEF AllRight, TruthRight, VisitTellsTheTruth, RepairInv, CalendarHolds
<1>3. CrewsHearTheTruth'
  <2>1. AllHearRight' => CrewsHearTheTruth'
    BY TruthIsHeard, PTL
  <2>2. \A w \in Visit : \A a \in rows[w] : HearsRight(w, a)
    BY TruthIsHeard DEF RepairInv, CalendarHolds, AllHearRight
  <2>3. ASSUME NEW w \in Visit \ {v}, NEW a \in rows'[w] PROVE HearsRight(w, a)'
    <3>1. HearsRight(w, a) /\ rows'[w] = rows[w]
      BY <1>0, <2>2, <2>3
    <3>2. \A i : i \in intents' /\ i.visit = w <=> i \in intents /\ i.visit = w
      BY DEF OnlyVisit
    <3>3. \A id, e, event : Hears(w, id, e, event)' <=> Hears(w, id, e, event)
      BY <3>2 DEF Hears
    <3>4. Ended(w, a)' = Ended(w, a)
      BY <3>1 DEF Ended
    <3>5. \A e : (\E i \in intents' : i.visit = w /\ i.id = a.id /\ i.employee = e) <=>
                 (\E i \in intents : i.visit = w /\ i.id = a.id /\ i.employee = e)
      BY <3>2
    <3> HIDE DEF Hears, Ended
    <3>6. QED
      BY <3>1, <3>3, <3>4, <3>5 DEF HearsRight
  <2>4. \A w \in Visit : \A a \in rows'[w] : HearsRight(w, a)'
    BY <2>3 DEF AllRight
  <2>5. QED
    BY <2>1, <2>4 DEF AllHearRight
<1>4. OneLineOfDescent'
  <2>1. repairs' = repairs
    BY DEF OnlyVisit
  <2>2. ASSUME NEW w \in Visit, NEW a \in rows'[w]
        PROVE  /\ a.status = "SUPERSEDED" <=>
                    \E r \in repairs : \E i \in r.items : i.operation.visit = w /\ i.operation.id = a.id
               /\ a.pinned => \A b \in rows'[w] : b.supersedes # a.id
               /\ a.status = "SUPERSEDED" => (Cardinality(Live(w)) <= 1)'
    <3>1. CASE w = v
      BY <3>1 DEF AllRight, DescentRight
    <3>2. CASE w # v
      BY <1>0, <3>2 DEF RepairInv, OneLineOfDescent
    <3>3. QED
      BY <3>1, <3>2
  <2>3. \A r, q \in repairs : \A i \in r.items, j \in q.items :
          /\ i.operation.visit = j.operation.visit /\ i.operation.id = j.operation.id => r = q /\ i = j
          /\ r.key = q.key => r = q
    BY DEF RepairInv, OneLineOfDescent
  <2>4. QED
    BY <2>1, <2>2, <2>3 DEF OneLineOfDescent
<1>5. AnswerIsRecorded'
  BY DEF OnlyVisit, Elsewhere, RepairInv, AnswerIsRecorded
<1>6. QED
  BY <1>1, <1>2, <1>3, <1>4, <1>5 DEF CalendarHolds

LEMMA VisitMoves ==
  ASSUME TypeOK, NEW v \in Visit, NEW status \in VisitStatus,
         visits' = [visits EXCEPT ![v].status = status, ![v].rev = @ + 1]
  PROVE  /\ visits' \in [Visit -> VisitRecord] /\ \A w \in Visit \ {v} : visits'[w] = visits[w]
         /\ visits'[v].status = status /\ visits'[v].reasons = visits[v].reasons
<1>1. visits \in [Visit -> VisitRecord] /\ visits[v] \in VisitRecord /\ visits[v].rev + 1 \in Nat
  BY DEF TypeOK, VisitRecord
<1>2. ASSUME NEW rev \in Nat
      PROVE  /\ [visits[v] EXCEPT !.status = status, !.rev = rev] \in VisitRecord
             /\ [visits[v] EXCEPT !.status = status, !.rev = rev].status = status
             /\ [visits[v] EXCEPT !.status = status, !.rev = rev].reasons = visits[v].reasons
  BY <1>1 DEF VisitRecord
<1>3. visits' = [visits EXCEPT ![v] = [visits[v] EXCEPT !.status = status, !.rev = visits[v].rev + 1]]
  BY <1>1
<1>4. visits'[v] = [visits[v] EXCEPT !.status = status, !.rev = visits[v].rev + 1]
  BY <1>1, <1>3
<1>5. visits'[v] \in VisitRecord /\ visits'[v].status = status /\ visits'[v].reasons = visits[v].reasons
  BY <1>1, <1>2, <1>4
<1>6. QED
  BY <1>1, <1>3, <1>4, <1>5

\* What each of them makes of it.
LEMMA BookRight ==
  ASSUME RepairInv, NEW v \in Visit, NEW crew \in Crews, NEW pinned \in BOOLEAN, Book(v, crew, pinned)
  PROVE  TypeOK' /\ OnlyVisit(v) /\ AllRight(v)
<1> DEFINE draft == [id |-> 1, crew |-> crew, status |-> "DRAFT", pinned |-> pinned, supersedes |-> 0]
<1>0. /\ visits \in [Visit -> VisitRecord] /\ rows \in [Visit -> SUBSET Row] /\ crew \subseteq Employee
      /\ RowsInv /\ CalendarHolds
  BY RepairAssumption DEF RepairInv, TypeOK
<1>1. rows' = [rows EXCEPT ![v] = {draft}] /\ rows[v] = {} /\ UNCHANGED <<intents, repairs, calls, visitLock, crewLock>>
  BY DEF Book
<1>2. rows'[v] = {draft} /\ \A w \in Visit \ {v} : rows'[w] = rows[w]
  BY <1>0, <1>1
<1>3. draft \in Row /\ draft.id = 1 /\ draft.crew = crew /\ draft.status = "DRAFT" /\ draft.supersedes = 0
  BY <1>0 DEF Row
<1>4. /\ visits' \in [Visit -> VisitRecord] /\ \A w \in Visit \ {v} : visits'[w] = visits[w]
      /\ visits'[v].status = "SCHEDULED" /\ visits'[v].reasons = visits[v].reasons
  <2>1. visits' = [visits EXCEPT ![v].status = "SCHEDULED", ![v].rev = @ + 1]
    BY DEF Book
  <2>2. QED
    BY <2>1, VisitMoves DEF RepairInv, VisitStatus
<1>5. TypeOK'
  <2>1. rows' \in [Visit -> SUBSET Row]
    BY <1>0, <1>1, <1>3
  <2>2. QED
    BY <1>1, <1>4, <2>1 DEF RepairInv, TypeOK
<1> HIDE DEF draft
<1>6. OnlyVisit(v)
  BY <1>1, <1>2, <1>4 DEF OnlyVisit, Elsewhere
<1>7. ~ \E i \in intents' : i.visit = v
  <2>1. ASSUME NEW i \in intents, i.visit = v PROVE FALSE
    <3>1. \E x \in rows[i.visit] : x.id = i.id
      BY <1>0 DEF RowsInv, Addressed
    <3>2. QED
      BY <1>1, <2>1, <3>1
  <2>2. QED
    BY <1>1, <2>1
<1>8. ~ \E r \in repairs : \E i \in r.items : i.operation.visit = v
  <2>1. ASSUME NEW r \in repairs, NEW i \in r.items, i.operation.visit = v PROVE FALSE
    <3>1. \E x \in rows[i.operation.visit] : x.id = i.operation.id
      BY <1>0 DEF RowsInv, Settled
    <3>2. QED
      BY <1>1, <2>1, <3>1
  <2>2. QED
    BY <2>1
<1>9. RowsRight(v)
  <2>1. Numbered(v)'
    <3>1. Ids(v)' = {1}
      BY <1>2, <1>3 DEF Ids
    <3>2. {1} = 1 .. 1
      OBVIOUS
    <3>3. QED
      BY <1>2, <3>1, <3>2 DEF Numbered
  <2>2. Drafted(v)' /\ Descended(v)'
    BY <1>2, <1>3 DEF Drafted, Descended
  <2>3. QED
    BY <1>7, <1>8, <2>1, <2>2 DEF RowsRight
<1>10. Live(v)' = {draft}
  BY <1>2, <1>3 DEF Live
<1>11. ClearRight(v)
  <2>1. \A w \in Visit : \A a \in Live(w) : DayOf[w] = DayOf[v] => a.crew \cap crew = {}
    BY DEF Book
  <2>2. QED
    BY <1>3, <1>10, <2>1 DEF ClearRight
<1>12. TruthRight(v)
  <2>1. visits[v].reasons = {}
    BY <1>0, <1>1 DEF CalendarHolds, VisitTellsTheTruth
  <2>2. QED
    BY <1>4, <1>10, <2>1 DEF TruthRight
<1>13. DescentRight(v)
  BY <1>2, <1>3, <1>8 DEF DescentRight
<1>14. \A a \in rows'[v] : HearsRight(v, a)'
  BY <1>2, <1>3, <1>7 DEF HearsRight
<1>15. QED
  BY <1>5, <1>6, <1>9, <1>11, <1>12, <1>13, <1>14 DEF AllRight

LEMMA UnbookRight ==
  ASSUME RepairInv, NEW v \in Visit, Unbook(v)
  PROVE  TypeOK' /\ OnlyVisit(v) /\ AllRight(v)
<1>0. /\ visits \in [Visit -> VisitRecord] /\ rows \in [Visit -> SUBSET Row]
      /\ RowsInv /\ CalendarHolds
  BY DEF RepairInv, TypeOK
<1>1. rows' = [rows EXCEPT ![v] = {}] /\ UNCHANGED <<intents, repairs, calls, visitLock, crewLock>>
  BY DEF Unbook
<1>2. rows'[v] = {} /\ \A w \in Visit \ {v} : rows'[w] = rows[w]
  BY <1>0, <1>1
<1>3. PICK a \in rows[v] : a.status = "DRAFT" /\ rows[v] = {a}
  BY <1>0 DEF Unbook, RowsInv, Drafted
<1>4. /\ visits' \in [Visit -> VisitRecord] /\ \A w \in Visit \ {v} : visits'[w] = visits[w]
      /\ visits'[v].status = "UNASSIGNED" /\ visits'[v].reasons = visits[v].reasons
  <2>1. visits' = [visits EXCEPT ![v].status = "UNASSIGNED", ![v].rev = @ + 1]
    BY DEF Unbook
  <2>2. QED
    BY <2>1, VisitMoves DEF RepairInv, VisitStatus
<1>5. TypeOK'
  BY <1>0, <1>1, <1>4 DEF RepairInv, TypeOK
<1>6. OnlyVisit(v)
  BY <1>1, <1>2, <1>4 DEF OnlyVisit, Elsewhere
<1>7. ~ \E i \in intents' : i.visit = v
  <2>1. ASSUME NEW i \in intents, i.visit = v PROVE FALSE
    <3>1. \E x \in rows[i.visit] : x.status # "DRAFT"
      BY <1>0 DEF RowsInv, Addressed
    <3>2. QED
      BY <1>3, <2>1, <3>1
  <2>2. QED
    BY <1>1, <2>1
<1>8. ~ \E r \in repairs : \E i \in r.items : i.operation.visit = v
  <2>1. ASSUME NEW r \in repairs, NEW i \in r.items, i.operation.visit = v PROVE FALSE
    <3>1. \E x \in rows[i.operation.visit] : x.status = "SUPERSEDED"
      BY <1>0 DEF RowsInv, Settled
    <3>2. QED
      BY <1>3, <2>1, <3>1
  <2>2. QED
    BY <2>1
<1>9. RowsRight(v)
  <2>1. Numbered(v)'
    <3>1. Ids(v)' = {} /\ {} = 1 .. 0
      BY <1>2 DEF Ids
    <3>2. QED
      BY <1>2, <3>1 DEF Numbered
  <2>2. Drafted(v)' /\ Descended(v)'
    BY <1>2 DEF Drafted, Descended
  <2>3. QED
    BY <1>7, <1>8, <2>1, <2>2 DEF RowsRight
<1>10. Live(v)' = {}
  BY <1>2 DEF Live
<1>11. TruthRight(v)
  <2>1. visits[v].status = "SCHEDULED"
    BY <1>0, <1>3 DEF CalendarHolds, VisitTellsTheTruth, Live
  <2>2. visits[v].reasons = {}
    BY <1>0, <2>1 DEF CalendarHolds, VisitTellsTheTruth
  <2>3. QED
    BY <1>2, <1>4, <1>10, <2>2 DEF TruthRight
<1>12. QED
  BY <1>2, <1>5, <1>6, <1>9, <1>10, <1>11 DEF AllRight, ClearRight, DescentRight

LEMMA PublishRight ==
  ASSUME RepairInv, NEW v \in Visit, PublishDraft(v)
  PROVE  TypeOK' /\ OnlyVisit(v) /\ AllRight(v)
<1>0. /\ visits \in [Visit -> VisitRecord] /\ rows \in [Visit -> SUBSET Row] /\ intents \subseteq Intent
      /\ RowsInv /\ CalendarHolds
  BY DEF RepairInv, TypeOK
<1>1. PICK a \in rows[v] :
        /\ a.status = "DRAFT"
        /\ rows' = [rows EXCEPT ![v] = (@ \ {a}) \cup {[a EXCEPT !.status = "PUBLISHED"]}]
        /\ intents' = intents \cup Intents(v, a.id, a.crew, "assignment.published")
  BY DEF PublishDraft
<1> DEFINE now == [a EXCEPT !.status = "PUBLISHED"]
<1>2. rows[v] = {a} /\ a \in Row
  BY <1>0, <1>1 DEF RowsInv, Drafted
<1>3. /\ now \in Row /\ now.id = a.id /\ now.crew = a.crew /\ now.status = "PUBLISHED"
      /\ now.supersedes = a.supersedes /\ now.pinned = a.pinned
  BY <1>2 DEF Row
<1>4. rows' = [rows EXCEPT ![v] = {now}]
  BY <1>0, <1>1, <1>2
<1> HIDE DEF now
<1>5. rows'[v] = {now} /\ \A w \in Visit \ {v} : rows'[w] = rows[w]
  BY <1>0, <1>4
<1>6. UNCHANGED <<visits, repairs, calls, visitLock, crewLock>>
  BY DEF PublishDraft
<1>7. Intents(v, a.id, a.crew, "assignment.published") \subseteq Intent
  <2>1. ASSUME NEW e \in a.crew
        PROVE  [visit |-> v, id |-> a.id, employee |-> e, event |-> "assignment.published",
                cancelled |-> FALSE] \in Intent
    BY <1>2 DEF Intent, Row
  <2>2. QED
    BY <2>1 DEF Intents
<1>8. TypeOK'
  <2>1. rows' \in [Visit -> SUBSET Row]
    BY <1>0, <1>3, <1>4
  <2>2. intents' \subseteq Intent
    BY <1>0, <1>1, <1>7
  <2>3. QED
    BY <1>6, <2>1, <2>2 DEF RepairInv, TypeOK
<1>9. \A i \in intents' : i \in intents \/
        (i.visit = v /\ i.id = a.id /\ i.employee \in a.crew /\ i.event = "assignment.published" /\ ~ i.cancelled)
  BY <1>1 DEF Intents
<1>10. OnlyVisit(v)
  BY <1>1, <1>5, <1>6, <1>9 DEF OnlyVisit, Elsewhere
<1>11. ~ \E i \in intents : i.visit = v
  <2>1. ASSUME NEW i \in intents, i.visit = v PROVE FALSE
    <3>1. \E x \in rows[i.visit] : x.status # "DRAFT"
      BY <1>0 DEF RowsInv, Addressed
    <3>2. QED
      BY <1>1, <1>2, <2>1, <3>1
  <2>2. QED
    BY <2>1
<1>12. ~ \E r \in repairs : \E i \in r.items : i.operation.visit = v
  <2>1. ASSUME NEW r \in repairs, NEW i \in r.items, i.operation.visit = v PROVE FALSE
    <3>1. \E x \in rows[i.operation.visit] : x.status = "SUPERSEDED"
      BY <1>0 DEF RowsInv, Settled
    <3>2. QED
      BY <1>1, <1>2, <2>1, <3>1
  <2>2. QED
    BY <2>1
<1>13. RowsRight(v)
  <2>1. Numbered(v)'
    <3>1. Ids(v)' = Ids(v)
      BY <1>2, <1>3, <1>5 DEF Ids
    <3>2. \E n \in Nat : Ids(v) = 1 .. n
      BY <1>0 DEF RowsInv, Numbered
    <3>3. QED
      BY <1>5, <3>1, <3>2 DEF Numbered
  <2>2. Drafted(v)' /\ Descended(v)'
    <3>1. a.supersedes = 0
      BY <1>0, <1>1, <1>2 DEF RowsInv, Descended
    <3>2. QED
      BY <1>3, <1>5, <3>1 DEF Drafted, Descended
  <2>3. \A i \in intents' : i.visit = v => i.id = a.id
    BY <1>9, <1>11
  <2>4. QED
    BY <1>3, <1>5, <1>12, <2>1, <2>2, <2>3 DEF RowsRight
<1>14. Live(v)' = {now} /\ Live(v) = {a}
  BY <1>1, <1>2, <1>3, <1>5 DEF Live
<1>15. ClearRight(v)
  BY <1>0, <1>3, <1>14 DEF ClearRight, CalendarHolds, NobodyDoubleBooked
<1>16. TruthRight(v)
  BY <1>0, <1>2, <1>5, <1>6, <1>14 DEF TruthRight, CalendarHolds, VisitTellsTheTruth
<1>17. DescentRight(v)
  <2>1. a.pinned => a.supersedes # a.id
    BY <1>2 DEF RepairInv, OneLineOfDescent
  <2>2. QED
    BY <1>3, <1>5, <1>12, <2>1 DEF DescentRight
<1>18. \A b \in rows'[v] : HearsRight(v, b)'
  <2>1. ASSUME NEW e \in a.crew, NEW event PROVE Hears(v, a.id, e, event)' <=> event = "assignment.published"
    <3> DEFINE i == [visit |-> v, id |-> a.id, employee |-> e, event |-> "assignment.published", cancelled |-> FALSE]
    <3>1. i \in intents'
      BY <1>1 DEF Intents
    <3>2. i.visit = v /\ i.id = a.id /\ i.employee = e /\ i.event = "assignment.published" /\ ~ i.cancelled
      OBVIOUS
    <3> HIDE DEF i
    <3>3. QED
      BY <1>9, <1>11, <3>1, <3>2 DEF Hears
  <2> HIDE DEF Hears
  <2>2. QED
    BY <1>3, <1>5, <2>1 DEF HearsRight
<1>19. QED
  BY <1>8, <1>10, <1>13, <1>15, <1>16, <1>17, <1>18 DEF AllRight

LEMMA SetLockedRight ==
  ASSUME RepairInv, NEW v \in Visit, SetLocked(v)
  PROVE  TypeOK' /\ OnlyVisit(v) /\ AllRight(v)
<1>0. visits \in [Visit -> VisitRecord] /\ RowsInv /\ CalendarHolds /\ OneLineOfDescent
  BY DEF RepairInv, TypeOK
<1>1. UNCHANGED <<rows, intents, repairs, calls, visitLock, crewLock>> /\ Live(v)' = Live(v)
  BY DEF SetLocked, Live
<1>2. /\ visits' \in [Visit -> VisitRecord] /\ \A w \in Visit \ {v} : visits'[w] = visits[w]
      /\ visits'[v].status = visits[v].status /\ visits'[v].reasons = visits[v].reasons
  <2>1. [visits[v] EXCEPT !.rev = @ + 1] \in VisitRecord
    BY <1>0 DEF VisitRecord
  <2>2. visits' = [visits EXCEPT ![v] = [visits[v] EXCEPT !.rev = @ + 1]]
    BY <1>0 DEF SetLocked
  <2>3. visits'[v] = [visits[v] EXCEPT !.rev = @ + 1] /\ visits[v] \in VisitRecord
    BY <1>0, <2>2
  <2>4. QED
    BY <1>0, <2>1, <2>2, <2>3 DEF VisitRecord
<1>3. TypeOK'
  BY <1>1, <1>2 DEF RepairInv, TypeOK
<1>4. OnlyVisit(v)
  BY <1>1, <1>2 DEF OnlyVisit, Elsewhere
<1>5. RowsRight(v)
  <2>1. Numbered(v)'
    BY <1>0, <1>1 DEF RowsInv, Numbered, Ids
  <2>2. Drafted(v)' /\ Descended(v)'
    BY <1>0, <1>1 DEF RowsInv, Drafted, Descended
  <2>3. \A i \in intents' : i.visit = v => \E x \in rows'[v] : x.id = i.id /\ x.status # "DRAFT"
    BY <1>0, <1>1 DEF RowsInv, Addressed
  <2>4. \A r \in repairs : \A i \in r.items : i.operation.visit = v =>
          \E x \in rows'[v] : x.id = i.operation.id /\ x.status = "SUPERSEDED"
    BY <1>0, <1>1 DEF RowsInv, Settled
  <2>5. QED
    BY <2>1, <2>2, <2>3, <2>4 DEF RowsRight
<1>6. ClearRight(v)
  BY <1>0, <1>1 DEF ClearRight, CalendarHolds, NobodyDoubleBooked
<1>7. TruthRight(v)
  BY <1>0, <1>1, <1>2 DEF TruthRight, CalendarHolds, VisitTellsTheTruth
<1>8. DescentRight(v)
  BY <1>0, <1>1 DEF DescentRight, OneLineOfDescent
<1>9. \A a \in rows'[v] : HearsRight(v, a)'
  <2>1. \A a \in rows[v] : HearsRight(v, a)
    BY <1>0, TruthIsHeard DEF CalendarHolds, AllHearRight
  <2>2. QED
    BY <1>1, <2>1 DEF HearsRight, Hears, Ended
<1>10. QED
  BY <1>3, <1>4, <1>5, <1>6, <1>7, <1>8, <1>9 DEF AllRight

LEMMA DraftingKeeps ==
  ASSUME RepairInv, NEW v \in Visit, Drafting(v)
  PROVE  /\ TypeOK' /\ RowsInv' /\ CalendarHolds' /\ OneLineOfDescent' /\ AnswerIsRecorded'
         /\ OnlyVisit(v)
<1>1. TypeOK' /\ OnlyVisit(v) /\ AllRight(v)
  BY BookRight, UnbookRight, PublishRight, SetLockedRight DEF Drafting
<1>2. RowsInv'
  BY <1>1, OnlyVisitRows DEF AllRight
<1>3. QED
  BY <1>1, <1>2, OnlyVisitCalendar

-----------------------------------------------------------------------------
(* A step that writes nothing keeps the calendar. *)

LEMMA QuietKeeps ==
  ASSUME RepairInv, Quiet
  PROVE  RowsInv' /\ CalendarHolds' /\ OneLineOfDescent'
<1>1. \A v \in Visit : Live(v)' = Live(v) /\ Ids(v)' = Ids(v)
  BY DEF Quiet, Live, Ids
<1>2. RowsInv'
  <2>1. \A v \in Visit : Numbered(v)' /\ Drafted(v)' /\ Descended(v)'
    BY <1>1 DEF Quiet, RepairInv, RowsInv, Numbered, Drafted, Descended
  <2>2. Addressed' /\ Settled'
    BY DEF Quiet, RepairInv, RowsInv, Addressed, Settled
  <2>3. QED
    BY <2>1, <2>2 DEF RowsInv
<1>3. NobodyDoubleBooked' /\ VisitTellsTheTruth'
  BY <1>1 DEF Quiet, RepairInv, CalendarHolds, NobodyDoubleBooked, VisitTellsTheTruth
<1>4. CrewsHearTheTruth'
  BY DEF Quiet, RepairInv, CalendarHolds, CrewsHearTheTruth
<1>5. OneLineOfDescent'
  BY <1>1 DEF Quiet, RepairInv, OneLineOfDescent
<1>6. QED
  BY <1>2, <1>3, <1>4, <1>5 DEF CalendarHolds

LEMMA ConversesTypes ==
  ASSUME RepairInv, NEW c \in Call, Converses(c)
  PROVE  TypeOK'
<1> DEFINE Typed == /\ calls' \in [Call -> CallRow]
                    /\ visitLock' \in [Visit -> Call \cup {None}] /\ crewLock' \in [Employee -> Call \cup {None}]
<1> SUFFICES Typed
  BY ConversesIsQuiet DEF RepairInv, TypeOK, Quiet
<1>0. TypeOK
  BY DEF RepairInv
<1>1. UNCHANGED <<visitLock, crewLock>> =>
        visitLock' \in [Visit -> Call \cup {None}] /\ crewLock' \in [Employee -> Call \cup {None}]
  BY <1>0 DEF TypeOK
<1>2. CASE Preview(c)
  BY <1>1, <1>2, PreviewType DEF Preview
<1>3. CASE \E first \in Call : Repeat(c, first)
  BY <1>1, <1>3, RepeatType DEF Repeat
<1>4. CASE LookUp(c)
  BY <1>0, <1>1, <1>4, ReplayType, GotoType DEF LookUp, CallPC
<1>5. CASE Preflight(c)
  BY <1>0, <1>1, <1>5, AnswerType, GotoType DEF Preflight, CallPC
<1>6. CASE Lock(c)
  BY <1>0, <1>6, GotoType DEF Lock, LockCrew, CallPC, TypeOK
<1>7. CASE Judge(c)
  BY <1>0, <1>1, <1>7, ReplayType, AnswerType, GotoType DEF Judge, CallPC
<1>8. CASE Fail(c)
  BY <1>0, <1>8, AnswerType DEF Fail, CallPC
<1>9. CASE Commit(c) /\ Recorded(c) # {}
  BY <1>0, <1>9, ReplayType DEF Commit
<1>10. QED
  BY <1>2, <1>3, <1>4, <1>5, <1>6, <1>7, <1>8, <1>9 DEF Converses

LEMMA ConversesAnswers ==
  ASSUME RepairInv, NEW c \in Call, Converses(c)
  PROVE  AnswerIsRecorded'
<1>0. TypeOK
  BY DEF RepairInv
<1> DEFINE Backed == calls'[c].pc = "applied" =>
      Keeps(c) /\ \E r \in repairs : r.key = calls[c].key /\ r.form = calls[c].form /\ r.items = calls'[c].result
<1> SUFFICES Backed
  <2>1. repairs' = repairs
    BY ConversesIsQuiet DEF Quiet
  <2>2. \A d \in Call \ {c} : calls'[d] = calls[d]
    BY <1>0, OthersStay
  <2>3. QED
    BY <2>1, <2>2 DEF AnswerIsRecorded, Keeps, RepairInv
<1>1. CASE Preview(c) \/ \E first \in Call : Repeat(c, first)
  BY <1>1, PreviewType, RepeatType
<1>2. CASE LookUp(c)
  BY <1>0, <1>2, ReplayKeeps, GotoKeeps DEF LookUp
<1>3. CASE Preflight(c)
  BY <1>0, <1>3, AnswerKeeps, GotoKeeps DEF Preflight
<1>4. CASE Lock(c)
  BY <1>0, <1>4, GotoKeeps DEF Lock
<1>5. CASE Judge(c)
  BY <1>0, <1>5, ReplayKeeps, AnswerKeeps, GotoKeeps DEF Judge
<1>6. CASE Fail(c)
  BY <1>0, <1>6, AnswerKeeps DEF Fail
<1>7. CASE Commit(c) /\ Recorded(c) # {}
  BY <1>0, <1>7, ReplayKeeps DEF Commit
<1>8. QED
  BY <1>1, <1>2, <1>3, <1>4, <1>5, <1>6, <1>7 DEF Converses

-----------------------------------------------------------------------------
(* What a plan was judged by still stands. *)

\* A step that leaves a call, the visits it holds and the crews it holds alone.
Spares(d) ==
  /\ calls'[d] = calls[d]
  /\ \A v \in Visit : visitLock[v] = d => rows'[v] = rows[v] /\ visits'[v] = visits[v]
  /\ \A w \in Visit : \A b \in Live(w)' :
       \/ \E a \in Live(w) : a.id = b.id /\ a.crew = b.crew
       \/ \A e \in b.crew : crewLock[e] # d

LEMMA SparesStands ==
  ASSUME RepairInv, NEW d \in Call, Spares(d)
  PROVE  Stands(d)'
<1> SUFFICES ASSUME calls[d].pc = "judged"
             PROVE  Sourced(Ops(d))' /\ Unclashing(Ops(d))' /\ Reviewed(calls[d].form)'
  BY DEF Spares, Stands, Ops
<1>1. /\ Sourced(Ops(d)) /\ Unclashing(Ops(d)) /\ Reviewed(calls[d].form) /\ Ops(d)' = Ops(d)
      /\ calls'[d] = calls[d]
  BY DEF RepairInv, CallsInv, Stands, Ops, Spares
<1>2. Ops(d) \subseteq Operation
  BY DEF RepairInv, TypeOK, CallRow, Form, Ops
<1>3. ASSUME NEW o \in Ops(d)
      PROVE  /\ rows'[o.visit] = rows[o.visit] /\ visits'[o.visit] = visits[o.visit] /\ o.visit \in Visit
             /\ \A e \in o.crew : crewLock[e] = d
  BY <1>2 DEF RepairInv, CallsInv, Locked, Ops, Spares, Operation
<1>4. \A o \in Ops(d) : SourceRow(o)' = SourceRow(o) /\ Published(o.visit)' = Published(o.visit)
  BY <1>3 DEF SourceRow, Published
<1>5. Sourced(Ops(d))'
  <2>1. PICK ops : ops = Ops(d)
    OBVIOUS
  <2>2. \A o \in ops : Published(o.visit)' = Published(o.visit)
    BY <1>4, <2>1
  <2>3. Sourced(ops)
    BY <1>1, <2>1
  <2>4. Sourced(ops)'
    <3>1. ASSUME NEW o \in ops
          PROVE  /\ \E a \in Published(o.visit)' : a.id = o.id
                 /\ \A a \in Published(o.visit)' : \E p \in ops : p.visit = o.visit /\ p.id = a.id
                 /\ \A p \in ops : p.visit = o.visit /\ Replaces(p) /\ Replaces(o) => p = o
      BY <2>2, <2>3 DEF Sourced
    <3>2. QED
      BY Zenon, <3>1 DEF Sourced, Replaces
  <2>5. ops = Ops(d)'
    BY <1>1, <2>1
  <2>6. QED
    BY <2>4, <2>5 DEF Sourced
<1>6. ASSUME NEW o \in Ops(d), Replaces(o) PROVE ~ Booked(o, Ops(d))'
  <2> SUFFICES ASSUME NEW w \in Visit, NEW b \in Live(w)', DayOf[w] = DayOf[o.visit], b.crew \cap o.crew # {},
                      \A p \in Ops(d) : ~ (p.visit = w /\ p.id = b.id)
               PROVE  FALSE
    BY <1>1 DEF Booked
  <2>1. PICK e \in o.crew : e \in b.crew
    OBVIOUS
  <2>2. crewLock[e] = d
    BY <1>3
  <2>3. PICK a \in Live(w) : a.id = b.id /\ a.crew = b.crew
    BY <2>1, <2>2 DEF Spares
  <2>4. Booked(o, Ops(d))
    BY <2>3 DEF Booked
  <2>5. QED
    BY <1>1, <1>6, <2>4 DEF Unclashing
<1>7. Unclashing(Ops(d))'
  BY <1>1, <1>4, <1>6 DEF Unclashing
<1>8. Reviewed(calls[d].form)'
  <2>1. ASSUME NEW i \in calls[d].form.plan
        PROVE  i.operation \in Ops(d) /\ i.conflicts = {} /\ Fingerprint(i.operation)' = i.fingerprint
    <3>1. i.operation \in Ops(d) /\ i.conflicts = {} /\ Fingerprint(i.operation) = i.fingerprint
      BY <1>1 DEF Reviewed, Ops
    <3>2. Fingerprint(i.operation)' = Fingerprint(i.operation)
      BY <1>3, <1>4, <3>1 DEF Fingerprint
    <3>3. QED
      BY <3>1, <3>2
  <2>2. QED
    BY <1>1, <2>1 DEF Reviewed, Ops
<1>9. QED
  BY <1>5, <1>7, <1>8

LEMMA QuietSpares ==
  ASSUME Quiet, NEW d, calls'[d] = calls[d]
  PROVE  Spares(d)
  BY DEF Quiet, Spares, Live

LEMMA LandSpares ==
  ASSUME RepairInv, NEW c \in Call, Land(c), NEW d \in Call \ {c}
  PROVE  Spares(d)
<1>1. calls'[d] = calls[d]
  BY OthersStay DEF RepairInv
<1>2. ASSUME NEW v \in Visit, visitLock[v] = d PROVE rows'[v] = rows[v] /\ visits'[v] = visits[v]
  <2>1. ~ Touched(c, v)
    BY <1>2, LandStands DEF Touched
  <2>2. QED
    BY <2>1, LandVisit, LandWrites
<1>3. ASSUME NEW w \in Visit, NEW b \in Live(w)'
      PROVE  (\E a \in Live(w) : a.id = b.id /\ a.crew = b.crew) \/ (\A e \in b.crew : crewLock[e] # d)
  <2>1. CASE Touched(c, w)
    <3>1. PICK o \in Heirs(c, w) : b = Successor(o)
      BY <2>1, LandVisit
    <3>2. o \in Ops(c) /\ b.crew = o.crew
      BY <3>1, SuccessorIs DEF Heirs
    <3>3. \A e \in o.crew : crewLock[e] = c
      BY <3>2, LandStands
    <3>4. QED
      BY <3>2, <3>3
  <2>2. CASE ~ Touched(c, w)
    BY <2>2, LandVisit
  <2>3. QED
    BY <2>1, <2>2
<1>4. QED
  BY <1>1, <1>2, <1>3 DEF Spares

LEMMA DraftingSpares ==
  ASSUME RepairInv, NEW v \in Visit, Drafting(v), NEW d \in Call
  PROVE  Spares(d)
<1>0. d # None /\ visitLock[v] = None
  BY RepairAssumption DEF Drafting, Book, Unbook, PublishDraft, SetLocked
<1>1. OnlyVisit(v)
  BY DraftingKeeps
<1>2. calls'[d] = calls[d] /\ \A w \in Visit : visitLock[w] = d => rows'[w] = rows[w] /\ visits'[w] = visits[w]
  BY <1>0, <1>1 DEF OnlyVisit, Elsewhere
<1>3. rows \in [Visit -> SUBSET Row]
  BY DEF RepairInv, TypeOK
<1>4. ASSUME NEW b \in Live(v)'
      PROVE  (\E a \in Live(v) : a.id = b.id /\ a.crew = b.crew) \/ (\A e \in b.crew : crewLock[e] # d)
  <2>1. ASSUME NEW crew \in Crews, NEW pinned \in BOOLEAN, Book(v, crew, pinned) PROVE \A e \in b.crew : crewLock[e] # d
    <3>1. \A e \in crew : crewLock[e] = None
      BY <2>1 DEF Book
    <3>2. rows'[v] = {[id |-> 1, crew |-> crew, status |-> "DRAFT", pinned |-> pinned, supersedes |-> 0]}
      BY <1>3, <2>1 DEF Book
    <3>3. b.crew = crew
      BY <3>2 DEF Live
    <3>4. QED
      BY <1>0, <3>1, <3>3
  <2>2. CASE Unbook(v)
    BY <1>3, <2>2 DEF Unbook, Live
  <2>3. CASE PublishDraft(v)
    <3>1. PICK a \in rows[v] : /\ a.status = "DRAFT"
                               /\ rows' = [rows EXCEPT ![v] = (@ \ {a}) \cup {[a EXCEPT !.status = "PUBLISHED"]}]
      BY <2>3 DEF PublishDraft
    <3>2. a \in Row /\ a \in Live(v) /\ rows'[v] = (rows[v] \ {a}) \cup {[a EXCEPT !.status = "PUBLISHED"]}
      BY <1>3, <3>1 DEF Live
    <3>3. [a EXCEPT !.status = "PUBLISHED"].id = a.id /\ [a EXCEPT !.status = "PUBLISHED"].crew = a.crew
      BY <3>2 DEF Row
    <3>4. QED
      BY <3>2, <3>3 DEF Live
  <2>4. CASE SetLocked(v)
    BY <2>4 DEF SetLocked, Live
  <2>5. QED
    BY <2>1, <2>2, <2>3, <2>4 DEF Drafting
<1>5. \A w \in Visit \ {v} : Live(w)' = Live(w)
  BY <1>1 DEF OnlyVisit, Live
<1>6. QED
  BY <1>2, <1>4, <1>5 DEF Spares

\* A call that judged its plan found it as it was reviewed, and free of clashes.
LEMMA JudgeStands ==
  ASSUME RepairInv, NEW c \in Call, Judge(c), calls'[c].pc = "judged"
  PROVE  Stands(c)'
<1>0. TypeOK /\ Quiet
  BY ConversesIsQuiet DEF RepairInv, Converses
<1>1. Keeps(c) /\ Repairable(Ops(c)) /\ Matches(calls[c].form)
  <2>1. ReplayOrReject(c) => calls'[c].pc # "judged"
    BY <1>0, ReplayKeeps
  <2>2. Answer(c, "refused", {}) => calls'[c].pc # "judged"
    BY <1>0, AnswerKeeps
  <2>3. Goto(c, "judged") => Keeps(c)
    BY <1>0, GotoKeeps
  <2>4. QED
    BY <2>1, <2>2, <2>3 DEF Judge, Ops
<1>2. Plan(Ops(c)) = calls[c].form.plan /\ \A i \in Plan(Ops(c)) : i.conflicts = {}
  BY <1>1 DEF Matches, Ops
<1>3. Sourced(Ops(c))
  BY <1>1 DEF Repairable, Sourced
<1>4. \A o \in Ops(c) : Conflicts(o, Ops(c)) = {}
  <2>1. \A o \in Ops(c) : Item(o, Ops(c)) \in Plan(Ops(c)) /\ Item(o, Ops(c)).conflicts = Conflicts(o, Ops(c))
    BY DEF Plan, Item
  <2>2. QED
    BY <1>2, <2>1
<1>5. Unclashing(Ops(c))
  <2> SUFFICES ASSUME NEW o \in Ops(c), Replaces(o)
               PROVE  /\ ~ Booked(o, Ops(c)) /\ ~ SourceRow(o).pinned
                      /\ \A p \in Ops(c) \ {o} : DayOf[p.visit] = DayOf[o.visit] => p.crew \cap o.crew = {}
    BY DEF Unclashing
  <2>1. /\ RuleConflicts(o, Ops(c)) = {}
        /\ {x \in {"ASSIGNMENT_LOCKED", "BATCH"} :
              CASE x = "ASSIGNMENT_LOCKED" -> SourceRow(o).pinned
                [] OTHER -> \E p \in Ops(c) \ {o} : DayOf[p.visit] = DayOf[o.visit] /\ p.crew \cap o.crew # {}} = {}
    BY <1>4 DEF Conflicts
  <2>2. ~ Booked(o, Ops(c))
    <3>1. ASSUME Booked(o, Ops(c)) PROVE "EMPLOYEE_DOUBLE_BOOKED" \in RuleConflicts(o, Ops(c))
      BY <3>1 DEF RuleConflicts
    <3>2. QED
      BY <2>1, <3>1
  <2>3. QED
    BY <2>1, <2>2
<1>6. Reviewed(calls[c].form)
  <2>1. \A o \in Ops(c) : Item(o, Ops(c)).operation = o /\ Item(o, Ops(c)).fingerprint = Fingerprint(o)
    BY DEF Item
  <2>2. \A i \in calls[c].form.plan : \E o \in Ops(c) : i = Item(o, Ops(c))
    BY <1>2 DEF Plan
  <2> HIDE DEF Item
  <2>3. QED
    BY <1>2, <2>1, <2>2 DEF Reviewed, Ops
<1>7. \A o : SourceRow(o)' = SourceRow(o) /\ Fingerprint(o)' = Fingerprint(o)
  BY <1>0 DEF Quiet, SourceRow, Fingerprint
<1>8. calls'[c].form = calls[c].form
  BY <1>1 DEF Keeps
<1>9. Sourced(calls[c].form.operations)'
  BY <1>0, <1>3, <1>8 DEF Sourced, Published, Quiet, Ops
<1>10. Unclashing(calls[c].form.operations)'
  BY <1>0, <1>5, <1>7, <1>8 DEF Unclashing, Booked, Live, Quiet, Ops
<1>11. Reviewed(calls[c].form)'
  BY <1>6, <1>7, <1>8 DEF Reviewed
<1>12. QED
  BY <1>9, <1>10, <1>11 DEF Stands

LEMMA LockedStays ==
  ASSUME RepairInv, NEW c \in Call, Converses(c) \/ Land(c)
  PROVE  Locked(c)'
<1> SUFFICES ASSUME calls'[c].pc \in {"locked", "judged"}
             PROVE  \A o \in Ops(c) : visitLock'[o.visit] = c /\ \A e \in o.crew : crewLock'[e] = c
  <2>1. ASSUME calls'[c].pc \in {"locked", "judged"} PROVE calls'[c].form = calls[c].form
    BY <2>1, OwnSteps DEF Keeps
  <2>2. QED
    BY <2>1 DEF Locked, Ops
<1>0. Ops(c) \subseteq Operation /\ TypeOK
  BY DEF RepairInv, TypeOK, CallRow, Form, Ops
<1>1. CASE Lock(c)
  <2>1. visitLock' = [v \in Visit |-> IF v \in {o.visit : o \in Ops(c)} THEN c ELSE visitLock[v]]
    BY <1>1 DEF Lock, Ops
  <2>2. crewLock' = [e \in Employee |-> IF e \in UNION {o.crew : o \in Ops(c)} THEN c ELSE crewLock[e]]
    BY <1>1 DEF Lock, LockCrew, Ops
  <2>3. QED
    BY <1>0, <2>1, <2>2 DEF Operation
<1>2. CASE Judge(c)
  <2>1. UNCHANGED <<visitLock, crewLock>>
    <3>1. ReplayOrReject(c) => calls'[c].pc \notin {"locked", "judged"}
      BY <1>0, ReplayKeeps
    <3>2. Answer(c, "refused", {}) => calls'[c].pc \notin {"locked", "judged"}
      BY <1>0, AnswerKeeps
    <3>3. QED
      BY <1>2, <3>1, <3>2 DEF Judge
  <2>2. calls[c].pc = "locked" /\ Locked(c)
    BY <1>2 DEF Judge, RepairInv, CallsInv
  <2>3. QED
    BY <2>1, <2>2 DEF Locked, Ops
<1>3. QED
  BY <1>1, <1>2, OwnSteps

LEMMA CallsKeep ==
  ASSUME RepairInv, NEW c \in Call, Converses(c) \/ Land(c)
  PROVE  CallsInv'
<1> SUFFICES ASSUME NEW d \in Call PROVE Sent(d)' /\ Locked(d)' /\ Stands(d)'
  BY DEF CallsInv
<1>1. CASE d = c
  <2>1. Stands(c)'
    <3>1. CASE calls'[c].pc = "judged"
      BY <3>1, OwnSteps, JudgeStands
    <3>2. CASE calls'[c].pc # "judged"
      BY <3>2 DEF Stands
    <3>3. QED
      BY <3>1, <3>2
  <2>2. QED
    BY <1>1, <2>1, OwnSteps, LockedStays
<1>2. CASE d # c
  <2>1. /\ calls'[d] = calls[d]
        /\ \A v \in Visit : visitLock[v] = d => visitLock'[v] = d
        /\ \A e \in Employee : crewLock[e] = d => crewLock'[e] = d
    BY <1>2, OthersStay DEF RepairInv
  <2>2. Sent(d)'
    BY <2>1 DEF RepairInv, CallsInv, Sent
  <2>3. Locked(d)'
    <3>1. Ops(d) \subseteq Operation
      BY DEF RepairInv, TypeOK, CallRow, Form, Ops
    <3>2. QED
      BY <2>1, <3>1 DEF RepairInv, CallsInv, Locked, Ops, Operation
  <2>4. Spares(d)
    BY <1>2, <2>1, QuietSpares, ConversesIsQuiet, LandSpares
  <2>5. QED
    BY <2>2, <2>3, <2>4, SparesStands
<1>3. QED
  BY <1>1, <1>2

LEMMA CallsKeepElsewhere ==
  ASSUME RepairInv, Elsewhere, \A d \in Call : Spares(d)
  PROVE  CallsInv'
<1> SUFFICES ASSUME NEW d \in Call PROVE Sent(d)' /\ Locked(d)' /\ Stands(d)'
  BY DEF CallsInv
<1>1. Sent(d)' /\ Locked(d)'
  BY DEF Elsewhere, RepairInv, CallsInv, Sent, Locked
<1>2. QED
  BY <1>1, SparesStands

-----------------------------------------------------------------------------
(* The invariant. *)

LEMMA StepKeeps == RepairInv /\ [Next]_vars => RepairInv'
<1> SUFFICES ASSUME RepairInv, [Next]_vars PROVE RepairInv'
  OBVIOUS
<1>1. ASSUME NEW c \in Call, Land(c) PROVE RepairInv'
  BY <1>1, LandTypes, LandRows, LandTold, LandClear, LandTrue, LandDescends, LandAnswers, CallsKeep
     DEF RepairInv, CalendarHolds
<1>2. ASSUME NEW c \in Call, Converses(c) PROVE RepairInv'
  BY <1>2, ConversesIsQuiet, ConversesTypes, ConversesAnswers, QuietKeeps, CallsKeep DEF RepairInv
<1>3. ASSUME NEW v \in Visit, Drafting(v) PROVE RepairInv'
  <2>1. Elsewhere
    BY <1>3, DraftingIsElsewhere
  <2>2. CallsInv'
    BY <1>3, <2>1, DraftingSpares, CallsKeepElsewhere
  <2>3. QED
    BY <1>3, <2>2, DraftingKeeps DEF RepairInv
<1>4. CASE Quiet /\ Elsewhere
  <2>1. TypeOK' /\ AnswerIsRecorded'
    BY <1>4 DEF RepairInv, TypeOK, AnswerIsRecorded, Quiet, Elsewhere
  <2>2. CallsInv'
    BY <1>4, QuietSpares, CallsKeepElsewhere DEF Elsewhere
  <2>3. QED
    BY <1>4, <2>1, <2>2, QuietKeeps DEF RepairInv
<1>5. QED
  BY <1>1, <1>2, <1>3, <1>4, Steps

LEMMA InitHolds == Init => RepairInv
<1> SUFFICES ASSUME Init PROVE RepairInv
  OBVIOUS
<1>0. \A v \in Visit : rows[v] = {LegacyRow(v, i) : i \in DOMAIN Legacy[v]}
  BY DEF Init
<1>1. ASSUME NEW v \in Visit, NEW i \in DOMAIN Legacy[v]
      PROVE  /\ LegacyRow(v, i) \in Row /\ Legacy[v][i] \subseteq Employee /\ i \in Nat /\ i # 0
             /\ LegacyRow(v, i).id = i /\ LegacyRow(v, i).crew = Legacy[v][i]
             /\ LegacyRow(v, i).status = "PUBLISHED" /\ LegacyRow(v, i).pinned = FALSE
             /\ LegacyRow(v, i).supersedes = 0
  <2>1. Legacy[v] \in Seq(Crews) /\ Crews \subseteq (SUBSET Employee) \ {{}}
    BY RepairAssumption
  <2>2. Legacy[v][i] \in Crews /\ i \in Nat /\ i # 0
    BY <2>1
  <2>3. QED
    BY <2>1, <2>2 DEF LegacyRow, Row
<1> HIDE DEF LegacyRow
<1>a. ASSUME NEW v \in Visit, NEW a \in rows[v]
      PROVE  \E i \in DOMAIN Legacy[v] :
               /\ a = LegacyRow(v, i) /\ a.id = i /\ a.crew = Legacy[v][i] /\ a \in Row
               /\ a.status = "PUBLISHED" /\ a.pinned = FALSE /\ a.supersedes = 0
  <2>1. PICK i \in DOMAIN Legacy[v] : a = LegacyRow(v, i)
    BY <1>0
  <2>2. QED
    BY <1>1, <2>1
<1>b. ASSUME NEW v \in Visit, NEW i \in DOMAIN Legacy[v] PROVE LegacyRow(v, i) \in rows[v] /\ LegacyRow(v, i).id = i
  <2>1. LegacyRow(v, i) \in rows[v]
    BY <1>0
  <2>2. QED
    BY <1>1, <2>1
\* The intents are those of the crews.
<1>2. \A i : i \in intents <=>
        \E v \in Visit : \E n \in DOMAIN Legacy[v] : \E e \in Legacy[v][n] :
          i = [visit |-> v, id |-> n, employee |-> e, event |-> "assignment.published", cancelled |-> FALSE]
  <2>1. intents = UNION {UNION {Intents(v, n, Legacy[v][n], "assignment.published") : n \in DOMAIN Legacy[v]} :
                           v \in Visit}
    BY DEF Init
  <2>2. \A i, v, n : i \in Intents(v, n, Legacy[v][n], "assignment.published") <=>
          \E e \in Legacy[v][n] :
            i = [visit |-> v, id |-> n, employee |-> e, event |-> "assignment.published", cancelled |-> FALSE]
    BY DEF Intents
  <2>3. QED
    BY <2>1, <2>2
<1>3. \A v \in Visit : \A a \in rows[v] : a.status = "PUBLISHED" /\ a.pinned = FALSE /\ a.supersedes = 0
  BY <1>a
<1>4. TypeOK
  <2>1. ASSUME NEW v \in Visit
        PROVE [status |-> IF DOMAIN Legacy[v] = {} THEN "PENDING" ELSE "SCHEDULED", reasons |-> {}, rev |-> 0]
                \in VisitRecord
    BY DEF VisitRecord, VisitStatus
  <2>2. visits \in [Visit -> VisitRecord]
    BY <2>1 DEF Init
  <2>3. rows \in [Visit -> SUBSET Row]
    <3>1. \A v \in Visit : rows[v] \subseteq Row
      BY <1>a
    <3>2. rows = [v \in Visit |-> rows[v]]
      BY DEF Init
    <3>3. QED
      BY <3>1, <3>2
  <2>4. intents \subseteq Intent
    <3> SUFFICES ASSUME NEW i \in intents PROVE i \in Intent
      OBVIOUS
    <3>1. PICK v \in Visit : \E n \in DOMAIN Legacy[v] : \E e \in Legacy[v][n] :
            i = [visit |-> v, id |-> n, employee |-> e, event |-> "assignment.published", cancelled |-> FALSE]
      BY <1>2
    <3>2. PICK n \in DOMAIN Legacy[v] : \E e \in Legacy[v][n] :
            i = [visit |-> v, id |-> n, employee |-> e, event |-> "assignment.published", cancelled |-> FALSE]
      BY <3>1
    <3>3. n \in Nat /\ Legacy[v][n] \subseteq Employee
      BY <1>1
    <3>4. QED
      BY <3>2, <3>3 DEF Intent
  <2>5. IdleCall \in CallRow
    BY DEF IdleCall, NoForm, CallRow, CallPC, Form
  <2>6. calls \in [Call -> CallRow]
    BY <2>5 DEF Init
  <2>7. QED
    BY <2>2, <2>3, <2>4, <2>6 DEF Init, TypeOK
<1>5. RowsInv
  <2>1. ASSUME NEW v \in Visit PROVE Numbered(v)
    <3>1. PICK n \in Nat : DOMAIN Legacy[v] = 1 .. n
      <4>1. Legacy[v] \in Seq(Crews)
        BY RepairAssumption
      <4>2. QED
        BY <4>1
    <3>a. ASSUME NEW a \in rows[v] PROVE a.id \in DOMAIN Legacy[v] /\ a = LegacyRow(v, a.id)
      <4>1. PICK i \in DOMAIN Legacy[v] : a = LegacyRow(v, i) /\ a.id = i
        BY <1>a
      <4>2. QED
        BY <4>1
    <3>b. ASSUME NEW i \in DOMAIN Legacy[v] PROVE \E a \in rows[v] : a.id = i
      <4>1. LegacyRow(v, i) \in rows[v] /\ LegacyRow(v, i).id = i
        BY <1>b
      <4>2. QED
        BY <4>1
    <3>2. Ids(v) = DOMAIN Legacy[v]
      BY <3>a, <3>b DEF Ids
    <3>3. ASSUME NEW a \in rows[v], NEW b \in rows[v], a.id = b.id PROVE a = b
      BY <3>a, <3>3
    <3>4. QED
      BY <3>1, <3>2, <3>3 DEF Numbered
  <2>2. \A v \in Visit : Drafted(v) /\ Descended(v)
    BY <1>3 DEF Drafted, Descended
  <2>3. Addressed
    <3> SUFFICES ASSUME NEW i \in intents PROVE \E a \in rows[i.visit] : a.id = i.id /\ a.status # "DRAFT"
      BY DEF Addressed
    <3>1. PICK v \in Visit : \E n \in DOMAIN Legacy[v] : i.visit = v /\ i.id = n
      BY <1>2
    <3>2. PICK n \in DOMAIN Legacy[v] : i.visit = v /\ i.id = n
      BY <3>1
    <3>3. LegacyRow(v, n) \in rows[v]
      BY <1>0
    <3>4. QED
      BY <1>1, <3>2, <3>3
  <2>4. Settled
    BY DEF Init, Settled
  <2>5. QED
    BY <2>1, <2>2, <2>3, <2>4 DEF RowsInv
<1>6. CallsInv
  BY DEF Init, CallsInv, Sent, Locked, Stands, IdleCall
<1>7. \A v \in Visit : Live(v) = rows[v]
  BY <1>3 DEF Live
<1>8. NobodyDoubleBooked
  <2> SUFFICES ASSUME NEW v \in Visit, NEW w \in Visit, v # w, DayOf[v] = DayOf[w],
                      NEW a \in rows[v], NEW b \in rows[w]
               PROVE  a.crew \cap b.crew = {}
    BY <1>7 DEF NobodyDoubleBooked
  <2>1. PICK i \in DOMAIN Legacy[v] : a.crew = Legacy[v][i]
    BY <1>a
  <2>2. PICK j \in DOMAIN Legacy[w] : b.crew = Legacy[w][j]
    BY <1>a
  <2>3. QED
    BY <2>1, <2>2, LegacyAssumption
<1>9. VisitTellsTheTruth
  <2> SUFFICES ASSUME NEW v \in Visit
               PROVE  /\ visits[v].status = "SCHEDULED" <=> rows[v] # {}
                      /\ visits[v].reasons = {} /\ visits[v].status # "UNASSIGNED"
    BY <1>7 DEF VisitTellsTheTruth
  <2>1. visits[v] = [status |-> IF DOMAIN Legacy[v] = {} THEN "PENDING" ELSE "SCHEDULED", reasons |-> {}, rev |-> 0]
    BY DEF Init
  <2>2. rows[v] = {} <=> DOMAIN Legacy[v] = {}
    BY <1>a, <1>b
  <2>3. QED
    BY <2>1, <2>2
<1>10. CrewsHearTheTruth
  <2> SUFFICES ASSUME NEW v \in Visit, NEW a \in rows[v], NEW e \in a.crew, NEW event
               PROVE  Hears(v, a.id, e, event) <=> event = "assignment.published"
    BY <1>3, TruthIsHeard DEF AllHearRight, HearsRight
  <2>1. PICK n \in DOMAIN Legacy[v] : a = LegacyRow(v, n)
    BY <1>0
  <2>2. a.id = n /\ e \in Legacy[v][n]
    BY <1>1, <2>1
  <2> DEFINE i == [visit |-> v, id |-> n, employee |-> e, event |-> "assignment.published", cancelled |-> FALSE]
  <2>3. i \in intents
    BY <1>2, <2>2
  <2>4. i.visit = v /\ i.id = a.id /\ i.employee = e /\ i.event = "assignment.published" /\ ~ i.cancelled
    BY <2>2
  <2> HIDE DEF i
  <2>5. \A j \in intents : j.event = "assignment.published"
    BY <1>2
  <2>6. QED
    BY <2>3, <2>4, <2>5 DEF Hears
<1>11. OneLineOfDescent
  BY <1>3 DEF Init, OneLineOfDescent
<1>12. AnswerIsRecorded
  BY DEF Init, AnswerIsRecorded, IdleCall
<1>13. QED
  BY <1>4, <1>5, <1>6, <1>8, <1>9, <1>10, <1>11, <1>12 DEF RepairInv, CalendarHolds

\* The rows, the intents and the calls have their types, identities and locks in
\* every reachable state, and a judged plan still stands.
THEOREM RepairHolds == Spec => []RepairInv
<1>1. Init => RepairInv
  BY InitHolds
<1>2. RepairInv /\ [Next]_vars => RepairInv'
  BY StepKeeps
<1>3. QED
  BY <1>1, <1>2, PTL DEF Spec

\* Nobody is double booked, visits say what their assignments say and crews will
\* be told what holds, after every commit of repairs and drafts.
THEOREM CalendarAlwaysHolds == Spec => []CalendarHolds
<1>1. RepairInv => CalendarHolds
  BY DEF RepairInv
<1>2. QED
  BY <1>1, RepairHolds, PTL

\* Who is told a repair was applied gets the recorded result of his own request.
THEOREM AnswersAreRecorded == Spec => []AnswerIsRecorded
<1>1. RepairInv => AnswerIsRecorded
  BY DEF RepairInv
<1>2. QED
  BY <1>1, RepairHolds, PTL

LEMMA StepAppliesReviewed ==
  RepairInv /\ [Next]_vars =>
    \A r \in repairs' \ repairs : \A i \in r.form.plan :
       Fingerprint(i.operation) = i.fingerprint /\ i.conflicts = {}
<1> SUFFICES ASSUME RepairInv, [Next]_vars, NEW r \in repairs' \ repairs, NEW i \in r.form.plan
             PROVE  Fingerprint(i.operation) = i.fingerprint /\ i.conflicts = {}
  OBVIOUS
<1>1. PICK c \in Call : Land(c)
  BY Steps, ConversesIsQuiet, DraftingIsElsewhere DEF Quiet
<1>2. r = Entry(c)
  BY <1>1, LandWrites
<1>3. r.form = calls[c].form
  BY <1>2 DEF Entry
<1>4. QED
  BY <1>1, <1>3, LandStands DEF Reviewed

\* At the moment a repair lands, every source and its visit is as the
\* administrator saw it, and nothing the preview would refuse has come up.
THEOREM WhatWasReviewedIsApplied == Spec => ReviewedIsApplied
<1>1. RepairInv /\ [Next]_vars =>
        [\A r \in repairs' \ repairs : \A i \in r.form.plan :
           Fingerprint(i.operation) = i.fingerprint /\ i.conflicts = {}]_vars
  BY StepAppliesReviewed
<1>2. QED
  BY <1>1, RepairHolds, PTL DEF Spec, ReviewedIsApplied

HistoryStays ==
  \A v \in Visit : \A a \in rows[v] : a.status # "DRAFT" =>
     \/ a \in rows'[v]
     \/ a.status = "PUBLISHED" /\ repairs' # repairs
        /\ [a EXCEPT !.status = "SUPERSEDED"] \in rows'[v]

LEMMA StepKeepsHistory == RepairInv /\ [Next]_vars => HistoryStays
<1> SUFFICES ASSUME RepairInv, [Next]_vars, NEW v \in Visit, NEW a \in rows[v], a.status # "DRAFT"
             PROVE  \/ a \in rows'[v]
                    \/ a.status = "PUBLISHED" /\ repairs' # repairs
                       /\ [a EXCEPT !.status = "SUPERSEDED"] \in rows'[v]
  BY DEF HistoryStays
<1>1. ASSUME NEW c \in Call, Land(c)
      PROVE  \/ a \in rows'[v]
             \/ a.status = "PUBLISHED" /\ repairs' # repairs
                /\ [a EXCEPT !.status = "SUPERSEDED"] \in rows'[v]
  <2>1. After(c, v, a) \in rows'[v]
    <3>1. rows'[v] = {After(c, v, x) : x \in rows[v]} \cup {Successor(o) : o \in Heirs(c, v)}
      BY <1>1, LandWrites
    <3> HIDE DEF After, Successor, Heirs
    <3>2. QED
      BY <3>1
  <2>2. repairs' # repairs
    <3>1. Entry(c) \in repairs' /\ Entry(c).key = calls[c].key
      BY <1>1, LandWrites DEF Entry
    <3>2. Entry(c) \notin repairs
      BY <1>1, <3>1 DEF Land, Recorded
    <3>3. QED
      BY <3>1, <3>2
  <2>3. CASE Taken(c, v, a.id)
    <3>1. a.status = "PUBLISHED"
      BY <1>1, <2>3, LandVisit
    <3>2. QED
      BY <2>1, <2>2, <2>3, <3>1 DEF After
  <2>4. CASE ~ Taken(c, v, a.id)
    BY <2>1, <2>4 DEF After
  <2>5. QED
    BY <2>3, <2>4
<1>2. ASSUME NEW w \in Visit, Drafting(w) PROVE a \in rows'[v]
  <2>1. CASE w # v
    BY <1>2, <2>1, DraftingKeeps DEF OnlyVisit
  <2>2. CASE w = v
    <3>1. \A b \in rows[v] : b.status # "DRAFT"
      BY DEF RepairInv, RowsInv, Drafted
    <3>2. ~ PublishDraft(v) /\ ~ Unbook(v)
      BY <3>1 DEF PublishDraft, Unbook
    <3>3. \A crew, pinned : ~ Book(v, crew, pinned)
      BY DEF Book
    <3>4. SetLocked(v) => rows' = rows
      BY DEF SetLocked
    <3>5. QED
      BY <1>2, <2>2, <3>2, <3>3, <3>4 DEF Drafting
  <2>3. QED
    BY <2>1, <2>2
<1>3. ASSUME Quiet PROVE a \in rows'[v]
  BY <1>3 DEF Quiet
<1>4. QED
  BY <1>1, <1>2, <1>3, Steps, ConversesIsQuiet

\* Published history is immutable and keeps its line of descent: what was
\* published only ever gives way to a recorded repair, once.
THEOREM HistoryNeverChanges == Spec => HistoryIsImmutable
<1>1. RepairInv /\ [Next]_vars =>
        [/\ OneLineOfDescent'
         /\ \A v \in Visit : \A a \in rows[v] : a.status # "DRAFT" =>
              \/ a \in rows'[v]
              \/ a.status = "PUBLISHED" /\ repairs' # repairs
                 /\ [a EXCEPT !.status = "SUPERSEDED"] \in rows'[v]]_vars
  BY StepKeeps, StepKeepsHistory DEF RepairInv, HistoryStays
<1>2. QED
  BY <1>1, RepairHolds, PTL DEF Spec, HistoryIsImmutable

-----------------------------------------------------------------------------
(* The planner                                                               *)

LEMMA BoardIs ==
  ASSUME NEW o
  PROVE  o \in Board <=> \E v \in Visit : \E a \in Live(v) : o = AsItStands(v, a)
BY DEF Board

\* An assignment in force, as the planner writes it, is its row.
LEMMA SourceOnBoard ==
  ASSUME RepairInv, NEW o \in Board
  PROVE  /\ o.visit \in Visit /\ o \in Operation
         /\ \E a \in Live(o.visit) : a = SourceRow(o) /\ o = AsItStands(o.visit, a) /\ a.id = o.id /\ a.crew = o.crew
<1>0. PICK v \in Visit : \E a \in Live(v) : o = AsItStands(v, a)
  BY BoardIs
<1>1. PICK a \in Live(v) : o = AsItStands(v, a)
  BY <1>0
<1>2. o.visit = v /\ o.id = a.id /\ o.crew = a.crew /\ o = [visit |-> v, id |-> a.id, crew |-> a.crew]
  BY <1>1 DEF AsItStands
<1>3. a \in rows[v] /\ a.id \in Nat /\ a.crew \in SUBSET Employee
  BY DEF Live, RepairInv, TypeOK, Row
<1>4. o \in Operation
  BY <1>2, <1>3 DEF Operation
<1>5. Numbered(v)
  BY DEF RepairInv, RowsInv
<1>6. SourceRow(o) = a
  BY <1>2, <1>3, <1>4, <1>5, SourceIs
<1> QED
  BY <1>1, <1>2, <1>4, <1>6

\* What a plan makes of a source: a crew of the answer, or none.
Turned(o, answer) == [o EXCEPT !.crew = IF o \in DOMAIN answer THEN answer[o] ELSE {}]

LEMMA TurnedIs ==
  ASSUME NEW o \in Operation, NEW answer
  PROVE  /\ Turned(o, answer).visit = o.visit /\ Turned(o, answer).id = o.id
         /\ Turned(o, answer).crew = IF o \in DOMAIN answer THEN answer[o] ELSE {}
         /\ SourceRow(Turned(o, answer)) = SourceRow(o)
BY DEF Turned, Operation, SourceRow

\* The plans of a selection: everything that is selected is turned, by an answer
\* that staffs some of the targets.
LEMMA PlansAreAnswers ==
  ASSUME RepairInv, NEW sources \in Selections, Selectable(sources, TRUE), NEW plan \in Plans(sources)
  PROVE  \E answer \in Staffings(sources) :
           /\ plan = {Turned(o, answer) : o \in sources}
           /\ DOMAIN answer \subseteq Targets(sources)
           /\ \A o \in DOMAIN answer : answer[o] \in Crews /\ answer[o] # {}
           /\ \A o \in sources : Replaces(Turned(o, answer)) <=> o \in DOMAIN answer
<1>1. PICK answer \in Answers(sources) : plan = Operations(sources, answer)
  BY DEF Plans
<1>2. answer \in Staffings(sources)
  BY DEF Answers
<1>3. PICK served \in SUBSET Targets(sources) : answer \in [served -> Crews]
  BY <1>2 DEF Staffings
<1>4. \A o \in DOMAIN answer : answer[o] \in Crews /\ answer[o] # {}
  BY <1>3, RepairAssumption
<1>5. \A o \in sources : o \in Operation
  BY SourceOnBoard DEF Selections
<1>6. \A o \in sources : Replaces(Turned(o, answer)) <=> o \in DOMAIN answer
  BY <1>4, <1>5, TurnedIs DEF Replaces
<1>7. plan = {Turned(o, answer) : o \in sources}
  BY <1>1 DEF Operations, Turned
<1> QED
  BY <1>2, <1>3, <1>4, <1>6, <1>7

\* Nobody the answer gives to a source is away, on an assignment that stays, or
\* given to another source of the day.
LEMMA AnswersAreFree ==
  ASSUME NEW sources, NEW answer \in Staffings(sources), NEW o \in DOMAIN answer
  PROVE  /\ \A e \in answer[o] : ~ Away(e, DayOf[o.visit])
         /\ \A r \in Board \ sources : DayOf[r.visit] = DayOf[o.visit] => r.crew \cap answer[o] = {}
         /\ \A p \in DOMAIN answer : p # o /\ DayOf[p.visit] = DayOf[o.visit] => answer[p] \cap answer[o] = {}
<1>1. MayServe(answer[o], o, sources)
  BY DEF Staffings
<1>2. \A p \in DOMAIN answer : o # p /\ DayOf[o.visit] = DayOf[p.visit] => answer[o] \cap answer[p] = {}
  BY DEF Staffings
<1>3. Reservations(sources) = Board \ sources
  BY DEF Reservations, Board
<1> QED
  BY <1>1, <1>2, <1>3 DEF MayServe

LEMMA PlanIsRepairable ==
  ASSUME RepairInv, NEW sources \in Selections, Selectable(sources, TRUE), NEW plan \in Plans(sources)
  PROVE  Repairable(plan)
<1>1. PICK answer \in Staffings(sources) :
        /\ plan = {Turned(o, answer) : o \in sources}
        /\ DOMAIN answer \subseteq Targets(sources)
        /\ \A o \in sources : Replaces(Turned(o, answer)) <=> o \in DOMAIN answer
  BY PlansAreAnswers
<1>2. sources # {} /\ sources \subseteq Board /\ \A o \in sources : SourceRow(o).status = "PUBLISHED"
  BY DEF Selectable, Selections
<1>3. plan # {}
  BY <1>1, <1>2
<1>4. ASSUME NEW n \in plan
      PROVE  /\ \E a \in Published(n.visit) : a.id = n.id
             /\ TimeScope(n.visit) # "HISTORICAL"
             /\ \A a \in Published(n.visit) : \E p \in plan : p.visit = n.visit /\ p.id = a.id
             /\ \A p \in plan : p.visit = n.visit /\ Replaces(p) /\ Replaces(n) => p = n
  <2>1. PICK o \in sources : n = Turned(o, answer)
    BY <1>1
  <2>2. o \in Operation /\ n.visit = o.visit /\ n.id = o.id /\ o.visit \in Visit
    BY <1>2, <2>1, SourceOnBoard, TurnedIs
  <2>3. \E a \in Published(n.visit) : a.id = n.id
    <3>1. PICK a \in Live(o.visit) : a = SourceRow(o) /\ a.id = o.id
      BY <1>2, SourceOnBoard
    <3> QED
      BY <1>2, <2>2, <3>1 DEF Live, Published
  <2>4. TimeScope(n.visit) # "HISTORICAL"
    BY <2>2 DEF Selectable
  <2>5. ASSUME NEW a \in Published(n.visit) PROVE \E p \in plan : p.visit = n.visit /\ p.id = a.id
    <3>1. AsItStands(o.visit, a) \in sources
      BY <2>2 DEF Selectable
    <3>2. PICK s \in sources : s.visit = o.visit /\ s.id = a.id
      BY <3>1 DEF AsItStands
    <3>3. Turned(s, answer) \in plan /\ Turned(s, answer).visit = s.visit /\ Turned(s, answer).id = s.id
      BY <1>1, <1>2, SourceOnBoard, TurnedIs
    <3> QED
      BY <2>2, <3>2, <3>3
  <2>6. ASSUME NEW p \in plan, p.visit = n.visit, Replaces(p), Replaces(n) PROVE p = n
    <3>1. PICK s \in sources : p = Turned(s, answer)
      BY <1>1
    <3>2. s.visit = p.visit /\ o \in Targets(sources)
      BY <1>1, <1>2, <2>1, <2>6, <3>1, SourceOnBoard, TurnedIs
    <3>3. s = o
      BY <2>2, <2>6, <3>2 DEF Targets
    <3> QED
      BY <2>1, <3>1, <3>3
  <2> QED
    BY <2>3, <2>4, <2>5, <2>6
<1> QED
  BY <1>3, <1>4 DEF Repairable

LEMMA PlanIsFreeOfConflicts ==
  ASSUME RepairInv, NEW sources \in Selections, Selectable(sources, TRUE), NEW plan \in Plans(sources), NEW n \in plan
  PROVE  Conflicts(n, plan) = {}
<1>1. PICK answer \in Staffings(sources) :
        /\ plan = {Turned(o, answer) : o \in sources}
        /\ DOMAIN answer \subseteq Targets(sources)
        /\ \A o \in sources : Replaces(Turned(o, answer)) <=> o \in DOMAIN answer
  BY PlansAreAnswers
<1>2. sources \subseteq Board
  BY DEF Selections
<1>3. CASE ~ Replaces(n)
  BY <1>3 DEF Conflicts
<1>4. CASE Replaces(n)
  <2>1. PICK o \in sources : n = Turned(o, answer)
    BY <1>1
  <2>2. o \in DOMAIN answer /\ o \in Targets(sources) /\ o \in Operation
    BY <1>1, <1>2, <1>4, <2>1, SourceOnBoard
  <2>3. n.visit = o.visit /\ n.id = o.id /\ n.crew = answer[o] /\ SourceRow(n) = SourceRow(o)
    BY <2>1, <2>2, TurnedIs
  <2>4. ~ Booked(n, plan)
    <3> SUFFICES ASSUME NEW w \in Visit, NEW a \in Live(w), DayOf[w] = DayOf[n.visit], a.crew \cap n.crew # {},
                        \A p \in plan : ~ (p.visit = w /\ p.id = a.id)
                 PROVE  FALSE
      BY DEF Booked
    <3> DEFINE r == AsItStands(w, a)
    <3>1. r.visit = w /\ r.id = a.id /\ r.crew = a.crew /\ r \in Board
      BY BoardIs DEF AsItStands
    <3>2. r \notin sources
      <4> SUFFICES ASSUME r \in sources PROVE FALSE
        OBVIOUS
      <4>1. Turned(r, answer) \in plan /\ Turned(r, answer).visit = w /\ Turned(r, answer).id = a.id
        BY <1>1, <1>2, <3>1, SourceOnBoard, TurnedIs
      <4> QED
        BY <4>1
    <3> QED
      BY <2>2, <2>3, <3>1, <3>2, AnswersAreFree
  <2>5. ~ \E e \in n.crew : Away(e, DayOf[n.visit])
    BY <2>2, <2>3, AnswersAreFree
  <2>6. ~ SourceRow(n).pinned
    BY <2>2, <2>3 DEF Targets
  <2>7. ~ \E p \in plan \ {n} : DayOf[p.visit] = DayOf[n.visit] /\ p.crew \cap n.crew # {}
    <3> SUFFICES ASSUME NEW p \in plan \ {n}, DayOf[p.visit] = DayOf[n.visit], p.crew \cap n.crew # {} PROVE FALSE
      OBVIOUS
    <3>1. PICK s \in sources : p = Turned(s, answer)
      BY <1>1
    <3>2. s \in Operation /\ p.visit = s.visit /\ p.crew = IF s \in DOMAIN answer THEN answer[s] ELSE {}
      BY <1>2, <3>1, SourceOnBoard, TurnedIs
    <3>3. s \in DOMAIN answer /\ p.crew = answer[s] /\ s # o
      BY <2>1, <3>1, <3>2
    <3> QED
      BY <2>2, <2>3, <3>2, <3>3, AnswersAreFree
  <2>8. RuleConflicts(n, plan) = {}
    BY <2>4, <2>5 DEF RuleConflicts
  <2> QED
    BY <2>6, <2>7, <2>8 DEF Conflicts
<1> QED
  BY <1>3, <1>4

\* Who is withdrawn is withdrawn for a reason.
LEMMA WithdrawalsHaveReasons ==
  ASSUME RepairInv, NEW sources \in Selections, Selectable(sources, TRUE), NEW plan \in Plans(sources), NEW n \in plan
  PROVE  WithdrawalCodes(AsItStands(n.visit, SourceRow(n)), sources) # {}
<1>1. PICK answer \in Staffings(sources) :
        /\ plan = {Turned(o, answer) : o \in sources}
        /\ DOMAIN answer \subseteq Targets(sources)
  BY PlansAreAnswers
<1>2. PICK o \in sources : n = Turned(o, answer)
  BY <1>1
<1>3. o \in Board /\ o \in Operation
  BY SourceOnBoard DEF Selections
<1>4. AsItStands(n.visit, SourceRow(n)) = o
  BY <1>2, <1>3, SourceOnBoard, TurnedIs
<1>5. CASE o \in Targets(sources)
  BY <1>4, <1>5 DEF WithdrawalCodes
<1>6. CASE o \notin Targets(sources)
  <2>1. RuleConflicts(o, {o}) # {}
    BY <1>2 DEF Selectable
  <2>2. RuleConflicts(o, {o}) \subseteq WithdrawalCodes(o, sources)
    BY <1>6 DEF WithdrawalCodes
  <2> QED
    BY <1>4, <2>1, <2>2
<1> QED
  BY <1>4, <1>5, <1>6

\* On the board that results nothing is broken but what was, and of that nothing
\* that was selected.
LEMMA PlanHealsBoard ==
  ASSUME RepairInv, NEW sources \in Selections, Selectable(sources, TRUE), NEW plan \in Plans(sources)
  PROVE  Broken((Board \ sources) \cup {o \in plan : Replaces(o)}) \subseteq Broken(Board) \ sources
<1>1. PICK answer \in Staffings(sources) :
        /\ plan = {Turned(o, answer) : o \in sources}
        /\ \A o \in sources : Replaces(Turned(o, answer)) <=> o \in DOMAIN answer
  BY PlansAreAnswers
<1> DEFINE New == (Board \ sources) \cup {o \in plan : Replaces(o)}
<1>2. ASSUME NEW n \in plan, Replaces(n)
      PROVE  \E o \in sources : /\ o \in DOMAIN answer /\ n = Turned(o, answer)
                                /\ n.visit = o.visit /\ n.crew = answer[o]
  <2>1. PICK o \in sources : n = Turned(o, answer)
    BY <1>1
  <2>2. o \in Operation /\ o \in DOMAIN answer
    BY <1>1, <1>2, <2>1, SourceOnBoard DEF Selections
  <2> QED
    BY <2>1, <2>2, TurnedIs
<1>3. ASSUME NEW b \in plan, Replaces(b) PROVE b \notin Broken(New)
  <2>1. PICK o \in sources : o \in DOMAIN answer /\ b = Turned(o, answer) /\ b.visit = o.visit /\ b.crew = answer[o]
    BY <1>2, <1>3
  <2>2. ~ \E e \in b.crew : Away(e, DayOf[b.visit])
    BY <2>1, AnswersAreFree
  <2>3. ASSUME NEW p \in New \ {b}, DayOf[p.visit] = DayOf[b.visit] PROVE p.crew \cap b.crew = {}
    <3>1. CASE p \in Board \ sources
      BY <2>1, <2>3, <3>1, AnswersAreFree
    <3>2. CASE p \in plan /\ Replaces(p)
      <4>1. PICK s \in sources : s \in DOMAIN answer /\ p = Turned(s, answer) /\ p.visit = s.visit /\ p.crew = answer[s]
        BY <1>2, <3>2
      <4>2. s # o
        BY <2>1, <2>3, <4>1
      <4> QED
        BY <2>1, <2>3, <4>1, <4>2, AnswersAreFree
    <3> QED
      BY <2>3, <3>1, <3>2
  <2> QED
    BY <2>2, <2>3 DEF Broken
<1>4. ASSUME NEW b \in Broken(New), b \in Board \ sources PROVE b \in Broken(Board)
  <2>1. CASE \E e \in b.crew : Away(e, DayOf[b.visit])
    BY <1>4, <2>1 DEF Broken
  <2>2. ASSUME NEW p \in New \ {b}, DayOf[p.visit] = DayOf[b.visit], p.crew \cap b.crew # {}
        PROVE  p \in Board
    <3> SUFFICES ASSUME p \in plan, Replaces(p) PROVE FALSE
      BY <2>2
    <3>1. PICK s \in sources : s \in DOMAIN answer /\ p.visit = s.visit /\ p.crew = answer[s]
      BY <1>2
    <3> QED
      BY <1>4, <2>2, <3>1, AnswersAreFree
  <2>3. \/ \E e \in b.crew : Away(e, DayOf[b.visit])
        \/ \E p \in New \ {b} : DayOf[p.visit] = DayOf[b.visit] /\ p.crew \cap b.crew # {}
    BY <1>4 DEF Broken
  <2> QED
    BY <1>4, <2>1, <2>2, <2>3 DEF Broken
<1>5. Broken(New) \subseteq New
  BY DEF Broken
<1> QED
  BY <1>3, <1>4, <1>5

\* A plan heals: whatever is selected, on every board that the repairs, the
\* writers of drafts and the absences can make, and whatever the solver answers,
\* the plan passes its own review and leaves nothing broken that it was to mend.
THEOREM PlansAlwaysHeal == Spec => []PlansHeal
<1>1. ASSUME RepairInv PROVE PlansHeal
  <2> SUFFICES ASSUME NEW sources \in Selections, Selectable(sources, TRUE), NEW plan \in Plans(sources)
               PROVE  /\ Repairable(plan)
                      /\ \A item \in Plan(plan) : item.conflicts = {}
                      /\ \A o \in plan : Replaces(o) \/ WithdrawalCodes(AsItStands(o.visit, SourceRow(o)), sources) # {}
                      /\ Broken((Board \ sources) \cup {o \in plan : Replaces(o)}) \subseteq Broken(Board) \ sources
    BY DEF PlansHeal
  <2>1. Repairable(plan)
    BY <1>1, PlanIsRepairable
  <2>2. \A item \in Plan(plan) : item.conflicts = {}
    <3>1. \A n \in plan : Item(n, plan).conflicts = {}
      BY <1>1, PlanIsFreeOfConflicts DEF Item
    <3> QED
      BY <3>1 DEF Plan
  <2>3. \A o \in plan : WithdrawalCodes(AsItStands(o.visit, SourceRow(o)), sources) # {}
    BY <1>1, WithdrawalsHaveReasons
  <2>4. Broken((Board \ sources) \cup {o \in plan : Replaces(o)}) \subseteq Broken(Board) \ sources
    BY <1>1, PlanHealsBoard
  <2> QED
    BY <2>1, <2>2, <2>3, <2>4
<1> QED
  BY <1>1, RepairHolds, PTL

-----------------------------------------------------------------------------
(* Who replaced whom.  The assignments that were published before the guards  *)
(* existed replaced nothing and are all still there; the first that a repair  *)
(* wrote replaced one of them, every later one its predecessor; and either    *)
(* no repair has touched the visit, or only its newest assignment may be in   *)
(* force.                                                                     *)

Before(v) == Len(Legacy[v])
Origin(v, a) ==
  /\ a.crew # {}
  /\ a.id <= Before(v) => a.supersedes = 0
  /\ a.id = Before(v) + 1 => IF Before(v) = 0 THEN a.supersedes = 0 ELSE a.supersedes \in 1 .. Before(v)
  /\ a.id > Before(v) + 1 => a.supersedes = a.id - 1
Kept(v) == \A i \in 1 .. Before(v) : \E a \in rows[v] : a.id = i
Tried(v) == visits[v].status = "PENDING" => rows[v] = {}
Untouched(v) == \A a \in rows[v] : a.id <= Before(v) /\ a.status = "PUBLISHED"
NewestRules(v) == \A a \in Live(v) : a.id > Before(v) /\ \A b \in rows[v] : b.id <= a.id
StoryOf(v) ==
  /\ Kept(v) /\ (\A a \in rows[v] : Origin(v, a)) /\ Tried(v)
  /\ Untouched(v) \/ NewestRules(v)
StoryInv == \A v \in Visit : StoryOf(v)

LEMMA BeforeIs ==
  ASSUME NEW v \in Visit
  PROVE  Before(v) \in Nat /\ DOMAIN Legacy[v] = 1 .. Before(v) /\ \A i \in 1 .. Before(v) : Legacy[v][i] \in Crews
<1>1. Legacy[v] \in Seq(Crews)
  BY RepairAssumption
<1>2. QED
  BY <1>1 DEF Before

LEMMA StoryBegins == Init => StoryInv
<1> SUFFICES ASSUME Init, NEW v \in Visit PROVE StoryOf(v)
  BY DEF StoryInv
<1>1. /\ rows[v] = {LegacyRow(v, i) : i \in 1 .. Before(v)} /\ Before(v) \in Nat
      /\ \A i \in 1 .. Before(v) : Legacy[v][i] # {}
  BY BeforeIs, RepairAssumption DEF Init
<1>2. ASSUME NEW i \in 1 .. Before(v)
      PROVE  /\ LegacyRow(v, i).id = i /\ LegacyRow(v, i).crew # {} /\ LegacyRow(v, i).status = "PUBLISHED"
             /\ LegacyRow(v, i).supersedes = 0
  BY <1>1 DEF LegacyRow
<1> HIDE DEF LegacyRow
<1>3. Kept(v)
  BY <1>1, <1>2 DEF Kept
<1>4. \A a \in rows[v] : Origin(v, a)
  <2>1. ASSUME NEW i \in 1 .. Before(v) PROVE Origin(v, LegacyRow(v, i))
    BY <1>1, <1>2 DEF Origin
  <2>2. QED
    BY <1>1, <2>1
<1>5. Untouched(v)
  BY <1>1, <1>2 DEF Untouched
<1>6. Tried(v)
  <2>1. visits[v].status = IF DOMAIN Legacy[v] = {} THEN "PENDING" ELSE "SCHEDULED"
    BY DEF Init
  <2>2. QED
    BY <1>1, <2>1, BeforeIs DEF Tried
<1>7. QED
  BY <1>3, <1>4, <1>5, <1>6 DEF StoryOf

(* A commit of a repair writes the next version of what was in force. *)
LEMMA LandTells ==
  ASSUME RepairInv, StoryInv, NEW c \in Call, Land(c), NEW v \in Visit
  PROVE  StoryOf(v)'
<1>0. /\ StoryOf(v) /\ Before(v) \in Nat /\ Before(v)' = Before(v) /\ rows[v] \subseteq Row
      /\ \A a \in rows[v] : a.id \in Nat
  BY BeforeIs DEF StoryInv, Before, RepairInv, TypeOK, Row
<1>1. CASE ~ Touched(c, v)
  <2>1. rows'[v] = rows[v] /\ Live(v)' = Live(v) /\ visits'[v] = visits[v]
    BY <1>1, LandVisit, LandWrites
  <2>2. \A a : Origin(v, a)' <=> Origin(v, a)
    BY <1>0 DEF Origin
  <2>3. Kept(v)' /\ (\A a \in rows'[v] : Origin(v, a)')
    BY <1>0, <2>1, <2>2 DEF StoryOf, Kept
  <2>4. Tried(v)'
    BY <1>0, <2>1 DEF StoryOf, Tried
  <2>5. Untouched(v)' \/ NewestRules(v)'
    BY <1>0, <2>1 DEF StoryOf, Untouched, NewestRules
  <2>6. QED
    BY <2>3, <2>4, <2>5 DEF StoryOf
<1>2. CASE Touched(c, v)
  <2>1. rows'[v] = {After(c, v, a) : a \in rows[v]} \cup {Successor(o) : o \in Heirs(c, v)}
    BY LandWrites
  <2>2. PICK n \in Nat : Ids(v) = 1 .. n /\ NextId(v) = n + 1
    BY LandFresh
  <2>3. \A a \in rows[v] : a.id \in 1 .. n
    BY <2>2 DEF Ids
  <2>4. \A a \in rows[v] : /\ After(c, v, a).id = a.id /\ After(c, v, a).crew = a.crew
                           /\ After(c, v, a).supersedes = a.supersedes
    BY AfterKeeps
  <2>5. ASSUME NEW o \in Heirs(c, v)
        PROVE  /\ o.visit = v /\ o.crew # {} /\ Successor(o).id = n + 1 /\ Successor(o).crew = o.crew
               /\ Successor(o).supersedes = o.id
               /\ \E a \in Live(v) : a.id = o.id /\ a.status = "PUBLISHED"
    <3>1. o \in Ops(c) /\ o.visit = v /\ o.crew # {}
      BY DEF Heirs, Replaces
    <3>2. \E a \in Published(o.visit) : a.id = o.id
      BY <3>1, LandStands DEF Sourced
    <3>3. QED
      BY <2>2, <3>1, <3>2, SuccessorIs DEF Published, Live
  <2>6. Before(v) <= n
    <3>1. \A i \in 1 .. Before(v) : i \in 1 .. n
      BY <1>0, <2>2 DEF StoryOf, Kept, Ids
    <3>2. QED
      BY <1>0, <3>1
  <2>7. \A o \in Heirs(c, v) : Origin(v, Successor(o))
    <3> SUFFICES ASSUME NEW o \in Heirs(c, v) PROVE Origin(v, Successor(o))
      OBVIOUS
    <3>1. PICK a \in Live(v) : a.id = o.id /\ a.status = "PUBLISHED"
      BY <2>5
    <3>2. a \in rows[v] /\ a.id \in 1 .. n
      BY <2>3 DEF Live
    <3>3. CASE Untouched(v)
      <4>1. n \in 1 .. n /\ \E b \in rows[v] : b.id = n
        BY <2>2, <3>2 DEF Ids
      <4>2. n <= Before(v) /\ a.id <= Before(v)
        BY <3>2, <3>3, <4>1 DEF Untouched
      <4>3. n = Before(v) /\ n # 0
        BY <1>0, <2>6, <3>2, <4>2
      <4>4. QED
        BY <1>0, <2>5, <3>1, <3>2, <4>3 DEF Origin
    <3>4. CASE NewestRules(v)
      <4>1. a.id > Before(v) /\ \A b \in rows[v] : b.id <= a.id
        BY <3>4 DEF NewestRules
      <4>2. n \in 1 .. n /\ \E b \in rows[v] : b.id = n
        BY <2>2, <3>2 DEF Ids
      <4>3. n = a.id
        BY <3>2, <4>1, <4>2
      <4>4. QED
        BY <1>0, <2>5, <3>1, <4>1, <4>3 DEF Origin
    <3>5. QED
      BY <1>0, <3>3, <3>4 DEF StoryOf
  <2>8. \A a \in rows'[v] : Origin(v, a)'
    <3>1. ASSUME NEW a \in rows[v] PROVE Origin(v, After(c, v, a))
      BY <1>0, <2>4 DEF StoryOf, Origin
    <3> HIDE DEF After, Successor, Heirs
    <3>2. \A a \in rows'[v] : Origin(v, a)
      BY <2>1, <2>7, <3>1
    <3>3. QED
      BY <1>0, <3>2 DEF Origin
  <2> HIDE DEF After, Successor, Heirs
  <2>9. Kept(v)'
    BY <1>0, <2>1, <2>4 DEF StoryOf, Kept
  <2>10. Tried(v)'
    BY <1>2, LandWrites DEF Tried
  <2>11. NewestRules(v)'
    <3>1. Live(v)' = {Successor(o) : o \in Heirs(c, v)}
      BY <1>2, LandVisit
    <3>2. \A b \in rows'[v] : b.id <= n + 1
      BY <2>1, <2>3, <2>4, <2>5
    <3>3. \A a \in Live(v)' : a.id = n + 1
      BY <2>5, <3>1
    <3>4. QED
      BY <1>0, <2>6, <3>2, <3>3 DEF NewestRules
  <2>12. QED
    BY <2>8, <2>9, <2>10, <2>11 DEF StoryOf
<1>3. QED
  BY <1>1, <1>2

(* A draft is the first version of a visit that was never published. *)
LEMMA DraftingTells ==
  ASSUME RepairInv, StoryInv, NEW v \in Visit, Drafting(v), NEW w \in Visit
  PROVE  StoryOf(w)'
<1>0. /\ StoryOf(w) /\ Before(w) \in Nat /\ Before(w)' = Before(w) /\ rows \in [Visit -> SUBSET Row]
      /\ visits \in [Visit -> VisitRecord]
  BY BeforeIs DEF StoryInv, Before, RepairInv, TypeOK
<1>1. \A a : Origin(w, a)' <=> Origin(w, a)
  BY <1>0 DEF Origin
<1>2. ASSUME rows'[w] = rows[w], visits'[w].status = visits[w].status PROVE StoryOf(w)'
  <2>1. Live(w)' = Live(w)
    BY <1>2 DEF Live
  <2>2. Kept(w)' /\ (\A a \in rows'[w] : Origin(w, a)')
    BY <1>0, <1>1, <1>2 DEF StoryOf, Kept
  <2>3. Tried(w)'
    BY <1>0, <1>2 DEF StoryOf, Tried
  <2>4. Untouched(w)' \/ NewestRules(w)'
    BY <1>0, <1>2, <2>1 DEF StoryOf, Untouched, NewestRules
  <2>5. QED
    BY <2>2, <2>3, <2>4 DEF StoryOf
<1>3. CASE w # v
  <2>1. rows'[w] = rows[w] /\ visits'[w] = visits[w]
    BY <1>3, DraftingKeeps DEF OnlyVisit
  <2>2. QED
    BY <1>2, <2>1
<1>4. ASSUME w = v, NEW a \in rows[v], a.status = "DRAFT"
      PROVE  Before(v) = 0 /\ rows[v] = {a} /\ a.id = 1 /\ Origin(v, a) /\ a \in Row
  <2>1. rows[v] = {a} /\ Numbered(v) /\ a \in Row
    BY <1>0, <1>4 DEF RepairInv, RowsInv, Drafted
  <2>2. PICK n \in Nat : Ids(v) = 1 .. n
    BY <2>1 DEF Numbered
  <2>3. Ids(v) = {a.id}
    BY <2>1 DEF Ids
  <2>4. 1 .. n = {a.id}
    BY <2>2, <2>3
  <2>5. n # 0
    BY <2>4
  <2>6. a.id = 1
    BY <2>4, <2>5
  <2>7. NewestRules(v)
    BY <1>0, <1>4, <2>1 DEF StoryOf, Untouched
  <2>8. a.id > Before(v)
    BY <2>1, <2>7, <1>4 DEF NewestRules, Live
  <2>9. QED
    BY <1>0, <1>4, <2>1, <2>6, <2>8 DEF StoryOf
<1>5. ASSUME w = v, NEW crew \in Crews, NEW pinned \in BOOLEAN, Book(v, crew, pinned) PROVE StoryOf(w)'
  <2> DEFINE draft == [id |-> 1, crew |-> crew, status |-> "DRAFT", pinned |-> pinned, supersedes |-> 0]
  <2>1. rows[v] = {} /\ rows' = [rows EXCEPT ![v] = {draft}]
    BY <1>5 DEF Book
  <2>2. rows'[v] = {draft} /\ draft.id = 1 /\ draft.crew # {} /\ draft.supersedes = 0 /\ draft.status = "DRAFT"
    BY <1>0, <2>1, RepairAssumption
  <2> HIDE DEF draft
  <2>3. Before(v) = 0
    <3>1. \A i \in 1 .. Before(v) : FALSE
      BY <1>0, <1>5, <2>1 DEF StoryOf, Kept
    <3>2. QED
      BY <1>0, <1>5, <3>1
  <2>4. visits'[v].status = "SCHEDULED"
    BY <1>0, <1>5, VisitMoves DEF Book, RepairInv, VisitStatus
  <2>5. Origin(v, draft)
    BY <2>2, <2>3 DEF Origin
  <2>6. Kept(v)' /\ Tried(v)' /\ NewestRules(v)'
    BY <1>0, <1>5, <2>2, <2>3, <2>4 DEF Kept, Tried, NewestRules, Live
  <2>7. QED
    BY <1>1, <1>5, <2>2, <2>5, <2>6 DEF StoryOf
<1>6. ASSUME w = v, Unbook(v) PROVE StoryOf(w)'
  <2>1. PICK a \in rows[v] : a.status = "DRAFT"
    BY <1>6 DEF Unbook
  <2>2. Before(v) = 0 /\ rows'[v] = {}
    BY <1>0, <1>4, <1>6, <2>1 DEF Unbook
  <2>3. QED
    BY <1>0, <1>6, <2>2 DEF StoryOf, Kept, Tried, NewestRules, Live
<1>7. ASSUME w = v, PublishDraft(v) PROVE StoryOf(w)'
  <2>1. PICK a \in rows[v] : a.status = "DRAFT" /\ rows' = [rows EXCEPT ![v] = (@ \ {a}) \cup {[a EXCEPT !.status = "PUBLISHED"]}]
    BY <1>7 DEF PublishDraft
  <2> DEFINE now == [a EXCEPT !.status = "PUBLISHED"]
  <2>2. Before(v) = 0 /\ rows[v] = {a} /\ a.id = 1 /\ Origin(v, a) /\ a \in Row
    BY <1>4, <1>7, <2>1
  <2>3. rows'[v] = {now}
    BY <1>0, <2>1, <2>2
  <2>4. now.id = 1 /\ now.crew = a.crew /\ now.supersedes = a.supersedes
    BY <2>2 DEF Row
  <2> HIDE DEF now
  <2>5. Origin(v, now)
    BY <2>2, <2>4 DEF Origin
  <2>6. visits' = visits
    BY <1>7 DEF PublishDraft
  <2>7. Tried(v)'
    BY <1>0, <1>7, <2>1, <2>6 DEF StoryOf, Tried
  <2>8. Kept(v)' /\ NewestRules(v)'
    BY <1>0, <1>7, <2>2, <2>3, <2>4 DEF Kept, NewestRules, Live
  <2>9. QED
    BY <1>1, <1>7, <2>3, <2>5, <2>7, <2>8 DEF StoryOf
<1>8. ASSUME w = v, SetLocked(v) PROVE StoryOf(w)'
  <2>1. rows' = rows /\ visits' = [visits EXCEPT ![v].rev = @ + 1] /\ visits[v] \in VisitRecord
    BY <1>0, <1>8 DEF SetLocked
  <2>2. visits'[v].status = visits[v].status
    BY <1>0, <2>1 DEF VisitRecord
  <2>3. QED
    BY <1>2, <1>8, <2>1, <2>2
<1>9. QED
  BY <1>3, <1>5, <1>6, <1>7, <1>8 DEF Drafting

LEMMA QuietTells ==
  ASSUME StoryInv, Quiet
  PROVE  StoryInv'
  BY DEF StoryInv, StoryOf, Quiet, Kept, Origin, Before, Tried, Untouched, NewestRules, Live

(* StoryHolds: whatever calls, drafts and publications do, a visit's           *)
(* assignments form a line: each that a repair wrote names the one it         *)
(* replaced (replace), and after a repair none but the newest is in force.    *)
THEOREM StoryHolds == Spec => []StoryInv
<1>1. Init => StoryInv
  BY StoryBegins
<1>2. RepairInv /\ StoryInv /\ [Next]_vars => StoryInv'
  <2> SUFFICES ASSUME RepairInv, StoryInv, [Next]_vars PROVE StoryInv'
    OBVIOUS
  <2>1. ASSUME NEW c \in Call, Land(c) PROVE StoryInv'
    BY <2>1, LandTells DEF StoryInv
  <2>2. ASSUME NEW c \in Call, Converses(c) PROVE StoryInv'
    BY <2>2, ConversesIsQuiet, QuietTells
  <2>3. ASSUME NEW v \in Visit, Drafting(v) PROVE StoryInv'
    BY <2>3, DraftingTells DEF StoryInv
  <2>4. QED
    BY <2>1, <2>2, <2>3, QuietTells, Steps
<1>3. QED
  BY <1>1, <1>2, RepairHolds, PTL DEF Spec

-----------------------------------------------------------------------------
(* Versions numbered without a gap, in the order of their numbers.           *)

Dated(S, m) ==
  /\ m \in Nat /\ \A a \in S : a.id \in 1 .. m
  /\ \A i \in 1 .. m : \E a \in S : a.id = i
  /\ \A a, b \in S : a.id = b.id => a = b

LEMMA DatedCount ==
  ASSUME NEW S, NEW m, Dated(S, m)
  PROVE  IsFiniteSet(S) /\ Cardinality(S) = m
<1> DEFINE f == [a \in S |-> a.id]
<1>1. f \in Injection(S, 1 .. m) /\ f \in Surjection(S, 1 .. m)
  BY DEF Dated, Injection, Surjection, IsInjective
<1> HIDE DEF f
<1>2. m \in Nat /\ IsFiniteSet(1 .. m) /\ Cardinality(1 .. m) = m
  BY FS_Interval DEF Dated
<1>3. QED
  BY <1>1, <1>2, FS_Injection

LEMMA DatesAre ==
  ASSUME NEW S, NEW m, Dated(S, m)
  PROVE  /\ m \in Nat /\ ByDate(S) \in [1 .. m -> S]
         /\ \A i \in 1 .. m : ByDate(S)[i] \in S /\ ByDate(S)[i].id = i
         /\ \A a \in S : a.id \in 1 .. m /\ ByDate(S)[a.id] = a
<1>1. m \in Nat /\ Cardinality(S) = m /\ \A a \in S : a.id \in 1 .. m
  BY DatedCount DEF Dated
<1>2. ASSUME NEW a \in S PROVE Cardinality({b \in S : b.id < a.id}) = a.id - 1
  <2>1. Dated({b \in S : b.id < a.id}, a.id - 1)
    BY DEF Dated
  <2>2. QED
    BY <2>1, DatedCount
<1>3. ASSUME NEW i \in 1 .. m PROVE ByDate(S)[i] \in S /\ ByDate(S)[i].id = i
  <2>1. ByDate(S)[i] = CHOOSE a \in S : Cardinality({b \in S : b.id < a.id}) = i - 1
    BY <1>1 DEF ByDate
  <2>2. \E a \in S : Cardinality({b \in S : b.id < a.id}) = i - 1
    BY <1>2 DEF Dated
  <2>3. ByDate(S)[i] \in S /\ Cardinality({b \in S : b.id < ByDate(S)[i].id}) = i - 1
    BY <2>1, <2>2
  <2>4. ByDate(S)[i].id \in 1 .. m /\ ByDate(S)[i].id - 1 = i - 1
    BY <1>1, <1>2, <2>3
  <2>5. QED
    BY <1>1, <2>3, <2>4
<1>4. ByDate(S) \in [1 .. m -> S]
  <2> DEFINE first(i) == CHOOSE a \in S : Cardinality({b \in S : b.id < a.id}) = i - 1
  <2>1. ByDate(S) = [i \in 1 .. m |-> first(i)]
    BY <1>1 DEF ByDate
  <2> HIDE DEF first
  <2>2. \A i \in 1 .. m : first(i) \in S
    BY <1>3, <2>1
  <2>3. QED
    BY <2>1, <2>2
<1>5. QED
  BY <1>1, <1>3, <1>4 DEF Dated

-----------------------------------------------------------------------------
(* A chain is told one version at a time.                                    *)

Telling(S) == [told : Seq(S), next : SUBSET S]
Tell(S, acc) ==
  IF acc.next \subseteq Range(acc.told) THEN acc
  ELSE LET b == CHOOSE b \in acc.next : TRUE
       IN [told |-> Append(acc.told, b), next |-> Heir(S, b)]

LEMMA TellType ==
  ASSUME NEW S, NEW acc \in Telling(S)
  PROVE  Tell(S, acc) \in Telling(S)
<1>1. CASE acc.next \subseteq Range(acc.told)
  BY <1>1 DEF Tell
<1>2. CASE ~ (acc.next \subseteq Range(acc.told))
  <2> DEFINE b == CHOOSE b \in acc.next : TRUE
  <2>1. b \in acc.next /\ acc.told \in Seq(S) /\ acc.next \subseteq S
    BY <1>2 DEF Telling
  <2>2. Tell(S, acc) = [told |-> Append(acc.told, b), next |-> Heir(S, b)]
    BY <1>2 DEF Tell
  <2> HIDE DEF b
  <2>3. Heir(S, b) \subseteq S
    BY DEF Heir
  <2>4. QED
    BY <2>1, <2>2, <2>3 DEF Telling
<1>3. QED
  BY <1>1, <1>2

LEMMA ChainRuns ==
  ASSUME NEW S, NEW m, Dated(S, m), NEW told \in Seq(S), NEW a \in S
  PROVE  \E f \in [0 .. m -> Telling(S)] :
           /\ f[0] = [told |-> told, next |-> {a}]
           /\ \A k \in 1 .. m : f[k] = Tell(S, f[k - 1])
           /\ AppendChain(S, told, a) = f[m].told
<1> DEFINE X == Telling(S)
           base == [told |-> told, next |-> {a}]
           Whole(i) == [s \in SUBSET DOMAIN ByDate(S) |-> IF s = {} THEN base
                          ELSE LET x == Max(s) IN Tell(S, i[s \ {x}])]
           fold == CHOOSE i : i = Whole(i)
           step == [x \in X \X (1 .. m) |-> Tell(S, x[1])]
<1>0. DOMAIN ByDate(S) = 1 .. m /\ m \in Nat
  BY DatesAre
<1>1. AppendChain(S, told, a) = fold[DOMAIN ByDate(S)].told
  BY DEF AppendChain, FoldLeft, MapThenFoldSet, Tell
<1>2. base \in X
  BY DEF Telling
<1>3. \A acc \in X : Tell(S, acc) \in X
  BY TellType
<1> HIDE DEF X, base
<1>4. step \in [X \X (1 .. m) -> X]
  BY <1>3
<1>5. PICK i \in [SUBSET (1 .. m) -> X] : FoldsBy(i, m, base, step)
  <2> HIDE DEF step
  <2> QED
    BY <1>0, <1>2, <1>4, FoldExists
<1>6. i = Whole(i)
  <2>1. ASSUME NEW s \in SUBSET (1 .. m), s # {}
        PROVE  i[s] = Tell(S, i[s \ {Max(s)}])
    <3>1. Max(s) \in 1 .. m
      BY <1>0, <2>1, MaxIsIn
    <3>2. i[s] = step[<<i[s \ {Max(s)}], Max(s)>>] /\ i[s \ {Max(s)}] \in X
      BY <1>5, <2>1 DEF FoldsBy
    <3>3. QED
      BY <3>1, <3>2
  <2>2. QED
    BY <1>0, <1>5, <2>1 DEF FoldsBy
<1>7. fold = Whole(fold)
  <2> HIDE DEF Whole
  <2> QED
    BY <1>6
<1> HIDE DEF fold
<1>8. fold[{}] = base
  BY <1>7
<1>9. ASSUME NEW s \in SUBSET (1 .. m), s # {}, fold[s \ {Max(s)}] \in X
      PROVE  fold[s] = step[<<fold[s \ {Max(s)}], Max(s)>>]
  <2>1. fold[s] = Tell(S, fold[s \ {Max(s)}])
    BY <1>0, <1>7, <1>9
  <2>2. Max(s) \in 1 .. m
    BY <1>0, <1>9, MaxIsIn
  <2>3. QED
    BY <1>9, <2>1, <2>2
<1>10. PICK f \in [0 .. m -> X] :
         f[0] = base /\ f[m] = fold[1 .. m] /\ \A k \in 1 .. m : f[k] = step[<<f[k - 1], k>>]
  <2> HIDE DEF step
  <2>1. FoldsIn(fold, m, X, base, step)
    BY <1>8, <1>9 DEF FoldsIn
  <2>2. HasRun(fold, m, X, base, step)
    BY <1>0, <1>2, <1>4, <2>1, RunOfFold
  <2>3. QED
    BY <2>2 DEF HasRun
<1>11. ASSUME NEW k \in 1 .. m PROVE f[k] = Tell(S, f[k - 1])
  <2>1. f[k - 1] \in X /\ f[k] = step[<<f[k - 1], k>>]
    <3>1. k - 1 \in 0 .. m
      BY <1>0
    <3>2. QED
      BY <1>10, <3>1
  <2>2. QED
    BY <2>1
<1>12. QED
  BY <1>0, <1>1, <1>10, <1>11 DEF base, X

\* Who is told already is not told again.
LEMMA ToldAlready ==
  ASSUME NEW S, NEW m, Dated(S, m), NEW told \in Seq(S), NEW a \in Range(told), a \in S
  PROVE  AppendChain(S, told, a) = told
<1>1. PICK f \in [0 .. m -> Telling(S)] :
        /\ f[0] = [told |-> told, next |-> {a}]
        /\ \A k \in 1 .. m : f[k] = Tell(S, f[k - 1])
        /\ AppendChain(S, told, a) = f[m].told
  BY ChainRuns
<1> DEFINE g == [k \in 0 .. m |-> [told |-> told, next |-> {a}]]
<1>2. m \in Nat
  BY DEF Dated
<1>3. ASSUME NEW k \in 1 .. m, f[k - 1] = g[k - 1] PROVE f[k] = g[k]
  <2>1. k \in 0 .. m /\ k - 1 \in 0 .. m
    BY <1>2
  <2>2. g[k] = [told |-> told, next |-> {a}] /\ g[k - 1] = [told |-> told, next |-> {a}]
    BY <2>1
  <2> HIDE DEF g
  <2>3. Tell(S, g[k - 1]) = g[k - 1]
    BY <2>2 DEF Tell
  <2>4. f[k] = Tell(S, g[k - 1])
    BY <1>1, <1>3
  <2>5. QED
    BY <2>2, <2>3, <2>4
<1>4. f[0] = g[0]
  BY <1>1, <1>2
<1>5. f[m] = g[m]
  <2> HIDE DEF g
  <2> QED
    BY <1>2, <1>3, <1>4, RunsAgree
<1>6. QED
  BY <1>1, <1>2, <1>5

LEMMA ChainIsOfS ==
  ASSUME NEW S, NEW m, Dated(S, m), NEW told \in Seq(S), NEW a \in S
  PROVE  AppendChain(S, told, a) \in Seq(S)
<1>1. PICK f \in [0 .. m -> Telling(S)] :
        /\ f[0] = [told |-> told, next |-> {a}]
        /\ \A k \in 1 .. m : f[k] = Tell(S, f[k - 1])
        /\ AppendChain(S, told, a) = f[m].told
  BY ChainRuns
<1>2. f[m] \in Telling(S)
  BY DEF Dated
<1>3. QED
  BY <1>1, <1>2 DEF Telling

-----------------------------------------------------------------------------
(* The versions in a given order, and how a chain follows it.                *)

Ordering(order, m) ==
  /\ order \in [1 .. m -> 1 .. m]
  /\ \A j, k \in 1 .. m : order[j] = order[k] => j = k
Opening(S, order, n) == [j \in 1 .. n |-> ByDate(S)[order[j]]]

LEMMA OpeningIs ==
  ASSUME NEW S, NEW m, Dated(S, m), NEW order, Ordering(order, m), NEW n \in 0 .. m
  PROVE  /\ Opening(S, order, n) \in Seq(S) /\ Len(Opening(S, order, n)) = n
         /\ \A j \in 1 .. n : Opening(S, order, n)[j] = ByDate(S)[order[j]]
         /\ \A j \in 1 .. m : ByDate(S)[order[j]] \in Range(Opening(S, order, n)) <=> j <= n
         /\ n < m => Append(Opening(S, order, n), ByDate(S)[order[n + 1]]) = Opening(S, order, n + 1)
<1>1. \A j \in 1 .. m : order[j] \in 1 .. m /\ ByDate(S)[order[j]] \in S /\ ByDate(S)[order[j]].id = order[j]
  BY DatesAre DEF Ordering
<1>2. m \in Nat /\ n \in Nat /\ \A j \in 1 .. n : j \in 1 .. m
  BY DEF Dated
<1>3. Opening(S, order, n) \in [1 .. n -> S]
  BY <1>1, <1>2 DEF Opening
<1>4. Opening(S, order, n) \in Seq(S) /\ Len(Opening(S, order, n)) = n
  BY <1>2, <1>3
<1>5. \A j \in 1 .. n : Opening(S, order, n)[j] = ByDate(S)[order[j]]
  BY DEF Opening
<1>6. ASSUME NEW j \in 1 .. m PROVE ByDate(S)[order[j]] \in Range(Opening(S, order, n)) <=> j <= n
  <2>1. ASSUME j <= n PROVE ByDate(S)[order[j]] \in Range(Opening(S, order, n))
    BY <1>2, <1>3, <1>5, <2>1 DEF Range
  <2>2. ASSUME ByDate(S)[order[j]] \in Range(Opening(S, order, n)) PROVE j <= n
    <3>1. PICK k \in 1 .. n : ByDate(S)[order[j]] = ByDate(S)[order[k]]
      BY <1>3, <1>5, <2>2 DEF Range
    <3>2. k \in 1 .. m /\ order[j] = order[k]
      BY <1>1, <1>2, <3>1
    <3>3. QED
      BY <1>2, <3>2 DEF Ordering
  <2>3. QED
    BY <2>1, <2>2
<1>7. ASSUME n < m PROVE Append(Opening(S, order, n), ByDate(S)[order[n + 1]]) = Opening(S, order, n + 1)
  <2>1. n + 1 \in 1 .. m /\ ByDate(S)[order[n + 1]] \in S
    BY <1>1, <1>2, <1>7
  <2>2. Append(Opening(S, order, n), ByDate(S)[order[n + 1]])
          = [j \in 1 .. n + 1 |-> IF j <= n THEN Opening(S, order, n)[j] ELSE ByDate(S)[order[n + 1]]]
    BY <1>4, <2>1
  <2>3. QED
    BY <1>2, <2>2 DEF Opening
<1>8. QED
  BY <1>4, <1>5, <1>6, <1>7

\* A chain that follows the order tells it to the chain's end.
LEMMA ChainTold ==
  ASSUME NEW S, NEW m, Dated(S, m), NEW order, Ordering(order, m), NEW p \in 0 .. m, NEW q \in 1 .. m, p < q,
         \A j \in p + 1 .. q : Heir(S, ByDate(S)[order[j]]) = IF j < q THEN {ByDate(S)[order[j + 1]]} ELSE {}
  PROVE  AppendChain(S, Opening(S, order, p), ByDate(S)[order[p + 1]]) = Opening(S, order, q)
<1> DEFINE D(j) == ByDate(S)[order[j]]
           g == [k \in 0 .. m |-> IF k < q - p THEN [told |-> Opening(S, order, p + k), next |-> {D(p + k + 1)}]
                                  ELSE [told |-> Opening(S, order, q), next |-> {}]]
<1>1. m \in Nat /\ p \in Nat /\ q \in Nat
  BY DEF Dated
<1>2. D(p + 1) \in S /\ Opening(S, order, p) \in Seq(S)
  <2>1. p + 1 \in 1 .. m
    BY <1>1
  <2>2. Opening(S, order, p) \in Seq(S)
    BY OpeningIs
  <2>3. order[p + 1] \in 1 .. m
    BY <2>1 DEF Ordering
  <2>4. D(p + 1) \in S
    BY <2>3, DatesAre
  <2>5. QED
    BY <2>2, <2>4
<1>3. PICK f \in [0 .. m -> Telling(S)] :
        /\ f[0] = [told |-> Opening(S, order, p), next |-> {D(p + 1)}]
        /\ \A k \in 1 .. m : f[k] = Tell(S, f[k - 1])
        /\ AppendChain(S, Opening(S, order, p), D(p + 1)) = f[m].told
  BY <1>2, ChainRuns
<1>4. f[0] = g[0]
  <2>1. 0 \in 0 .. m /\ 0 < q - p /\ p + 0 = p
    BY <1>1
  <2>2. g[0] = [told |-> Opening(S, order, p), next |-> {D(p + 1)}]
    BY <2>1
  <2> HIDE DEF g
  <2>3. QED
    BY <1>3, <2>2
<1>5. ASSUME NEW k \in 1 .. m, f[k - 1] = g[k - 1] PROVE f[k] = g[k]
  <2>1. f[k] = Tell(S, g[k - 1])
    BY <1>3, <1>5
  <2>2. CASE k - 1 < q - p
    <3>1. PICK n \in 0 .. m : n = p + (k - 1)
      BY <1>1, <2>2
    <3>2. /\ n \in Nat /\ n + 1 = p + k /\ n + 1 \in p + 1 .. q /\ n + 1 \in 1 .. m /\ n < m /\ ~ (n + 1 <= n)
          /\ k - 1 \in 0 .. m /\ k \in 0 .. m /\ (n + 1) + 1 = p + k + 1 /\ p + (k - 1) + 1 = n + 1
      BY <1>1, <2>2, <3>1
    <3>3. g[k - 1].told = Opening(S, order, n) /\ g[k - 1].next = {D(n + 1)}
      BY <2>2, <3>1, <3>2
    <3>4. D(n + 1) \notin Range(Opening(S, order, n)) /\ Append(Opening(S, order, n), D(n + 1)) = Opening(S, order, n + 1)
      BY <3>2, OpeningIs
    <3>5. Tell(S, g[k - 1]) = [told |-> Opening(S, order, n + 1), next |-> Heir(S, D(n + 1))]
      <4> HIDE DEF g, D
      <4>1. (CHOOSE b \in {D(n + 1)} : TRUE) = D(n + 1)
        OBVIOUS
      <4>2. QED
        BY <3>3, <3>4, <4>1 DEF Tell
    <3>6. Heir(S, D(n + 1)) = IF n + 1 < q THEN {D((n + 1) + 1)} ELSE {}
      BY <3>2
    <3>7. CASE n + 1 < q
      <4>1. k < q - p
        BY <1>1, <3>2, <3>7
      <4>2. g[k] = [told |-> Opening(S, order, n + 1), next |-> {D((n + 1) + 1)}]
        BY <3>2, <4>1
      <4> HIDE DEF g
      <4>3. QED
        BY <2>1, <3>5, <3>6, <3>7, <4>2
    <3>8. CASE n + 1 = q
      <4>1. ~ (k < q - p)
        BY <1>1, <3>2, <3>8
      <4>2. g[k] = [told |-> Opening(S, order, n + 1), next |-> {}]
        BY <3>2, <3>8, <4>1
      <4> HIDE DEF g
      <4>3. ~ (n + 1 < q)
        BY <1>1, <3>8
      <4>4. QED
        BY <2>1, <3>5, <3>6, <4>2, <4>3
    <3>9. QED
      BY <1>1, <3>2, <3>7, <3>8
  <2>3. CASE ~ (k - 1 < q - p)
    <3>1. g[k - 1] = [told |-> Opening(S, order, q), next |-> {}] /\ g[k] = g[k - 1]
      BY <1>1, <2>3
    <3> HIDE DEF g
    <3>2. Tell(S, g[k - 1]) = g[k - 1]
      BY <3>1 DEF Tell
    <3>3. QED
      BY <2>1, <3>1, <3>2
  <2>4. QED
    BY <2>2, <2>3
<1>6. f[m] = g[m]
  <2> HIDE DEF g
  <2> QED
    BY <1>1, <1>4, <1>5, RunsAgree
<1>7. g[m].told = Opening(S, order, q)
  BY <1>1
<1>8. QED
  BY <1>3, <1>6, <1>7

-----------------------------------------------------------------------------
(* The story: the chains, in the order in which they begin.                  *)

Chains(S) ==
  FoldLeft(LAMBDA told, a : IF Begins(S, a) THEN AppendChain(S, told, a) ELSE told, <<>>, ByDate(S))
ChainStep(S, told, a) == IF Begins(S, a) THEN AppendChain(S, told, a) ELSE told

LEMMA ChainsRun ==
  ASSUME NEW S, NEW m, Dated(S, m)
  PROVE  \E f \in [0 .. m -> Seq(S)] :
           /\ f[0] = <<>>
           /\ \A k \in 1 .. m : f[k] = ChainStep(S, f[k - 1], ByDate(S)[k])
           /\ Chains(S) = f[m]
<1> DEFINE X == Seq(S)
           Whole(i) == [s \in SUBSET DOMAIN ByDate(S) |-> IF s = {} THEN <<>>
                          ELSE LET x == Max(s) IN ChainStep(S, i[s \ {x}], ByDate(S)[x])]
           fold == CHOOSE i : i = Whole(i)
           step == [x \in X \X (1 .. m) |-> ChainStep(S, x[1], ByDate(S)[x[2]])]
<1>0. DOMAIN ByDate(S) = 1 .. m /\ m \in Nat /\ \A k \in 1 .. m : ByDate(S)[k] \in S
  BY DatesAre
<1>1. Chains(S) = fold[DOMAIN ByDate(S)]
  BY DEF Chains, ChainStep, FoldLeft, MapThenFoldSet
<1>2. <<>> \in X
  OBVIOUS
<1>3. \A told \in X, a \in S : ChainStep(S, told, a) \in X
  BY ChainIsOfS DEF ChainStep
<1> HIDE DEF X
<1>4. step \in [X \X (1 .. m) -> X]
  BY <1>0, <1>3
<1>5. PICK i \in [SUBSET (1 .. m) -> X] : FoldsBy(i, m, <<>>, step)
  <2> HIDE DEF step
  <2> QED
    BY <1>0, <1>2, <1>4, FoldExists
<1>6. i = Whole(i)
  <2>1. ASSUME NEW s \in SUBSET (1 .. m), s # {}
        PROVE  i[s] = ChainStep(S, i[s \ {Max(s)}], ByDate(S)[Max(s)])
    <3>1. Max(s) \in 1 .. m
      BY <1>0, <2>1, MaxIsIn
    <3>2. i[s] = step[<<i[s \ {Max(s)}], Max(s)>>] /\ i[s \ {Max(s)}] \in X
      BY <1>5, <2>1 DEF FoldsBy
    <3>3. QED
      BY <3>1, <3>2
  <2>2. QED
    BY <1>0, <1>5, <2>1 DEF FoldsBy
<1>7. fold = Whole(fold)
  <2> HIDE DEF Whole
  <2> QED
    BY <1>6
<1> HIDE DEF fold
<1>8. fold[{}] = <<>>
  BY <1>7
<1>9. ASSUME NEW s \in SUBSET (1 .. m), s # {}, fold[s \ {Max(s)}] \in X
      PROVE  fold[s] = step[<<fold[s \ {Max(s)}], Max(s)>>]
  <2>1. fold[s] = ChainStep(S, fold[s \ {Max(s)}], ByDate(S)[Max(s)])
    BY <1>0, <1>7, <1>9
  <2>2. Max(s) \in 1 .. m
    BY <1>0, <1>9, MaxIsIn
  <2>3. QED
    BY <1>9, <2>1, <2>2
<1>10. PICK f \in [0 .. m -> X] :
         f[0] = <<>> /\ f[m] = fold[1 .. m] /\ \A k \in 1 .. m : f[k] = step[<<f[k - 1], k>>]
  <2> HIDE DEF step
  <2>1. FoldsIn(fold, m, X, <<>>, step)
    BY <1>8, <1>9 DEF FoldsIn
  <2>2. HasRun(fold, m, X, <<>>, step)
    BY <1>0, <1>2, <1>4, <2>1, RunOfFold
  <2>3. QED
    BY <2>2 DEF HasRun
<1>11. ASSUME NEW k \in 1 .. m PROVE f[k] = ChainStep(S, f[k - 1], ByDate(S)[k])
  <2>1. f[k - 1] \in X /\ f[k] = step[<<f[k - 1], k>>]
    <3>1. k - 1 \in 0 .. m
      BY <1>0
    <3>2. QED
      BY <1>10, <3>1
  <2>2. QED
    BY <2>1
<1>12. QED
  BY <1>0, <1>1, <1>10, <1>11 DEF X

LEMMA RestRuns ==
  ASSUME NEW S, NEW m, Dated(S, m)
  PROVE  \E f \in [0 .. m -> Seq(S)] :
           /\ f[0] = Chains(S)
           /\ \A k \in 1 .. m : f[k] = AppendChain(S, f[k - 1], ByDate(S)[k])
           /\ Lineage(S) = f[m]
<1> DEFINE X == Seq(S)
           Whole(i) == [s \in SUBSET DOMAIN ByDate(S) |-> IF s = {} THEN Chains(S)
                          ELSE LET x == Max(s) IN AppendChain(S, i[s \ {x}], ByDate(S)[x])]
           fold == CHOOSE i : i = Whole(i)
           step == [x \in X \X (1 .. m) |-> AppendChain(S, x[1], ByDate(S)[x[2]])]
<1>0. DOMAIN ByDate(S) = 1 .. m /\ m \in Nat /\ \A k \in 1 .. m : ByDate(S)[k] \in S
  BY DatesAre
<1>1. Lineage(S) = fold[DOMAIN ByDate(S)]
  BY DEF Lineage, Chains, FoldLeft, MapThenFoldSet
<1>2. Chains(S) \in X
  BY <1>0, ChainsRun
<1>3. \A told \in X, a \in S : AppendChain(S, told, a) \in X
  BY ChainIsOfS
<1> HIDE DEF X
<1>4. step \in [X \X (1 .. m) -> X]
  BY <1>0, <1>3
<1>5. PICK i \in [SUBSET (1 .. m) -> X] : FoldsBy(i, m, Chains(S), step)
  <2> HIDE DEF step
  <2> QED
    BY <1>0, <1>2, <1>4, FoldExists
<1>6. i = Whole(i)
  <2>1. ASSUME NEW s \in SUBSET (1 .. m), s # {}
        PROVE  i[s] = AppendChain(S, i[s \ {Max(s)}], ByDate(S)[Max(s)])
    <3>1. Max(s) \in 1 .. m
      BY <1>0, <2>1, MaxIsIn
    <3>2. i[s] = step[<<i[s \ {Max(s)}], Max(s)>>] /\ i[s \ {Max(s)}] \in X
      BY <1>5, <2>1 DEF FoldsBy
    <3>3. QED
      BY <3>1, <3>2
  <2>2. QED
    BY <1>0, <1>5, <2>1 DEF FoldsBy
<1>7. fold = Whole(fold)
  <2> HIDE DEF Whole
  <2> QED
    BY <1>6
<1> HIDE DEF fold
<1>8. fold[{}] = Chains(S)
  BY <1>7
<1>9. ASSUME NEW s \in SUBSET (1 .. m), s # {}, fold[s \ {Max(s)}] \in X
      PROVE  fold[s] = step[<<fold[s \ {Max(s)}], Max(s)>>]
  <2>1. fold[s] = AppendChain(S, fold[s \ {Max(s)}], ByDate(S)[Max(s)])
    BY <1>0, <1>7, <1>9
  <2>2. Max(s) \in 1 .. m
    BY <1>0, <1>9, MaxIsIn
  <2>3. QED
    BY <1>9, <2>1, <2>2
<1>10. PICK f \in [0 .. m -> X] :
         f[0] = Chains(S) /\ f[m] = fold[1 .. m] /\ \A k \in 1 .. m : f[k] = step[<<f[k - 1], k>>]
  <2> HIDE DEF step
  <2>1. FoldsIn(fold, m, X, Chains(S), step)
    BY <1>8, <1>9 DEF FoldsIn
  <2>2. HasRun(fold, m, X, Chains(S), step)
    BY <1>0, <1>2, <1>4, <2>1, RunOfFold
  <2>3. QED
    BY <2>2 DEF HasRun
<1>11. ASSUME NEW k \in 1 .. m PROVE f[k] = AppendChain(S, f[k - 1], ByDate(S)[k])
  <2>1. f[k - 1] \in X /\ f[k] = step[<<f[k - 1], k>>]
    <3>1. k - 1 \in 0 .. m
      BY <1>0
    <3>2. QED
      BY <1>10, <3>1
  <2>2. QED
    BY <2>1
<1>12. QED
  BY <1>0, <1>1, <1>10, <1>11 DEF X

\* Length of the story once the first k versions have been looked at: a version
\* that begins a chain tells it, any other nothing.
Follows(S, order, length, m) ==
  /\ length \in [0 .. m -> 0 .. m] /\ length[0] = 0 /\ length[m] = m
  /\ \A k \in 1 .. m :
       IF Begins(S, ByDate(S)[k])
       THEN /\ length[k - 1] < length[k] /\ order[length[k - 1] + 1] = k
            /\ \A j \in length[k - 1] + 1 .. length[k] :
                 Heir(S, ByDate(S)[order[j]]) = IF j < length[k] THEN {ByDate(S)[order[j + 1]]} ELSE {}
       ELSE length[k] = length[k - 1]

LEMMA StoryTold ==
  ASSUME NEW S, NEW m, Dated(S, m), NEW order, Ordering(order, m), NEW length, Follows(S, order, length, m)
  PROVE  Lineage(S) = Opening(S, order, m)
<1>0. m \in Nat
  BY DEF Dated
<1>1. Chains(S) = Opening(S, order, m)
  <2>1. PICK f \in [0 .. m -> Seq(S)] :
          /\ f[0] = <<>>
          /\ \A k \in 1 .. m : f[k] = ChainStep(S, f[k - 1], ByDate(S)[k])
          /\ Chains(S) = f[m]
    BY ChainsRun
  <2> DEFINE g == [k \in 0 .. m |-> Opening(S, order, length[k])]
  <2>2. f[0] = g[0]
    <3>1. g[0] = Opening(S, order, 0)
      BY <1>0 DEF Follows
    <3>2. Opening(S, order, 0) = <<>>
      BY DEF Opening
    <3>3. QED
      BY <2>1, <3>1, <3>2
  <2>3. ASSUME NEW k \in 1 .. m, f[k - 1] = g[k - 1] PROVE f[k] = g[k]
    <3>1. k \in 0 .. m /\ k - 1 \in 0 .. m /\ length[k] \in 0 .. m /\ length[k - 1] \in 0 .. m
      BY <1>0 DEF Follows
    <3>2. g[k - 1] = Opening(S, order, length[k - 1]) /\ g[k] = Opening(S, order, length[k])
      BY <3>1
    <3>3. f[k] = ChainStep(S, Opening(S, order, length[k - 1]), ByDate(S)[k])
      BY <2>1, <2>3, <3>2
    <3>4. CASE Begins(S, ByDate(S)[k])
      <4>1. /\ length[k - 1] < length[k] /\ order[length[k - 1] + 1] = k
            /\ \A j \in length[k - 1] + 1 .. length[k] :
                 Heir(S, ByDate(S)[order[j]]) = IF j < length[k] THEN {ByDate(S)[order[j + 1]]} ELSE {}
        BY <3>4 DEF Follows
      <4>2. length[k] \in 1 .. m
        BY <1>0, <3>1, <4>1
      <4>3. AppendChain(S, Opening(S, order, length[k - 1]), ByDate(S)[order[length[k - 1] + 1]])
              = Opening(S, order, length[k])
        <5> DEFINE p == length[k - 1]
                   q == length[k]
        <5>1. p \in 0 .. m /\ q \in 1 .. m /\ p < q
          BY <3>1, <4>1, <4>2
        <5>2. \A j \in p + 1 .. q : Heir(S, ByDate(S)[order[j]]) = IF j < q THEN {ByDate(S)[order[j + 1]]} ELSE {}
          BY <4>1
        <5> HIDE DEF p, q
        <5>3. AppendChain(S, Opening(S, order, p), ByDate(S)[order[p + 1]]) = Opening(S, order, q)
          BY <5>1, <5>2, ChainTold
        <5>4. QED
          BY <5>3 DEF p, q
      <4>4. QED
        BY <3>2, <3>3, <3>4, <4>1, <4>3 DEF ChainStep
    <3>5. CASE ~ Begins(S, ByDate(S)[k])
      BY <3>2, <3>3, <3>5 DEF ChainStep, Follows
    <3>6. QED
      BY <3>4, <3>5
  <2>4. g[m] = Opening(S, order, m)
    BY <1>0 DEF Follows
  <2> HIDE DEF g
  <2>5. f[m] = g[m]
    BY <1>0, <2>2, <2>3, RunsAgree
  <2>6. QED
    BY <2>1, <2>4, <2>5
<1>2. PICK f \in [0 .. m -> Seq(S)] :
        /\ f[0] = Chains(S)
        /\ \A k \in 1 .. m : f[k] = AppendChain(S, f[k - 1], ByDate(S)[k])
        /\ Lineage(S) = f[m]
  BY RestRuns
<1>3. \A k \in 1 .. m : ByDate(S)[k] \in Range(Opening(S, order, m)) /\ ByDate(S)[k] \in S
  <2>1. IsFiniteSet(1 .. m) /\ Cardinality(1 .. m) = m
    BY <1>0, FS_Interval
  <2>2. order \in Injection(1 .. m, 1 .. m)
    BY DEF Ordering, Injection, IsInjective
  <2>3. order \in Surjection(1 .. m, 1 .. m)
    BY <2>1, <2>2, FS_Injection
  <2>4. TAKE k \in 1 .. m
  <2>5. PICK j \in 1 .. m : order[j] = k
    BY <2>3 DEF Surjection
  <2>6. j <= m /\ m \in 0 .. m
    BY <1>0
  <2>7. ByDate(S)[order[j]] \in Range(Opening(S, order, m))
    BY <2>6, OpeningIs
  <2>8. QED
    BY <2>5, <2>7, DatesAre
<1> DEFINE g == [k \in 0 .. m |-> Opening(S, order, m)]
<1>4. f[0] = g[0]
  BY <1>0, <1>1, <1>2
<1>5. ASSUME NEW k \in 1 .. m, f[k - 1] = g[k - 1] PROVE f[k] = g[k]
  <2>1. k \in 0 .. m /\ k - 1 \in 0 .. m /\ m \in 0 .. m
    BY <1>0
  <2>2. f[k] = AppendChain(S, Opening(S, order, m), ByDate(S)[k])
    BY <1>2, <1>5, <2>1
  <2>3. Opening(S, order, m) \in Seq(S)
    BY <2>1, OpeningIs
  <2>4. QED
    BY <1>3, <2>1, <2>2, <2>3, ToldAlready
<1>6. g[m] = Opening(S, order, m)
  BY <1>0
<1> HIDE DEF g
<1>7. f[m] = g[m]
  BY <1>0, <1>4, <1>5, RunsAgree
<1>8. QED
  BY <1>2, <1>6, <1>7

-----------------------------------------------------------------------------
(* The story of a visit.  Of m versions the first n replaced nothing, the     *)
(* next replaced i, and every later one its predecessor: so the first i are   *)
(* told, then what came of the repairs, then the rest of the n.               *)

Versed(S, n, i, m) ==
  /\ Dated(S, m) /\ n \in 0 .. m /\ i \in 0 .. n /\ (n # 0 => i # 0)
  /\ \A a \in S : a.supersedes = IF a.id <= n THEN 0 ELSE IF a.id = n + 1 THEN i ELSE a.id - 1

Order(n, i, m) ==
  [j \in 1 .. m |-> IF j <= i THEN j ELSE IF j <= i + (m - n) THEN n + (j - i) ELSE j - (m - n)]
Length(n, i, m) ==
  [k \in 0 .. m |-> IF k = 0 THEN 0 ELSE IF k < i THEN k ELSE IF k <= n THEN k + (m - n) ELSE m]
NextOf(n, i, m, k) == IF k = i THEN n + 1 ELSE IF k > n THEN k + 1 ELSE m + 1

LEMMA HeirIs ==
  ASSUME NEW S, NEW n, NEW i, NEW m, Versed(S, n, i, m), NEW k \in 1 .. m
  PROVE  Heir(S, ByDate(S)[k]) =
           IF NextOf(n, i, m, k) <= m THEN {ByDate(S)[NextOf(n, i, m, k)]} ELSE {}
<1> DEFINE h == NextOf(n, i, m, k)
           heirs == {b \in S : b.supersedes = k}
<1>1. m \in Nat /\ n \in Nat /\ i \in Nat /\ n <= m /\ i <= n /\ Dated(S, m)
  BY DEF Versed, Dated
<1>2. \A b \in S : b.id \in 1 .. m /\ ByDate(S)[b.id] = b
  BY <1>1, DatesAre
<1>3. ByDate(S)[k].id = k /\ Heir(S, ByDate(S)[k]) = {b \in heirs : \A c \in heirs : b.id <= c.id}
  BY <1>1, DatesAre DEF Heir
<1>4. ASSUME NEW b \in S PROVE b.supersedes = k <=> b.id = h
  <2>1. b.id \in 1 .. m /\ b.supersedes = IF b.id <= n THEN 0 ELSE IF b.id = n + 1 THEN i ELSE b.id - 1
    BY <1>2 DEF Versed
  <2>2. QED
    BY <1>1, <2>1 DEF NextOf
<1>5. h \in Nat /\ h >= 1
  BY <1>1 DEF NextOf
<1> HIDE DEF h
<1>6. CASE h <= m
  <2>1. h \in 1 .. m
    BY <1>1, <1>5, <1>6
  <2>2. ByDate(S)[h] \in S /\ ByDate(S)[h].id = h
    BY <1>1, <2>1, DatesAre
  <2>3. heirs = {ByDate(S)[h]}
    BY <1>2, <1>4, <2>2
  <2> HIDE DEF heirs
  <2>4. {b \in heirs : \A c \in heirs : b.id <= c.id} = {ByDate(S)[h]}
    BY <1>5, <2>2, <2>3
  <2>5. QED
    BY <1>3, <1>6, <2>4 DEF h
<1>7. CASE ~ (h <= m)
  <2>1. \A b \in S : b.id # h
    BY <1>1, <1>2, <1>5, <1>7
  <2>2. heirs = {}
    BY <1>4, <2>1
  <2>3. QED
    BY <1>3, <1>7, <2>2 DEF h
<1>8. QED
  BY <1>6, <1>7

LEMMA OrderIs ==
  ASSUME NEW n, NEW i, NEW m \in Nat, n \in 0 .. m, i \in 0 .. n
  PROVE  Ordering(Order(n, i, m), m)
<1> DEFINE at(j) == IF j <= i THEN j ELSE IF j <= i + (m - n) THEN n + (j - i) ELSE j - (m - n)
<1>1. \A j \in 1 .. m : at(j) \in 1 .. m
  OBVIOUS
<1>2. \A j, k \in 1 .. m : at(j) = at(k) => j = k
  OBVIOUS
<1>3. Order(n, i, m) = [j \in 1 .. m |-> at(j)]
  BY DEF Order
<1> HIDE DEF at
<1>4. QED
  BY <1>1, <1>2, <1>3 DEF Ordering

LEMMA BeginsIs ==
  ASSUME NEW S, NEW n, NEW i, NEW m, Versed(S, n, i, m), NEW k \in 1 .. m
  PROVE  Begins(S, ByDate(S)[k]) <=> k <= n \/ (n = 0 /\ k = 1)
<1>1. m \in Nat /\ n \in Nat /\ i \in Nat /\ n <= m /\ i <= n /\ (n # 0 => i # 0) /\ Dated(S, m)
  BY DEF Versed, Dated
<1>2. /\ ByDate(S)[k] \in S /\ ByDate(S)[k].id = k
      /\ ByDate(S)[k].supersedes = IF k <= n THEN 0 ELSE IF k = n + 1 THEN i ELSE k - 1
  <2>1. ByDate(S)[k] \in S /\ ByDate(S)[k].id = k
    BY <1>1, DatesAre
  <2>2. \A a \in S : a.supersedes = IF a.id <= n THEN 0 ELSE IF a.id = n + 1 THEN i ELSE a.id - 1
    BY DEF Versed
  <2>3. QED
    BY <2>1, <2>2
<1>3. \A j : (\E b \in S : b.id = j) <=> j \in 1 .. m
  BY <1>1 DEF Dated
<1>4. Begins(S, ByDate(S)[k]) <=> ByDate(S)[k].supersedes \notin 1 .. m
  BY <1>3 DEF Begins
<1>5. QED
  BY <1>1, <1>2, <1>4

LEMMA StoryFollows ==
  ASSUME NEW S, NEW n, NEW i, NEW m, Versed(S, n, i, m)
  PROVE  Follows(S, Order(n, i, m), Length(n, i, m), m)
<1> DEFINE len(k) == IF k = 0 THEN 0 ELSE IF k < i THEN k ELSE IF k <= n THEN k + (m - n) ELSE m
           at(j) == IF j <= i THEN j ELSE IF j <= i + (m - n) THEN n + (j - i) ELSE j - (m - n)
           D(j) == ByDate(S)[at(j)]
<1>1. m \in Nat /\ n \in Nat /\ i \in Nat /\ n <= m /\ i <= n /\ (n # 0 => i # 0) /\ Dated(S, m)
  BY DEF Versed, Dated
<1>2. \A k \in 0 .. m : len(k) \in 0 .. m
  BY <1>1
<1>3. len(0) = 0 /\ len(m) = m
  BY <1>1
<1>4. \A j \in 1 .. m : at(j) \in 1 .. m
  BY <1>1
<1>5. ASSUME NEW k \in 1 .. m, k <= n \/ (n = 0 /\ k = 1)
      PROVE  /\ len(k - 1) < len(k) /\ at(len(k - 1) + 1) = k
             /\ \A j \in len(k - 1) + 1 .. len(k) : Heir(S, D(j)) = IF j < len(k) THEN {D(j + 1)} ELSE {}
  <2>1. len(k - 1) < len(k) /\ at(len(k - 1) + 1) = k
    BY <1>1, <1>5
  <2>2. ASSUME NEW j \in len(k - 1) + 1 .. len(k)
        PROVE  Heir(S, D(j)) = IF j < len(k) THEN {D(j + 1)} ELSE {}
    <3>1. j \in 1 .. m /\ (j < len(k) => j + 1 \in 1 .. m)
      <4>1. len(k - 1) \in 0 .. m /\ len(k) \in 0 .. m
        BY <1>1, <1>2
      <4> HIDE DEF len
      <4>2. QED
        BY <1>1, <4>1
    <3>2. Heir(S, D(j)) = IF NextOf(n, i, m, at(j)) <= m THEN {ByDate(S)[NextOf(n, i, m, at(j))]} ELSE {}
      BY <1>4, <3>1, HeirIs
    <3>3. j < len(k) => NextOf(n, i, m, at(j)) = at(j + 1)
      BY <1>1, <1>5 DEF NextOf
    <3>4. j < len(k) => NextOf(n, i, m, at(j)) <= m
      BY <1>1, <1>5 DEF NextOf
    <3>5. ~ (j < len(k)) => ~ (NextOf(n, i, m, at(j)) <= m)
      BY <1>1, <1>5 DEF NextOf
    <3> HIDE DEF len, at
    <3>6. QED
      BY <3>2, <3>3, <3>4, <3>5
  <2>3. QED
    BY <2>1, <2>2
<1>6. ASSUME NEW k \in 1 .. m, ~ (k <= n \/ (n = 0 /\ k = 1)) PROVE len(k) = len(k - 1)
  BY <1>1, <1>6
<1>7. Length(n, i, m) = [k \in 0 .. m |-> len(k)] /\ Order(n, i, m) = [j \in 1 .. m |-> at(j)]
  BY DEF Length, Order
<1> DEFINE length == Length(n, i, m)
           order == Order(n, i, m)
<1> HIDE DEF len, at, length, order
<1>8. length = [k \in 0 .. m |-> len(k)] /\ order = [j \in 1 .. m |-> at(j)]
  BY <1>7 DEF length, order
<1>9. ASSUME NEW k \in 1 .. m
      PROVE  IF Begins(S, ByDate(S)[k])
             THEN /\ length[k - 1] < length[k] /\ order[length[k - 1] + 1] = k
                  /\ \A j \in length[k - 1] + 1 .. length[k] :
                       Heir(S, ByDate(S)[order[j]]) = IF j < length[k] THEN {ByDate(S)[order[j + 1]]} ELSE {}
             ELSE length[k] = length[k - 1]
  <2>1. length[k] = len(k) /\ length[k - 1] = len(k - 1) /\ len(k) \in 0 .. m /\ len(k - 1) \in 0 .. m
    <3>1. k \in 0 .. m /\ k - 1 \in 0 .. m
      BY <1>1
    <3>2. QED
      BY <1>2, <1>8, <3>1
  <2>2. CASE Begins(S, ByDate(S)[k])
    <3>1. k <= n \/ (n = 0 /\ k = 1)
      BY <2>2, BeginsIs
    <3>2. len(k - 1) < len(k) /\ at(len(k - 1) + 1) = k /\ len(k - 1) + 1 \in 1 .. m
      BY <1>1, <1>5, <2>1, <3>1
    <3>3. ASSUME NEW j \in len(k - 1) + 1 .. len(k)
          PROVE  Heir(S, ByDate(S)[order[j]]) = IF j < len(k) THEN {ByDate(S)[order[j + 1]]} ELSE {}
      <4>1. j \in 1 .. m /\ (j < len(k) => j + 1 \in 1 .. m)
        BY <1>1, <2>1
      <4>2. order[j] = at(j) /\ (j < len(k) => order[j + 1] = at(j + 1))
        BY <1>8, <4>1
      <4>3. Heir(S, D(j)) = IF j < len(k) THEN {D(j + 1)} ELSE {}
        BY <1>5, <3>1
      <4>4. QED
        BY <4>2, <4>3
    <3>4. order[len(k - 1) + 1] = k
      BY <1>8, <3>2
    <3>5. length[k - 1] < length[k] /\ order[length[k - 1] + 1] = k
      BY <2>1, <3>2, <3>4
    <3>6. \A j \in length[k - 1] + 1 .. length[k] :
             Heir(S, ByDate(S)[order[j]]) = IF j < length[k] THEN {ByDate(S)[order[j + 1]]} ELSE {}
      BY <2>1, <3>3
    <3>7. QED
      BY <2>2, <3>5, <3>6
  <2>3. CASE ~ Begins(S, ByDate(S)[k])
    BY <1>6, <2>1, <2>3, BeginsIs
  <2>4. QED
    BY <2>2, <2>3
<1>10. length \in [0 .. m -> 0 .. m] /\ length[0] = 0 /\ length[m] = m
  BY <1>1, <1>2, <1>3, <1>8
<1>11. Follows(S, order, length, m)
  BY <1>9, <1>10 DEF Follows
<1>12. QED
  BY <1>11 DEF length, order

LEMMA LineageIs ==
  ASSUME NEW S, NEW n, NEW i, NEW m, Versed(S, n, i, m)
  PROVE  /\ Ordering(Order(n, i, m), m)
         /\ Lineage(S) = Opening(S, Order(n, i, m), m)
         /\ Lineage(S) \in Seq(S) /\ Len(Lineage(S)) = m
         /\ \A j \in 1 .. m : Lineage(S)[j] = ByDate(S)[Order(n, i, m)[j]]
<1>1. m \in Nat /\ n \in 0 .. m /\ i \in 0 .. n /\ Dated(S, m) /\ m \in 0 .. m
  BY DEF Versed, Dated
<1>2. Ordering(Order(n, i, m), m)
  BY <1>1, OrderIs
<1>3. Lineage(S) = Opening(S, Order(n, i, m), m)
  BY <1>1, <1>2, StoryFollows, StoryTold
<1>4. QED
  BY <1>1, <1>2, <1>3, OpeningIs

-----------------------------------------------------------------------------
(* The history of a visit.                                                   *)

Omitted(m) == IF m > MaxLineage THEN m - MaxLineage ELSE 0

LEMMA OmittedIs ==
  ASSUME NEW m \in Nat
  PROVE  /\ Max({0, m - MaxLineage}) = Omitted(m) /\ Omitted(m) \in 0 .. m
         /\ m # 0 => Omitted(m) < m
<1>1. MaxLineage \in Nat /\ MaxLineage >= 1
  BY LineageAssumption
<1>2. Omitted(m) \in {0, m - MaxLineage} /\ \A y \in {0, m - MaxLineage} : Omitted(m) >= y
  BY <1>1 DEF Omitted
<1>3. \A x \in {0, m - MaxLineage} : (\A y \in {0, m - MaxLineage} : x >= y) => x = Omitted(m)
  BY <1>1 DEF Omitted
<1>4. Max({0, m - MaxLineage}) = Omitted(m)
  BY <1>2, <1>3 DEF Max
<1>5. QED
  BY <1>1, <1>4 DEF Omitted

\* A history tells the whole story, or the end of it, version by version.
IsTold(S, n, i, m, current, history) ==
  /\ m \in Nat /\ Omitted(m) \in 0 .. m /\ (m # 0 => Omitted(m) < m)
  /\ history.entries \in Seq(S) /\ Len(history.entries) = m - Omitted(m)
  /\ \A j \in 1 .. m - Omitted(m) :
       /\ Omitted(m) + j \in 1 .. m
       /\ history.entries[j] = ByDate(S)[Order(n, i, m)[Omitted(m) + j]]
  /\ history.omitted = Omitted(m)
  /\ history.current = {a.id : a \in current} \cap {a.id : a \in Range(history.entries)}
  /\ history.withdrawn <=> m # 0 /\ current = {}

LEMMA HistoryIs ==
  ASSUME NEW S, NEW n, NEW i, NEW m, Versed(S, n, i, m), NEW current
  PROVE  IsTold(S, n, i, m, current, History(S, current))
<1> DEFINE history == History(S, current)
           story == Lineage(S)
           o == Omitted(m)
<1>1. m \in Nat /\ o \in 0 .. m /\ (m # 0 => o < m) /\ Max({0, m - MaxLineage}) = o
  BY OmittedIs DEF Versed, Dated
<1>2. story \in Seq(S) /\ Len(story) = m /\ \A j \in 1 .. m : story[j] = ByDate(S)[Order(n, i, m)[j]]
  BY LineageIs
<1> DEFINE entries == SubSeq(story, o + 1, m)
           shown == {a.id : a \in current} \cap {a.id : a \in Range(entries)}
<1>3. History(S, current) =
        [entries |-> entries, omitted |-> o, current |-> shown, withdrawn |-> story # <<>> /\ current = {}]
  BY <1>1, <1>2 DEF History
<1>4. story # <<>> <=> m # 0
  BY <1>2
<1>5. /\ history.entries = SubSeq(story, o + 1, m) /\ history.omitted = o
      /\ history.current = {a.id : a \in current} \cap {a.id : a \in Range(SubSeq(story, o + 1, m))}
      /\ history.withdrawn = (story # <<>> /\ current = {})
  <2> HIDE DEF shown, entries, story, o
  <2>1. history.entries = entries /\ history.omitted = o /\ history.current = shown
        /\ history.withdrawn = (story # <<>> /\ current = {})
    BY <1>3
  <2>2. QED
    BY <2>1 DEF shown, entries
<1> HIDE DEF story, o, entries, shown
<1>6. SubSeq(story, o + 1, m) \in Seq(S) /\ Len(SubSeq(story, o + 1, m)) = m - o
  <2>1. \A j \in o + 1 .. m : j \in 1 .. Len(story)
    BY <1>1, <1>2
  <2>2. QED
    BY <1>1, <1>2, <2>1
<1>7. ASSUME NEW j \in 1 .. m - o
      PROVE  o + j \in 1 .. m /\ SubSeq(story, o + 1, m)[j] = ByDate(S)[Order(n, i, m)[o + j]]
  <2>1. o + j \in 1 .. m /\ o + 1 + j - 1 = o + j
    BY <1>1
  <2>2. SubSeq(story, o + 1, m)[j] = story[o + j]
    BY <1>1, <1>2, <2>1
  <2>3. QED
    BY <1>2, <2>1, <2>2
<1> HIDE DEF history
<1>8. QED
  BY <1>1, <1>4, <1>5, <1>6, <1>7 DEF history, o, IsTold

\* A version stands right behind the one it replaced.
LEMMA StoryChains ==
  ASSUME NEW S, NEW n, NEW i, NEW m, Versed(S, n, i, m), NEW j \in 2 .. m
  PROVE  LET a == ByDate(S)[Order(n, i, m)[j]]
             b == ByDate(S)[Order(n, i, m)[j - 1]]
         IN a.supersedes # 0 => b.id = a.supersedes
<1> DEFINE at(k) == IF k <= i THEN k ELSE IF k <= i + (m - n) THEN n + (k - i) ELSE k - (m - n)
<1>1. m \in Nat /\ n \in Nat /\ i \in Nat /\ n <= m /\ i <= n /\ (n # 0 => i # 0) /\ Dated(S, m)
  BY DEF Versed, Dated
<1>2. j \in 1 .. m /\ j - 1 \in 1 .. m
  BY <1>1
<1>3. Order(n, i, m)[j] = at(j) /\ Order(n, i, m)[j - 1] = at(j - 1)
  BY <1>2 DEF Order
<1>4. at(j) \in 1 .. m /\ at(j - 1) \in 1 .. m
  BY <1>1, <1>2
<1>5. LET x == IF at(j) <= n THEN 0 ELSE IF at(j) = n + 1 THEN i ELSE at(j) - 1
      IN x # 0 => at(j - 1) = x
  BY <1>1, <1>2
<1> HIDE DEF at
<1>6. /\ ByDate(S)[at(j)] \in S /\ ByDate(S)[at(j)].id = at(j)
      /\ ByDate(S)[at(j - 1)] \in S /\ ByDate(S)[at(j - 1)].id = at(j - 1)
  BY <1>1, <1>4, DatesAre
<1>7. ByDate(S)[at(j)].supersedes = IF at(j) <= n THEN 0 ELSE IF at(j) = n + 1 THEN i ELSE at(j) - 1
  BY <1>6 DEF Versed
<1>8. QED
  BY <1>3, <1>5, <1>6, <1>7

LEMMA StoryIsTold ==
  ASSUME NEW S, NEW n, NEW i, NEW m, Versed(S, n, i, m), NEW versions, PublishedVersions(versions) = S,
         NEW item, item.history = History(S, item.dispatch),
         \A a \in item.dispatch : \E j \in Omitted(m) + 1 .. m : Order(n, i, m)[j] = a.id
  PROVE  StoryIsWhole(item, versions)
<1> DEFINE told == item.history.entries
           o == Omitted(m)
           D(j) == ByDate(S)[Order(n, i, m)[j]]
<1>1. /\ m \in Nat /\ o \in 0 .. m /\ told \in Seq(S) /\ Len(told) = m - o
      /\ \A j \in 1 .. m - o : o + j \in 1 .. m /\ told[j] = D(o + j)
      /\ item.history.omitted = o
      /\ item.history.current = {a.id : a \in item.dispatch} \cap {a.id : a \in Range(told)}
  <2>1. IsTold(S, n, i, m, item.dispatch, item.history)
    BY HistoryIs
  <2>2. QED
    BY <2>1 DEF IsTold
<1> HIDE DEF o, told
<1>2. Ordering(Order(n, i, m), m) /\ Dated(S, m)
  <2>1. Dated(S, m)
    BY DEF Versed
  <2>2. QED
    BY <2>1, LineageIs
<1>3. \A j \in 1 .. m : D(j) \in S /\ D(j).id = Order(n, i, m)[j]
  BY <1>2, DatesAre DEF Ordering
<1>4. Cardinality(Range(told)) = Len(told)
  <2>1. told \in [1 .. m - o -> S] /\ m - o \in Nat
    BY <1>1
  <2>2. \A j, k \in 1 .. m - o : told[j] = told[k] => j = k
    <3>1. SUFFICES ASSUME NEW j \in 1 .. m - o, NEW k \in 1 .. m - o, told[j] = told[k] PROVE j = k
      OBVIOUS
    <3>2. o + j \in 1 .. m /\ o + k \in 1 .. m /\ Order(n, i, m)[o + j] = Order(n, i, m)[o + k]
      BY <1>1, <1>3, <3>1
    <3>3. o + j = o + k
      BY <1>2, <3>2 DEF Ordering
    <3>4. QED
      BY <1>1, <3>3
  <2>3. IsFiniteSet(1 .. m - o) /\ Cardinality(1 .. m - o) = m - o
    BY <2>1, FS_Interval
  <2>4. Range(told) = {told[j] : j \in 1 .. m - o}
    BY <2>1 DEF Range
  <2> DEFINE f == [j \in 1 .. m - o |-> told[j]]
  <2>5. f \in Injection(1 .. m - o, Range(told)) /\ f \in Surjection(1 .. m - o, Range(told))
    BY <2>2, <2>4 DEF Injection, Surjection, IsInjective
  <2> HIDE DEF f
  <2>6. Cardinality(Range(told)) = Cardinality(1 .. m - o)
    BY <2>3, <2>5, FS_Surjection
  <2>7. QED
    BY <1>1, <2>3, <2>6
<1>5. Len(told) + item.history.omitted = Cardinality(S)
  BY <1>1, <1>2, DatedCount
<1>6. ASSUME NEW j \in 2 .. Len(told), told[j].supersedes # 0 PROVE told[j - 1].id = told[j].supersedes
  <2>1. j \in 1 .. m - o /\ j - 1 \in 1 .. m - o /\ o + j \in 2 .. m /\ o + (j - 1) = (o + j) - 1
    BY <1>1
  <2>2. told[j] = D(o + j) /\ told[j - 1] = D((o + j) - 1)
    BY <1>1, <2>1
  <2>3. QED
    BY <1>6, <2>1, <2>2, StoryChains
<1>7. item.history.current = {a.id : a \in item.dispatch}
  <2>1. ASSUME NEW a \in item.dispatch PROVE \E b \in Range(told) : b.id = a.id
    <3>1. PICK j \in o + 1 .. m : Order(n, i, m)[j] = a.id
      BY DEF o
    <3>2. j - o \in 1 .. m - o /\ o + (j - o) = j /\ j \in 1 .. m
      BY <1>1
    <3>3. told[j - o] = D(j) /\ D(j).id = a.id
      BY <1>1, <1>3, <3>1, <3>2
    <3>4. j - o \in DOMAIN told
      BY <1>1, <3>2
    <3>5. told[j - o] \in Range(told)
      BY <3>4 DEF Range
    <3>6. QED
      BY <3>3, <3>5
  <2>2. QED
    BY <1>1, <2>1
<1>8. QED
  BY <1>4, <1>5, <1>6, <1>7 DEF StoryIsWhole, told

-----------------------------------------------------------------------------
(* What the portal makes of a history.                                       *)

ReadNext(told, unread, a) == IF a.id \in unread THEN told ELSE Append(told, a)
Read(entries, unread) ==
  FoldLeft(LAMBDA read, a : IF a.id \in unread THEN read ELSE Append(read, a), <<>>, entries)

HasReading(S, entries, unread) ==
  \E f \in [0 .. Len(entries) -> Seq(S)] :
    /\ f[0] = <<>>
    /\ \A k \in 1 .. Len(entries) : f[k] = ReadNext(f[k - 1], unread, entries[k])
    /\ Read(entries, unread) = f[Len(entries)]

LEMMA ReadRuns ==
  ASSUME NEW S, NEW entries \in Seq(S), NEW unread
  PROVE  HasReading(S, entries, unread)
<1> DEFINE X == Seq(S)
           m == Len(entries)
           Whole(i) == [s \in SUBSET DOMAIN entries |-> IF s = {} THEN <<>>
                          ELSE LET x == Max(s) IN ReadNext(i[s \ {x}], unread, entries[x])]
           fold == CHOOSE i : i = Whole(i)
           step == [x \in X \X (1 .. m) |-> ReadNext(x[1], unread, entries[x[2]])]
<1>0. DOMAIN entries = 1 .. m /\ m \in Nat /\ \A k \in 1 .. m : entries[k] \in S
  OBVIOUS
<1>1. Read(entries, unread) = fold[DOMAIN entries]
  BY DEF Read, ReadNext, FoldLeft, MapThenFoldSet
<1>2. <<>> \in X
  OBVIOUS
<1>3. \A told \in X, a \in S : ReadNext(told, unread, a) \in X
  BY DEF ReadNext
<1> HIDE DEF X, m
<1>4. step \in [X \X (1 .. m) -> X]
  BY <1>0, <1>3
<1>5. PICK i \in [SUBSET (1 .. m) -> X] : FoldsBy(i, m, <<>>, step)
  <2> HIDE DEF step
  <2> QED
    BY <1>0, <1>2, <1>4, FoldExists
<1>6. i = Whole(i)
  <2>1. ASSUME NEW s \in SUBSET (1 .. m), s # {}
        PROVE  i[s] = ReadNext(i[s \ {Max(s)}], unread, entries[Max(s)])
    <3>1. Max(s) \in 1 .. m
      BY <1>0, <2>1, MaxIsIn
    <3>2. i[s] = step[<<i[s \ {Max(s)}], Max(s)>>] /\ i[s \ {Max(s)}] \in X
      BY <1>5, <2>1 DEF FoldsBy
    <3>3. QED
      BY <3>1, <3>2
  <2>2. QED
    BY <1>0, <1>5, <2>1 DEF FoldsBy
<1>7. fold = Whole(fold)
  <2> HIDE DEF Whole
  <2> QED
    BY <1>6
<1> HIDE DEF fold
<1>8. fold[{}] = <<>>
  BY <1>7
<1>9. ASSUME NEW s \in SUBSET (1 .. m), s # {}, fold[s \ {Max(s)}] \in X
      PROVE  fold[s] = step[<<fold[s \ {Max(s)}], Max(s)>>]
  <2>1. fold[s] = ReadNext(fold[s \ {Max(s)}], unread, entries[Max(s)])
    BY <1>0, <1>7, <1>9
  <2>2. Max(s) \in 1 .. m
    BY <1>0, <1>9, MaxIsIn
  <2>3. QED
    BY <1>9, <2>1, <2>2
<1>10. PICK f \in [0 .. m -> X] :
         f[0] = <<>> /\ f[m] = fold[1 .. m] /\ \A k \in 1 .. m : f[k] = step[<<f[k - 1], k>>]
  <2> HIDE DEF step
  <2>1. FoldsIn(fold, m, X, <<>>, step)
    BY <1>8, <1>9 DEF FoldsIn
  <2>2. HasRun(fold, m, X, <<>>, step)
    BY <1>0, <1>2, <1>4, <2>1, RunOfFold
  <2>3. QED
    BY <2>2 DEF HasRun
<1>11. ASSUME NEW k \in 1 .. m PROVE f[k] = ReadNext(f[k - 1], unread, entries[k])
  <2>1. f[k - 1] \in X /\ f[k] = step[<<f[k - 1], k>>]
    <3>1. k - 1 \in 0 .. m
      BY <1>0
    <3>2. QED
      BY <1>10, <3>1
  <2>2. QED
    BY <2>1
<1>12. QED
  BY <1>0, <1>1, <1>10, <1>11 DEF X, m, HasReading

LEMMA ReadIs ==
  ASSUME NEW S, NEW entries \in Seq(S), NEW unread
  PROVE  /\ Read(entries, unread) \in Seq(S) /\ Len(Read(entries, unread)) <= Len(entries)
         /\ unread = {} => Read(entries, unread) = entries
<1> DEFINE m == Len(entries)
<1>0. m \in Nat /\ \A k \in 1 .. m : entries[k] \in S
  OBVIOUS
<1>1. PICK f \in [0 .. m -> Seq(S)] :
        /\ f[0] = <<>>
        /\ \A k \in 1 .. m : f[k] = ReadNext(f[k - 1], unread, entries[k])
        /\ Read(entries, unread) = f[m]
  <2>1. HasReading(S, entries, unread)
    BY ReadRuns
  <2>2. QED
    BY <2>1, Zenon DEF HasReading
<1> HIDE DEF m
<1>2. \A k \in 1 .. m : k \in 0 .. m /\ k - 1 \in 0 .. m /\ f[k - 1] \in Seq(S)
  BY <1>0
<1>3. Len(f[m]) <= m
  <2> DEFINE g == [k \in 0 .. m |-> IF Len(f[k]) <= k THEN 0 ELSE 1]
             h == [k \in 0 .. m |-> 0]
  <2>1. g[0] = h[0]
    <3>1. 0 \in 0 .. m /\ Len(f[0]) = 0
      BY <1>0, <1>1
    <3>2. QED
      BY <3>1
  <2>2. ASSUME NEW k \in 1 .. m, g[k - 1] = h[k - 1] PROVE g[k] = h[k]
    <3>1. Len(f[k - 1]) <= k - 1 /\ f[k] = ReadNext(f[k - 1], unread, entries[k])
      BY <1>1, <1>2, <2>2
    <3>2. Len(f[k]) <= Len(f[k - 1]) + 1
      BY <1>0, <1>2, <3>1 DEF ReadNext
    <3>3. Len(f[k]) \in Nat /\ Len(f[k - 1]) \in Nat
      BY <1>2
    <3>4. Len(f[k]) <= k
      BY <1>0, <3>1, <3>2, <3>3
    <3>5. QED
      BY <1>2, <3>4
  <2>3. h[m] = 0 /\ g[m] = IF Len(f[m]) <= m THEN 0 ELSE 1
    BY <1>0
  <2> HIDE DEF g, h
  <2>4. g[m] = h[m]
    BY <1>0, <2>1, <2>2, RunsAgree
  <2>5. QED
    BY <2>3, <2>4
<1>4. ASSUME unread = {} PROVE f[m] = entries
  <2> DEFINE g == [k \in 0 .. m |-> [j \in 1 .. k |-> entries[j]]]
  <2>1. f[0] = g[0]
    <3>1. g[0] = [j \in 1 .. 0 |-> entries[j]]
      BY <1>0
    <3>2. [j \in 1 .. 0 |-> entries[j]] = <<>>
      OBVIOUS
    <3>3. QED
      BY <1>1, <3>1, <3>2
  <2>2. ASSUME NEW k \in 1 .. m, f[k - 1] = g[k - 1] PROVE f[k] = g[k]
    <3>1. f[k] = Append(g[k - 1], entries[k])
      BY <1>1, <1>4, <2>2 DEF ReadNext
    <3>2. g[k - 1] = [j \in 1 .. k - 1 |-> entries[j]] /\ g[k] = [j \in 1 .. k |-> entries[j]]
      BY <1>2
    <3>3. g[k - 1] \in Seq(S) /\ Len(g[k - 1]) = k - 1
      <4>1. k - 1 \in Nat /\ \A j \in 1 .. k - 1 : entries[j] \in S
        BY <1>0
      <4>2. QED
        BY <3>2, <4>1
    <3> HIDE DEF g
    <3>4. Append(g[k - 1], entries[k])
            = [j \in 1 .. (k - 1) + 1 |-> IF j <= k - 1 THEN g[k - 1][j] ELSE entries[k]]
      BY <1>0, <3>3
    <3>5. QED
      BY <1>0, <3>1, <3>2, <3>4
  <2>3. g[m] = [j \in 1 .. m |-> entries[j]]
    BY <1>0
  <2>4. [j \in 1 .. m |-> entries[j]] = entries
    BY DEF m
  <2> HIDE DEF g
  <2>5. f[m] = g[m]
    BY <1>0, <2>1, <2>2, RunsAgree
  <2>6. QED
    BY <2>3, <2>4, <2>5
<1>5. f[m] \in Seq(S)
  BY <1>0
<1>6. QED
  BY <1>1, <1>3, <1>4, <1>5 DEF m

LEMMA ReceivedHistoryIs ==
  ASSUME NEW S, NEW entries \in Seq(S), NEW omitted \in Nat, NEW current, NEW withdrawn \in BOOLEAN,
         current \subseteq {a.id : a \in Range(entries)},
         withdrawn => entries # <<>> /\ current = {}, NEW fields, NEW unread
  PROVE  LET history == [entries |-> entries, omitted |-> omitted, current |-> current, withdrawn |-> withdrawn]
             read == ReceivedHistory(history, fields, unread)
         IN /\ fields = {} /\ unread = {} => read = history
            /\ fields = {} => Len(read.entries) + read.omitted = Len(entries) + omitted
            /\ read.withdrawn => withdrawn
            /\ read.current \subseteq current
<1> DEFINE history == [entries |-> entries, omitted |-> omitted, current |-> current, withdrawn |-> withdrawn]
           e == Read(entries, unread)
           reported == IF "total" \in fields THEN Len(e) ELSE Len(entries) + omitted
           now == IF "current" \in fields THEN {} ELSE current \cap {a.id : a \in Range(e)}
           o == Max({reported, Len(e)}) - Len(e)
           w == e # <<>> /\ now = {} /\ withdrawn /\ "withdrawn" \notin fields
<1>1. ReceivedHistory(history, fields, unread) = [entries |-> e, omitted |-> o, current |-> now, withdrawn |-> w]
  BY DEF ReceivedHistory, Read
<1>2. e \in Seq(S) /\ Len(e) \in Nat /\ Len(entries) \in Nat /\ Len(e) <= Len(entries) /\ (unread = {} => e = entries)
  BY ReadIs
<1> HIDE DEF e
<1>3. ASSUME fields = {} PROVE o = Len(entries) + omitted - Len(e)
  <2>1. reported = Len(entries) + omitted
    BY <1>3
  <2> HIDE DEF reported
  <2>2. \A x \in {reported, Len(e)} : (\A y \in {reported, Len(e)} : x >= y) => x = reported
    BY <1>2, <2>1
  <2>3. \A y \in {reported, Len(e)} : reported >= y
    BY <1>2, <2>1
  <2>4. Max({reported, Len(e)}) = reported
    BY <2>2, <2>3 DEF Max
  <2>5. QED
    BY <2>1, <2>4
<1>4. now \subseteq current
  OBVIOUS
<1>5. ASSUME fields = {}, unread = {} PROVE o = omitted /\ now = current /\ w = withdrawn
  <2>1. o = omitted
    BY <1>2, <1>3, <1>5
  <2>2. now = current
    BY <1>2, <1>5
  <2> HIDE DEF now
  <2>3. QED
    BY <1>2, <1>5, <2>1, <2>2
<1>6. w => withdrawn
  OBVIOUS
<1> HIDE DEF o, now, w
<1>7. QED
  BY <1>1, <1>2, <1>3, <1>4, <1>5, <1>6

-----------------------------------------------------------------------------
(* The assignments of a visit, as a story.                                   *)

\* Fewer assignments of a visit were in force before the guards than a history
\* has entries (10, MAX_PUBLISHED_ASSIGNMENT_LINEAGE_ENTRIES): with more, a history that
\* is cut can leave out one that is still in force.
StoriesFit ==
  IsFiniteSet(Visit) /\ MaxLineage >= 2 /\ \A v \in Visit : Before(v) < MaxLineage

Versions(v) == PublishedVersions(rows[v])
First(v) == IF Versions(v) = {} THEN 0 ELSE Before(v)
IsVersed(S, n) == \E i, m : Versed(S, n, i, m)
Tellable(v) == (Versions(v) = {} \/ Versions(v) = rows[v]) /\ IsVersed(Versions(v), First(v))
AllTellable == \A v \in Visit : Tellable(v)

LEMMA StoriesAreVersed == RepairInv /\ StoryInv => AllTellable
<1> SUFFICES ASSUME RepairInv, StoryInv, NEW v \in Visit PROVE Tellable(v)
  BY DEF AllTellable
<1>0. /\ StoryOf(v) /\ Before(v) \in Nat /\ rows[v] \subseteq Row /\ Numbered(v) /\ Drafted(v)
  BY BeforeIs DEF StoryInv, RepairInv, TypeOK, RowsInv
<1>1. Versions(v) = {} \/ Versions(v) = rows[v]
  BY <1>0 DEF Versions, PublishedVersions, Drafted
<1>2. CASE Versions(v) = {}
  <2>1. Versed({}, 0, 0, 0)
    BY DEF Versed, Dated
  <2>2. QED
    BY <1>2, <2>1 DEF Tellable, First, IsVersed
<1>3. CASE Versions(v) # {}
  <2>1. PICK m \in Nat : Ids(v) = 1 .. m
    BY <1>0 DEF Numbered
  <2>2. Dated(rows[v], m)
    BY <1>0, <2>1 DEF Dated, Ids, Numbered
  <2>3. Before(v) \in 0 .. m
    <3>1. \A i \in 1 .. Before(v) : i \in 1 .. m
      BY <1>0, <2>1 DEF StoryOf, Kept, Ids
    <3>2. QED
      BY <1>0, <2>1, <3>1
  <2> DEFINE n == Before(v)
             next == CHOOSE a \in rows[v] : a.id = n + 1
             i == IF m = n THEN n ELSE next.supersedes
  <2>4. m # n => next \in rows[v] /\ next.id = n + 1
    <3>1. m # n => n + 1 \in 1 .. m
      BY <2>1, <2>3
    <3>2. QED
      BY <2>2, <3>1 DEF Dated
  <2>5. i \in 0 .. n /\ (n # 0 => i # 0)
    BY <1>0, <2>3, <2>4 DEF StoryOf, Origin
  <2>6. ASSUME NEW a \in rows[v]
        PROVE  a.supersedes = IF a.id <= n THEN 0 ELSE IF a.id = n + 1 THEN i ELSE a.id - 1
    <3>1. Origin(v, a) /\ a.id \in 1 .. m
      BY <1>0, <2>2 DEF StoryOf, Dated
    <3>2. CASE a.id <= n
      BY <3>1, <3>2 DEF Origin
    <3>3. CASE a.id = n + 1
      <4>1. m # n
        BY <2>1, <2>3, <3>1, <3>3
      <4>2. next = a
        BY <2>2, <2>4, <3>3, <4>1 DEF Dated
      <4>3. i = next.supersedes
        BY <4>1
      <4> HIDE DEF i, next
      <4>4. QED
        BY <1>0, <2>3, <3>3, <4>2, <4>3
    <3>4. CASE a.id > n + 1
      BY <2>3, <3>1, <3>4 DEF Origin
    <3>5. QED
      BY <2>3, <3>1, <3>2, <3>3, <3>4
  <2> HIDE DEF i, next
  <2>7. Versed(rows[v], n, i, m)
    BY <2>2, <2>3, <2>5, <2>6 DEF Versed
  <2>8. QED
    BY <1>1, <1>3, <2>7 DEF Tellable, First, IsVersed
<1>4. QED
  BY <1>2, <1>3

\* What is in force, and what was until a moment ago, is among what is told.
LEMMA Placed ==
  ASSUME MaxLineage >= 2, NEW S, NEW n, NEW i, NEW m, Versed(S, n, i, m), n < MaxLineage,
         NEW k \in 1 .. m, k >= n, k >= m - 1
  PROVE  \E j \in Omitted(m) + 1 .. m : Order(n, i, m)[j] = k
<1> DEFINE j == IF k > n THEN i + (k - n) ELSE IF i = n THEN n ELSE m
<1>1. m \in Nat /\ n \in Nat /\ i \in Nat /\ n <= m /\ i <= n /\ (n # 0 => i # 0) /\ MaxLineage \in Nat
  BY LineageAssumption DEF Versed, Dated
<1>2. j \in Omitted(m) + 1 .. m
  BY <1>1 DEF Omitted
<1>3. j \in 1 .. m
  BY <1>1
<1>4. (IF j <= i THEN j ELSE IF j <= i + (m - n) THEN n + (j - i) ELSE j - (m - n)) = k
  BY <1>1
<1> HIDE DEF j
<1>5. Order(n, i, m)[j] = k
  BY <1>3, <1>4 DEF Order
<1>6. QED
  BY <1>2, <1>5

-----------------------------------------------------------------------------
(* What is dispatched, proposed and in force.                                *)

Dispatch(v) == Newest(WithStatus(rows[v], "PUBLISHED"))
Drafts(v) == WithStatus(rows[v], "DRAFT")

LEMMA DispatchIs ==
  ASSUME RepairInv, StoryInv, NEW v \in Visit
  PROVE  /\ WithStatus(rows[v], "PUBLISHED") = Published(v)
         /\ Dispatch(v) \subseteq Published(v) /\ (Dispatch(v) = {} => Published(v) = {})
         /\ \A a, b \in Dispatch(v) : a = b
         /\ \A a \in Published(v) : Drafts(v) = {} /\ Versions(v) = rows[v]
         /\ Drafts(v) # {} => Published(v) = {} /\ \E a \in rows[v] : rows[v] = {a} /\ Drafts(v) = {a}
         /\ Newest(Drafts(v)) = Drafts(v)
         /\ \A a \in Dispatch(v) : \A m : Dated(rows[v], m) => a.id = m /\ a.id >= Before(v)
<1>0. /\ StoryOf(v) /\ Before(v) \in Nat /\ rows[v] \subseteq Row /\ Numbered(v) /\ Drafted(v)
  BY BeforeIs DEF StoryInv, RepairInv, TypeOK, RowsInv
<1>1. WithStatus(rows[v], "PUBLISHED") = Published(v) /\ Dispatch(v) \subseteq Published(v)
  BY DEF WithStatus, Published, Dispatch, Newest
<1>2. PICK m \in Nat : Ids(v) = 1 .. m
  BY <1>0 DEF Numbered
<1>3. \A a \in rows[v] : a.id \in 1 .. m
  BY <1>2 DEF Ids
<1>4. ASSUME Published(v) # {}
      PROVE  \E a \in Published(v) : a.id = m /\ a.id >= Before(v)
  <2>1. CASE Untouched(v)
    <3>1. m # 0
      BY <1>3, <1>4 DEF Published
    <3>2. PICK a \in rows[v] : a.id = m
      BY <1>2, <3>1 DEF Ids
    <3>3. a \in Published(v)
      BY <2>1, <3>2 DEF Untouched, Published
    <3>4. Before(v) <= m
      <4>1. \A i \in 1 .. Before(v) : i \in 1 .. m
        BY <1>0, <1>2 DEF StoryOf, Kept, Ids
      <4>2. QED
        BY <1>0, <1>2, <4>1
    <3>5. QED
      BY <1>0, <3>2, <3>3, <3>4
  <2>2. CASE NewestRules(v)
    <3>1. PICK a \in Published(v) : TRUE
      BY <1>4
    <3>2. a \in rows[v] /\ a.id > Before(v) /\ \A b \in rows[v] : b.id <= a.id
      BY <2>2, <3>1 DEF NewestRules, Published, Live
    <3>3. \E b \in rows[v] : b.id = m
      BY <1>2, <1>3, <3>2 DEF Ids
    <3>4. a.id = m
      BY <1>2, <1>3, <3>2, <3>3
    <3>5. QED
      BY <1>0, <3>1, <3>2, <3>4
  <2>3. QED
    BY <1>0, <2>1, <2>2 DEF StoryOf
<1>5. ASSUME Published(v) # {}
      PROVE  \E a \in Dispatch(v) : a.id = m /\ a.id >= Before(v) /\ Dispatch(v) = {a}
  <2>1. PICK a \in Published(v) : a.id = m /\ a.id >= Before(v)
    BY <1>4, <1>5
  <2>2. \A b \in Published(v) : b \in rows[v] /\ b.id \in 1 .. m
    BY <1>3 DEF Published
  <2>3. Dispatch(v) = {b \in Published(v) : \A c \in Published(v) : c.id <= b.id}
    BY <1>1 DEF Dispatch, Newest
  <2>4. a \in Dispatch(v)
    BY <2>1, <2>2, <2>3
  <2>5. \A b \in Dispatch(v) : b.id = m
    BY <2>1, <2>2, <2>3
  <2>6. \A b \in Dispatch(v) : b = a
    BY <1>0, <2>1, <2>2, <2>3, <2>5 DEF Numbered
  <2>7. QED
    BY <2>1, <2>4, <2>6
<1>6. \A a \in Published(v) : Drafts(v) = {} /\ Versions(v) = rows[v]
  BY <1>0 DEF Drafted, Published, Drafts, Versions, WithStatus, PublishedVersions
<1>7. Drafts(v) # {} => Published(v) = {} /\ \E a \in rows[v] : rows[v] = {a} /\ Drafts(v) = {a}
  BY <1>0, <1>6 DEF Drafted, Drafts, WithStatus
<1>8. Newest(Drafts(v)) = Drafts(v)
  <2>1. CASE Drafts(v) = {}
    BY <2>1 DEF Newest
  <2>2. CASE Drafts(v) # {}
    <3>1. PICK a \in rows[v] : Drafts(v) = {a}
      BY <1>7, <2>2
    <3>2. a.id \in Nat
      BY <1>3
    <3>3. QED
      BY <3>1, <3>2 DEF Newest
  <2>3. QED
    BY <2>1, <2>2
<1>9. ASSUME NEW a \in Dispatch(v), NEW k, Dated(rows[v], k) PROVE a.id = k /\ a.id >= Before(v)
  <2>1. Published(v) # {}
    BY <1>1
  <2>2. a.id = m /\ a.id >= Before(v)
    BY <1>5, <2>1
  <2>3. Dated(rows[v], m)
    BY <1>0, <1>2 DEF Dated, Ids, Numbered
  <2>4. k = m
    BY <1>9, <2>3, DatedCount
  <2>5. QED
    BY <2>2, <2>4
<1>10. QED
  BY <1>1, <1>5, <1>6, <1>7, <1>8, <1>9

-----------------------------------------------------------------------------
(* An item of the board.                                                     *)

LEMMA LiveIs ==
  ASSUME RepairInv, StoryInv, NEW v \in Visit
  PROVE  /\ Live(v) = Drafts(v) \cup Published(v)
         /\ Live(v) # {} => \E a \in Newest(Live(v)) : a.crew # {}
         /\ Dispatch(v) # {} => Newest(Live(v)) = Dispatch(v)
         /\ Live(v) = {} <=> CalendarAssignment(v) = {}
         /\ Dispatch(v) # {} => CalendarAssignment(v) = Dispatch(v)
<1>1. Live(v) = Drafts(v) \cup Published(v) /\ WithStatus(rows[v], "PUBLISHED") = Published(v)
  BY DEF Live, Drafts, Published, WithStatus
<1>2. Dispatch(v) # {} => Live(v) = Published(v) /\ Drafts(v) = {}
  BY <1>1, DispatchIs
<1>3. Dispatch(v) # {} => Newest(Live(v)) = Dispatch(v)
  BY <1>1, <1>2 DEF Dispatch
<1>4. ASSUME Live(v) # {} PROVE \E a \in Newest(Live(v)) : a.crew # {}
  <2>1. \A a \in rows[v] : a.crew # {}
    BY DEF StoryInv, StoryOf, Origin
  <2>2. CASE Dispatch(v) # {}
    BY <1>3, <2>1, <2>2, DispatchIs DEF Published
  <2>3. CASE Dispatch(v) = {}
    <3>1. Live(v) = Drafts(v) /\ Drafts(v) # {}
      BY <1>1, <1>4, <2>3, DispatchIs
    <3>2. Newest(Live(v)) = Drafts(v)
      BY <3>1, DispatchIs
    <3>3. QED
      BY <2>1, <3>1, <3>2, DispatchIs
  <2>4. QED
    BY <2>2, <2>3
<1>5. Live(v) = {} <=> CalendarAssignment(v) = {}
  <2>1. CalendarAssignment(v) = IF Drafts(v) # {} THEN Newest(Drafts(v)) ELSE Dispatch(v)
    BY DEF CalendarAssignment, Drafts, Dispatch
  <2>2. QED
    BY <1>1, <2>1, DispatchIs
<1>6. Dispatch(v) # {} => CalendarAssignment(v) = Dispatch(v)
  BY <1>2 DEF CalendarAssignment, Drafts, Dispatch
<1>7. QED
  BY <1>1, <1>3, <1>4, <1>5, <1>6

Several(v) ==
  {c \in {"MULTIPLE_LIVE_ASSIGNMENTS"} : Cardinality(Published(v)) > 1 \/ Cardinality(Drafts(v)) > 1}
Judged(v) == Violations(v, Dispatch(v)) \cup Several(v)
StateOf(v) == OperationState(Dispatch(v), Drafts(v), Judged(v))

LEMMA ItemIs ==
  ASSUME RepairInv, StoryInv, NEW v \in Visit, NEW versions
  PROVE  DayItem(v, rows[v], versions) =
           [visit |-> v, status |-> visits[v].status, dispatch |-> Dispatch(v), proposed |-> Drafts(v),
            violations |-> Judged(v), state |-> StateOf(v),
            history |-> History(PublishedVersions(versions), Dispatch(v))]
<1>1. Newest(WithStatus(rows[v], "DRAFT")) = Drafts(v) /\ WithStatus(rows[v], "PUBLISHED") = Published(v)
      /\ WithStatus(rows[v], "DRAFT") = Drafts(v) /\ Newest(Published(v)) = Dispatch(v)
  BY DispatchIs DEF Drafts, Dispatch
<1>2. QED
  BY <1>1 DEF DayItem, StateOf, Judged, Several

LEMMA StateIs ==
  ASSUME RepairInv, StoryInv, NEW v \in Visit
  PROVE  /\ StateOf(v) = "UNASSIGNED" <=> Live(v) = {}
         /\ StateOf(v) = "READY" => Dispatch(v) # {} /\ Judged(v) = {} /\ Dispatch(v) = Published(v)
         /\ Dispatch(v) # {} => StateOf(v) \in {"READY", "EXCEPTION"}
         /\ StateOf(v) \notin {"READY", "EXCEPTION"} => Dispatch(v) = {}
<1>1. visits[v].reasons \subseteq {"withdrawn"}
  BY DEF RepairInv, TypeOK, VisitRecord
<1>2. "MULTIPLE_LIVE_ASSIGNMENTS" \notin Violations(v, Dispatch(v))
  <2>1. \A o, operations : "MULTIPLE_LIVE_ASSIGNMENTS" \notin RuleConflicts(o, operations)
    BY DEF RuleConflicts
  <2>2. QED
    BY <1>1, <2>1 DEF Violations
<1>3. Live(v) = Drafts(v) \cup Published(v) /\ (Dispatch(v) = {} <=> Published(v) = {})
  BY LiveIs, DispatchIs
<1>4. Cardinality({}) = 0
  BY FS_EmptySet
<1>5. "MULTIPLE_LIVE_ASSIGNMENTS" \in Judged(v) => Live(v) # {}
  <2>1. SUFFICES ASSUME Live(v) = {} PROVE "MULTIPLE_LIVE_ASSIGNMENTS" \notin Judged(v)
    OBVIOUS
  <2>2. Published(v) = {} /\ Drafts(v) = {}
    BY <1>3, <2>1
  <2>3. Cardinality(Published(v)) = 0 /\ Cardinality(Drafts(v)) = 0
    BY <1>4, <2>2
  <2>4. QED
    BY <1>2, <2>3 DEF Judged, Several
<1>6. StateOf(v) = "UNASSIGNED" <=> Live(v) = {}
  BY <1>3, <1>5 DEF StateOf, OperationState
<1>7. /\ Dispatch(v) # {} => StateOf(v) \in {"READY", "EXCEPTION"}
      /\ StateOf(v) \notin {"READY", "EXCEPTION"} => Dispatch(v) = {}
  BY DEF StateOf, OperationState
<1>8. ASSUME StateOf(v) = "READY" PROVE Dispatch(v) # {} /\ Judged(v) = {} /\ Dispatch(v) = Published(v)
  <2>1. Dispatch(v) # {} /\ Judged(v) = {}
    BY <1>8 DEF StateOf, OperationState
  <2>2. ~ (Cardinality(Published(v)) > 1)
    BY <2>1 DEF Judged, Several
  <2>3. IsFiniteSet(Published(v))
    <3>1. Numbered(v) /\ Published(v) \subseteq rows[v]
      BY DEF RepairInv, RowsInv, Published
    <3>2. PICK m \in Nat : Ids(v) = 1 .. m
      BY <3>1 DEF Numbered
    <3>3. Dated(rows[v], m)
      BY <3>1, <3>2 DEF Dated, Ids, Numbered
    <3>4. QED
      BY <3>1, <3>3, DatedCount, FS_Subset
  <2>4. PICK a \in Dispatch(v) : TRUE
    BY <2>1
  <2>5. a \in Published(v)
    BY <2>4, DispatchIs
  <2>6. Cardinality(Published(v) \ {a}) = Cardinality(Published(v)) - 1 /\ Cardinality(Published(v)) \in Nat
        /\ IsFiniteSet(Published(v) \ {a})
    BY <2>3, <2>5, FS_RemoveElement, FS_CardinalityType
  <2>7. Cardinality(Published(v) \ {a}) \in Nat
    BY <2>6, FS_CardinalityType
  <2>8. Cardinality(Published(v) \ {a}) = 0
    BY <2>2, <2>6, <2>7
  <2>9. Published(v) \ {a} = {}
    BY <2>6, <2>8, FS_EmptySet
  <2>10. QED
    BY <2>1, <2>4, <2>5, <2>9, DispatchIs
<1>9. QED
  BY <1>6, <1>7, <1>8

-----------------------------------------------------------------------------
(* What crews are told is what is dispatched.                                *)

LEMMA CrewsHear ==
  ASSUME RepairInv, StoryInv, NEW date \in Nat
  PROVE  CrewsAreDispatched(Day(date), date)
<1> SUFFICES ASSUME NEW e \in Employee, NEW i \in Day(date)
             PROVE  LET list == EmployeeAssignments(e, date, date)
                        mine == {o \in list : o.visit = i.visit}
                        dispatched == {AsItStands(i.visit, a) : a \in i.dispatch}
                    IN /\ i.state = "READY" =>
                            /\ CalendarAssignment(i.visit) = i.dispatch /\ AssignmentOf(i.visit) = i.dispatch
                            /\ VisitRow(i.visit).crew = UNION {a.crew : a \in i.dispatch}
                            /\ mine = {o \in dispatched : e \in o.crew}
                       /\ mine # {} => i.state = "EXCEPTION" \/ mine = dispatched
  BY DEF CrewsAreDispatched
<1>1. PICK v \in Visit : DayOf[v] = date /\ i = DayItem(v, rows[v], rows[v])
  BY DEF Day
<1>2. i.visit = v /\ i.dispatch = Dispatch(v) /\ i.state = StateOf(v)
  <2>1. i = [visit |-> v, status |-> visits[v].status, dispatch |-> Dispatch(v), proposed |-> Drafts(v),
             violations |-> Judged(v), state |-> StateOf(v),
             history |-> History(PublishedVersions(rows[v]), Dispatch(v))]
    BY <1>1, ItemIs
  <2>2. QED
    BY <2>1
<1> DEFINE list == EmployeeAssignments(e, date, date)
           mine == {o \in list : o.visit = v}
           dispatched == {AsItStands(v, a) : a \in Dispatch(v)}
<1>3. mine = {AsItStands(v, a) : a \in {b \in Published(v) : e \in b.crew}}
  <2>1. \A w, a : AsItStands(w, a).visit = w
    BY DEF AsItStands
  <2>2. DayOf[v] \in date .. date
    BY <1>1
  <2>3. list = UNION {{AsItStands(w, a) : a \in {b \in Published(w) : e \in b.crew}} :
                        w \in {x \in Visit : DayOf[x] \in date .. date}}
    BY DEF EmployeeAssignments
  <2> HIDE DEF list
  <2>4. QED
    BY <2>1, <2>2, <2>3
<1>4. \A a : AsItStands(v, a).crew = a.crew
  BY DEF AsItStands
<1> HIDE DEF list, mine
<1>5. ASSUME StateOf(v) = "READY"
      PROVE  /\ CalendarAssignment(v) = Dispatch(v) /\ AssignmentOf(v) = Dispatch(v)
             /\ VisitRow(v).crew = UNION {a.crew : a \in Dispatch(v)}
             /\ mine = {o \in dispatched : e \in o.crew}
  <2>1. Dispatch(v) # {} /\ Dispatch(v) = Published(v)
    BY <1>5, StateIs
  <2>2. Newest(Live(v)) = Dispatch(v) /\ CalendarAssignment(v) = Dispatch(v) /\ Live(v) # {}
    BY <2>1, LiveIs
  <2>3. AssignmentOf(v) = Dispatch(v) /\ VisitRow(v).crew = UNION {a.crew : a \in Dispatch(v)}
    BY <2>2 DEF AssignmentOf, VisitRow
  <2>4. mine = {o \in dispatched : e \in o.crew}
    BY <1>3, <1>4, <2>1
  <2>5. QED
    BY <2>2, <2>3, <2>4
<1>6. ASSUME mine # {} PROVE StateOf(v) = "EXCEPTION" \/ mine = dispatched
  <2>1. Published(v) # {}
    BY <1>3, <1>6
  <2>2. Dispatch(v) # {} /\ StateOf(v) \in {"READY", "EXCEPTION"}
    BY <2>1, DispatchIs, StateIs
  <2>3. CASE StateOf(v) = "READY"
    <3>1. mine = {o \in dispatched : e \in o.crew} /\ \A a, b \in Dispatch(v) : a = b
      BY <1>5, <2>3, DispatchIs
    <3>2. QED
      BY <1>6, <3>1
  <2>4. QED
    BY <2>2, <2>3
<1>7. QED
  BY <1>2, <1>5, <1>6 DEF mine, list

-----------------------------------------------------------------------------
(* The totals of a day are those of the queue.                               *)

LEMMA ItemOfDay ==
  ASSUME RepairInv, StoryInv, NEW date, NEW i \in Day(date)
  PROVE  /\ i.visit \in Visit /\ DayOf[i.visit] = date /\ i = DayItem(i.visit, rows[i.visit], rows[i.visit])
         /\ i.dispatch = Dispatch(i.visit) /\ i.state = StateOf(i.visit) /\ i.status = visits[i.visit].status
         /\ i.history = History(Versions(i.visit), Dispatch(i.visit))
<1>1. PICK v \in Visit : DayOf[v] = date /\ i = DayItem(v, rows[v], rows[v])
  BY DEF Day
<1>2. i = [visit |-> v, status |-> visits[v].status, dispatch |-> Dispatch(v), proposed |-> Drafts(v),
           violations |-> Judged(v), state |-> StateOf(v), history |-> History(Versions(v), Dispatch(v))]
  BY <1>1, ItemIs DEF Versions
<1>3. /\ i.visit = v /\ i.dispatch = Dispatch(v) /\ i.state = StateOf(v) /\ i.status = visits[v].status
      /\ i.history = History(Versions(v), Dispatch(v))
  BY <1>2
<1>4. QED
  BY <1>1, <1>3

LEMMA DayOfItem ==
  ASSUME RepairInv, StoryInv, NEW v \in Visit
  PROVE  \E i \in Day(DayOf[v]) : i.visit = v
<1>1. DayItem(v, rows[v], rows[v]) \in Day(DayOf[v])
  BY DEF Day
<1>2. DayItem(v, rows[v], rows[v]).visit = v
  <2>1. DayItem(v, rows[v], rows[v]) = [visit |-> v, status |-> visits[v].status, dispatch |-> Dispatch(v),
          proposed |-> Drafts(v), violations |-> Judged(v), state |-> StateOf(v),
          history |-> History(PublishedVersions(rows[v]), Dispatch(v))]
    BY ItemIs
  <2>2. QED
    BY <2>1
<1>3. QED
  BY <1>1, <1>2

LEMMA HistoryOfVisit ==
  ASSUME RepairInv, StoryInv, NEW v \in Visit, History(Versions(v), Dispatch(v)).withdrawn
  PROVE  Live(v) = {} /\ visits[v].reasons # {}
<1>1. Tellable(v)
  BY StoriesAreVersed DEF AllTellable
<1>2. PICK i, m : Versed(Versions(v), First(v), i, m)
  BY <1>1 DEF Tellable, IsVersed
<1>3. m # 0 /\ Dispatch(v) = {}
  BY <1>2, HistoryIs DEF IsTold
<1>4. Versions(v) # {}
  <2>1. 1 \in 1 .. m /\ \E a \in Versions(v) : a.id = 1
    BY <1>2, <1>3 DEF Versed, Dated
  <2>2. QED
    BY <2>1
<1>5. Drafts(v) = {} /\ rows[v] # {} /\ Published(v) = {}
  BY <1>1, <1>3, <1>4, DispatchIs DEF Tellable, Versions, PublishedVersions, Drafts, WithStatus
<1>6. Live(v) = {}
  BY <1>5, LiveIs
<1>7. visits[v].status # "SCHEDULED" /\ (visits[v].status = "UNASSIGNED" /\ rows[v] # {} => visits[v].reasons # {})
  BY <1>6 DEF RepairInv, CalendarHolds, VisitTellsTheTruth
<1>8. visits[v].status # "PENDING" /\ visits[v].status \in VisitStatus
  BY <1>5 DEF StoryInv, StoryOf, Tried, RepairInv, TypeOK, VisitRecord
<1>9. QED
  BY <1>5, <1>6, <1>7, <1>8 DEF VisitStatus

LEMMA TotalsAgree ==
  ASSUME RepairInv, StoryInv, IsFiniteSet(Visit), NEW date, NEW queue,
         queue = {v \in Visit : Live(v) = {} /\ DayOf[v] = date}
  PROVE  Summary(Day(date)).awaitingStaffing + Summary(Day(date)).staffingFailed = Cardinality(queue)
<1> DEFINE items == Day(date)
           pending == Unstaffed(items, "PENDING")
           failed == Unstaffed(items, "UNASSIGNED")
           all == pending \cup failed
           f == [i \in all |-> i.visit]
<1>1. Summary(items).awaitingStaffing = Cardinality(pending) /\ Summary(items).staffingFailed = Cardinality(failed)
  BY DEF Summary
<1>2. \A i \in items : /\ i.visit \in Visit /\ DayOf[i.visit] = date
                       /\ i = DayItem(i.visit, rows[i.visit], rows[i.visit])
                       /\ i.state = StateOf(i.visit) /\ i.status = visits[i.visit].status
                       /\ (i.state = "UNASSIGNED" <=> Live(i.visit) = {})
  BY ItemOfDay, StateIs
<1>3. \A v \in queue : \E i \in items : i.visit = v
  BY DayOfItem
<1>4. \A v \in queue : visits[v].status \in {"PENDING", "UNASSIGNED"}
  BY DEF RepairInv, TypeOK, VisitRecord, VisitStatus, CalendarHolds, VisitTellsTheTruth
<1> HIDE DEF items
<1>5. f \in Injection(all, queue) /\ f \in Surjection(all, queue)
  <2>1. \A i \in all : i \in items /\ i.visit \in queue
    BY <1>2 DEF Unstaffed
  <2>2. \A i, j \in all : i.visit = j.visit => i = j
    BY <1>2, <2>1
  <2>3. \A v \in queue : \E i \in all : i.visit = v
    BY <1>2, <1>3, <1>4 DEF Unstaffed
  <2> HIDE DEF all
  <2>4. QED
    BY <2>1, <2>2, <2>3 DEF Injection, Surjection, IsInjective
<1>6. IsFiniteSet(queue)
  BY FS_Subset
<1>7. IsFiniteSet(all) /\ Cardinality(all) = Cardinality(queue)
  <2> HIDE DEF all, f
  <2>1. QED
    BY <1>5, <1>6, FS_Injection
<1>8. Cardinality(all) = Cardinality(pending) + Cardinality(failed)
  <2>1. IsFiniteSet(pending) /\ IsFiniteSet(failed)
    <3> HIDE DEF pending, failed
    <3>1. QED
      BY <1>7, FS_Subset
  <2>2. pending \cap failed = {}
    BY DEF Unstaffed
  <2>3. Cardinality(pending \cap failed) = 0
    BY <2>2, FS_EmptySet
  <2>4. Cardinality(pending) \in Nat /\ Cardinality(failed) \in Nat
    BY <2>1, FS_CardinalityType
  <2>5. Cardinality(pending \cup failed) = Cardinality(pending) + Cardinality(failed) - Cardinality(pending \cap failed)
    <3> HIDE DEF pending, failed
    <3>1. QED
      BY <2>1, FS_Union
  <2> HIDE DEF pending, failed
  <2>6. QED
    BY <2>3, <2>4, <2>5
<1>9. QED
  BY <1>1, <1>7, <1>8 DEF items

QueueIs(q, date) ==
  Queue(q) = {v \in Visit : /\ Live(v) = {} /\ DayOf[v] = date
                            /\ q.state \in {"ANY", QueueState(v)} /\ q.code \in {"ANY"} \cup visits[v].reasons}

LEMMA NobodyLost ==
  ASSUME RepairInv, StoryInv, IsFiniteSet(Visit), NEW date \in Nat
  PROVE  NobodyIsForgotten(Day(date), date)
<1> DEFINE items == Day(date)
           ofDay == [Anything EXCEPT !.from = date, !.to = date]
           refused == [ofDay EXCEPT !.state = "EXCEPTION"]
           coded(c) == [ofDay EXCEPT !.code = c]
           queue == {v \in Visit : Live(v) = {} /\ DayOf[v] = date}
<1>0. DayOf \in [Visit -> Nat] /\ LastDay \in Nat
  BY RepairAssumption
<1>1. \A v \in Visit : DayOf[v] \in date .. date <=> DayOf[v] = date
  BY <1>0
<1>2. /\ ofDay.state = "ANY" /\ ofDay.code = "ANY" /\ ofDay.from = date /\ ofDay.to = date /\ ofDay.focus = {}
      /\ refused.state = "EXCEPTION" /\ refused.code = "ANY"
      /\ refused.from = date /\ refused.to = date /\ refused.focus = {}
      /\ \A c : /\ coded(c).state = "ANY" /\ coded(c).code = c
               /\ coded(c).from = date /\ coded(c).to = date /\ coded(c).focus = {}
  BY DEF Anything
<1> HIDE DEF ofDay, refused, coded
<1>3. QueueIs(ofDay, date) /\ QueueIs(refused, date) /\ \A c : QueueIs(coded(c), date)
  BY <1>1, <1>2 DEF Queue, QueueIs
<1>14. Queue(ofDay) = queue /\ Queue(coded("ANY")) = queue
  BY <1>2, <1>3 DEF QueueIs
<1>4. \A i \in items : /\ i.visit \in Visit /\ DayOf[i.visit] = date /\ i.state = StateOf(i.visit)
                       /\ (i.state = "UNASSIGNED" <=> Live(i.visit) = {})
                       /\ i.history = History(Versions(i.visit), Dispatch(i.visit))
  BY ItemOfDay, StateIs
<1>5. \A v \in Visit : DayOf[v] = date => \E i \in items : i.visit = v
  BY DayOfItem
<1>6. {i.visit : i \in {j \in items : j.state = "UNASSIGNED"}} = queue
  <2> HIDE DEF items
  <2>1. QED
    BY <1>4, <1>5
<1>7. {e.visit : e \in {d \in Calendar(date, date) : d.assignment = {}}} = queue
  <2>1. \A v \in Visit : /\ CalendarEntry(v).visit = v
                         /\ (CalendarEntry(v).assignment = {} <=> Live(v) = {})
    BY LiveIs DEF CalendarEntry
  <2>2. Calendar(date, date) = {CalendarEntry(v) : v \in {w \in Visit : DayOf[w] = date}}
    BY <1>1 DEF Calendar
  <2>3. QED
    BY <2>1, <2>2
<1>8. {r.visit : r \in {s \in VisitList(date, date, FALSE) : s.crew = {}}} = queue
  <2>1. \A v \in Visit : VisitRow(v).visit = v /\ (VisitRow(v).crew = {} <=> Live(v) = {})
    <3> SUFFICES ASSUME NEW v \in Visit PROVE VisitRow(v).visit = v /\ (VisitRow(v).crew = {} <=> Live(v) = {})
      OBVIOUS
    <3>1. VisitRow(v).visit = v /\ VisitRow(v).crew = UNION {a.crew : a \in Newest(Live(v))}
      BY DEF VisitRow
    <3>2. Live(v) = {} => Newest(Live(v)) = {}
      BY DEF Newest
    <3>3. QED
      BY <3>1, <3>2, LiveIs
  <2> DEFINE list == VisitList(date, date, FALSE)
  <2>2. list = {VisitRow(v) : v \in {w \in Visit : DayOf[w] = date}}
    BY <1>1 DEF VisitList
  <2> HIDE DEF list
  <2>3. {r.visit : r \in {s \in list : s.crew = {}}} = queue
    BY <2>1, <2>2
  <2>4. QED
    BY <2>3 DEF list
<1>9. VisitList(date, date, TRUE) = {r \in VisitList(date, date, FALSE) : r.isProtected}
  <2>1. \A v \in Visit : VisitRow(v).isProtected
                           <=> rows[v] # {} \/ visits[v].status \in {"SCHEDULED", "COMPLETED", "CANCELLED"}
    BY DEF VisitRow
  <2>2. QED
    BY <2>1 DEF VisitList
<1>10. {i.visit : i \in {j \in items : j.history.withdrawn}} \subseteq Queue(refused)
  <2> SUFFICES ASSUME NEW i \in items, i.history.withdrawn
               PROVE  i.visit \in Queue(refused)
    OBVIOUS
  <2>1. i.visit \in Visit /\ DayOf[i.visit] = date /\ Live(i.visit) = {} /\ visits[i.visit].reasons # {}
    BY <1>4, HistoryOfVisit
  <2>2. QueueState(i.visit) = "EXCEPTION"
    BY <2>1 DEF QueueState
  <2>3. QED
    BY <1>2, <1>3, <2>1, <2>2 DEF QueueIs
<1>11. Summary(items).awaitingStaffing + Summary(items).staffingFailed = Cardinality(queue)
  BY TotalsAgree
<1>12. ASSUME NEW c \in UNION {visits[v].reasons : v \in queue}
       PROVE  Facet(ofDay, c) = Cardinality(Queue(coded(c)))
  <2>1. c = "withdrawn"
    BY DEF RepairInv, TypeOK, VisitRecord
  <2>2. Queue(coded(c)) = {v \in queue : c \in visits[v].reasons}
    BY <1>2, <1>3, <2>1 DEF QueueIs
  <2>3. Facet(ofDay, c) = Cardinality({v \in Queue(coded("ANY")) : c \in visits[v].reasons})
    BY DEF Facet, coded
  <2>4. QED
    BY <1>14, <2>2, <2>3
<1> HIDE DEF items, queue
<1>13. QED
  BY <1>14, <1>6, <1>7, <1>8, <1>9, <1>10, <1>11, <1>12 DEF NobodyIsForgotten, items, ofDay, refused, coded

-----------------------------------------------------------------------------
(* Every screen tells the story whole.                                       *)

\* An item whose history is of what is in force now, or was a step ago.
LEMMA ItemIsWhole ==
  ASSUME StoriesFit, RepairInv, StoryInv, NEW v \in Visit, NEW versions, NEW m, NEW n,
         IsVersed(PublishedVersions(versions), n), Dated(PublishedVersions(versions), m), n < MaxLineage,
         \A a \in Dispatch(v) : a.id \in 1 .. m /\ a.id >= n /\ a.id >= m - 1
  PROVE  StoryIsWhole(DayItem(v, rows[v], versions), versions)
<1> DEFINE item == DayItem(v, rows[v], versions)
           S == PublishedVersions(versions)
<1>1. item = [visit |-> v, status |-> visits[v].status, dispatch |-> Dispatch(v), proposed |-> Drafts(v),
              violations |-> Judged(v), state |-> StateOf(v), history |-> History(S, Dispatch(v))]
  BY ItemIs
<1> HIDE DEF item
<1>2. item.dispatch = Dispatch(v) /\ item.history = History(S, Dispatch(v))
  BY <1>1
<1>3. PICK i, k : Versed(S, n, i, k)
  BY DEF IsVersed
<1>4. k = m
  BY <1>3, DatedCount DEF Versed
<1>5. Versed(S, n, i, m)
  BY <1>3, <1>4
<1> HIDE DEF S
<1>6. ASSUME NEW a \in item.dispatch PROVE \E j \in Omitted(m) + 1 .. m : Order(n, i, m)[j] = a.id
  <2>1. a.id \in 1 .. m /\ a.id >= n /\ a.id >= m - 1 /\ MaxLineage >= 2
    BY <1>2 DEF StoriesFit
  <2>2. QED
    BY <1>5, <2>1, Placed
<1>7. StoryIsWhole(item, versions)
  <2>1. PublishedVersions(versions) = S
    BY DEF S
  <2>2. item.history = History(S, item.dispatch)
    BY <1>2
  <2>3. QED
    BY <1>5, <1>6, <2>1, <2>2, StoryIsTold
<1>8. QED
  BY <1>7 DEF item

LEMMA VisitStoryIsWhole ==
  ASSUME StoriesFit, RepairInv, StoryInv, NEW v \in Visit
  PROVE  StoryIsWhole(DayItem(v, rows[v], rows[v]), rows[v])
<1>1. Tellable(v) /\ Before(v) \in Nat /\ Before(v) < MaxLineage /\ MaxLineage \in Nat
  BY StoriesAreVersed, BeforeIs, LineageAssumption DEF AllTellable, StoriesFit
<1>2. PICK m : Dated(Versions(v), m)
  BY <1>1 DEF Tellable, IsVersed, Versed
<1>3. ASSUME NEW a \in Dispatch(v)
      PROVE  a.id \in 1 .. m /\ a.id >= First(v) /\ a.id >= m - 1
  <2>1. a \in Published(v) /\ Versions(v) = rows[v]
    BY DispatchIs
  <2>2. a \in rows[v] /\ First(v) = Before(v)
    BY <2>1 DEF Published, First
  <2>3. a.id = m /\ a.id >= Before(v)
    BY <1>2, <2>1, DispatchIs
  <2>4. QED
    BY <1>2, <2>1, <2>2, <2>3 DEF Dated
<1>4. First(v) < MaxLineage
  BY <1>1 DEF First
<1>5. IsVersed(Versions(v), First(v))
  BY <1>1 DEF Tellable
<1>6. QED
  BY <1>2, <1>3, <1>4, <1>5, ItemIsWhole DEF Versions

(* OneStoryIsTold: the dispatch board of a day, the calendar, the visit and   *)
(* the queue with its facets pick the same assignment of each visit, count    *)
(* the same visits, and the history beside it is whole and in order.          *)
THEOREM OneStoryIsTold == ASSUME StoriesFit PROVE Spec => []ViewsTellOneStory
<1>1. RepairInv /\ StoryInv => ViewsTellOneStory
  <2> SUFFICES ASSUME RepairInv, StoryInv, NEW date \in Range(DayOf)
               PROVE  /\ NobodyIsForgotten(Day(date), date) /\ CrewsAreDispatched(Day(date), date)
                      /\ \A i \in Day(date) : StoryIsWhole(i, rows[i.visit])
    BY DEF ViewsTellOneStory
  <2>1. date \in Nat
    BY RepairAssumption DEF Range
  <2>2. NobodyIsForgotten(Day(date), date) /\ CrewsAreDispatched(Day(date), date)
    BY <2>1, NobodyLost, CrewsHear DEF StoriesFit
  <2>3. ASSUME NEW i \in Day(date) PROVE StoryIsWhole(i, rows[i.visit])
    <3>1. i.visit \in Visit /\ i = DayItem(i.visit, rows[i.visit], rows[i.visit])
      BY ItemOfDay
    <3>2. StoryIsWhole(DayItem(i.visit, rows[i.visit], rows[i.visit]), rows[i.visit])
      BY <3>1, VisitStoryIsWhole
    <3>3. QED
      BY <3>1, <3>2
  <2>4. QED
    BY <2>2, <2>3
<1>2. QED
  BY <1>1, RepairHolds, StoryHolds, PTL

-----------------------------------------------------------------------------
(* The portal claims no more than it is told.                                *)

LEMMA PortalClaims ==
  ASSUME RepairInv, StoryInv, NEW v \in Visit, NEW versions, NEW n, NEW i, NEW m,
         Versed(PublishedVersions(versions), n, i, m),
         StoryIsWhole(DayItem(v, rows[v], versions), versions)
  PROVE  ClaimsNoMore(DayItem(v, rows[v], versions), versions)
<1> DEFINE item == DayItem(v, rows[v], versions)
           S == PublishedVersions(versions)
           h == item.history
           RH(fields, unread) == ReceivedHistory(h, fields, unread)
<1>1. item = [visit |-> v, status |-> visits[v].status, dispatch |-> Dispatch(v), proposed |-> Drafts(v),
              violations |-> Judged(v), state |-> StateOf(v), history |-> History(S, Dispatch(v))]
  BY ItemIs
<1>2. /\ item.dispatch = Dispatch(v) /\ h = History(S, Dispatch(v)) /\ item.state = StateOf(v)
      /\ item.proposed = Drafts(v) /\ item.violations = Judged(v)
  <2> HIDE DEF item
  <2>1. QED
    BY <1>1
<1>3. /\ h.entries \in Seq(S) /\ h.omitted \in Nat /\ h.withdrawn \in BOOLEAN
      /\ h.current \subseteq {a.id : a \in Range(h.entries)} /\ h.current \subseteq {a.id : a \in Dispatch(v)}
      /\ h.withdrawn => h.entries # <<>> /\ h.current = {} /\ Dispatch(v) = {}
      /\ h = [entries |-> h.entries, omitted |-> h.omitted, current |-> h.current, withdrawn |-> h.withdrawn]
      /\ Len(h.entries) + h.omitted = Cardinality(S)
  <2> HIDE DEF item
  <2>1. /\ m \in Nat /\ Omitted(m) \in 0 .. m /\ (m # 0 => Omitted(m) < m)
        /\ h.entries \in Seq(S) /\ Len(h.entries) = m - Omitted(m) /\ h.omitted = Omitted(m)
        /\ h.current = {a.id : a \in Dispatch(v)} \cap {a.id : a \in Range(h.entries)}
        /\ h.withdrawn <=> m # 0 /\ Dispatch(v) = {}
    BY <1>2, HistoryIs DEF IsTold
  <2>2. /\ h = [entries |-> h.entries, omitted |-> h.omitted, current |-> h.current, withdrawn |-> h.withdrawn]
        /\ h.withdrawn \in BOOLEAN
    BY <1>2 DEF History
  <2>3. Len(h.entries) + h.omitted = Cardinality(S)
    BY DEF StoryIsWhole, item
  <2> HIDE DEF h, S
  <2>4. h.withdrawn => h.entries # <<>>
    BY <2>1
  <2>5. h.omitted \in Nat /\ h.entries \in Seq(S)
    BY <2>1
  <2>6. /\ h.current \subseteq {a.id : a \in Range(h.entries)} /\ h.current \subseteq {a.id : a \in Dispatch(v)}
        /\ Dispatch(v) = {} => h.current = {}
    BY <2>1
  <2>7. h.withdrawn => Dispatch(v) = {}
    BY <2>1
  <2>8. QED
    BY <2>2, <2>3, <2>4, <2>5, <2>6, <2>7
<1>4. ASSUME NEW fields, NEW unread
      PROVE  /\ fields = {} /\ unread = {} => RH(fields, unread) = h
             /\ fields = {} => Len(RH(fields, unread).entries) + RH(fields, unread).omitted = Cardinality(S)
             /\ RH(fields, unread).withdrawn => Dispatch(v) = {}
             /\ RH(fields, unread).current \subseteq {a.id : a \in Dispatch(v)}
  <2> HIDE DEF h, S
  <2> DEFINE hist == [entries |-> h.entries, omitted |-> h.omitted, current |-> h.current, withdrawn |-> h.withdrawn]
  <2>1. LET read == ReceivedHistory(hist, fields, unread)
        IN /\ fields = {} /\ unread = {} => read = hist
           /\ fields = {} => Len(read.entries) + read.omitted = Len(h.entries) + h.omitted
           /\ read.withdrawn => h.withdrawn
           /\ read.current \subseteq h.current
    BY <1>3, ReceivedHistoryIs
  <2>2. hist = h
    BY <1>3
  <2> HIDE DEF hist
  <2>3. QED
    BY <1>3, <2>1, <2>2
<1> HIDE DEF h, S, item
<1> DEFINE known(fields) == IF "state" \in fields THEN "UNASSIGNED" ELSE StateOf(v)
<1>5. ASSUME NEW fields, NEW unread
      PROVE  LET shown == Received(item, fields, unread)
             IN /\ shown.state = known(fields)
                /\ shown.dispatch = IF known(fields) \in {"READY", "EXCEPTION"}
                                    THEN ReceivedAssignment(Dispatch(v), unread) ELSE {}
                /\ shown.violations = IF "violations" \in fields THEN {} ELSE Judged(v)
                /\ shown.history = RH(fields, unread)
  BY <1>1, <1>2 DEF Received, h
<1>6. Received(item, {}, {}) = item
  <2>1. RH({}, {}) = h
    BY <1>4
  <2>2. ReceivedAssignment(Dispatch(v), {}) = Dispatch(v) /\ ReceivedAssignment(Drafts(v), {}) = Drafts(v)
    BY DEF ReceivedAssignment
  <2>3. (IF StateOf(v) \in {"READY", "EXCEPTION"} THEN Dispatch(v) ELSE {}) = Dispatch(v)
    BY StateIs
  <2>4. Received(item, {}, {}) =
          [item EXCEPT !.state = item.state, !.dispatch = item.dispatch, !.proposed = item.proposed,
                       !.violations = item.violations, !.history = item.history]
    BY <1>2, <2>1, <2>2, <2>3 DEF Received, h
  <2>5. QED
    BY <1>1, <2>4
<1>7. isDispatchableOperation(item) <=> item.state = "READY"
  <2>1. StateOf(v) = "READY" => Dispatch(v) # {} /\ Judged(v) = {}
    BY StateIs
  <2>2. WithStatus(Dispatch(v), "PUBLISHED") = Dispatch(v)
    BY DispatchIs DEF WithStatus, Published
  <2>3. QED
    BY <1>2, <2>1, <2>2 DEF isDispatchableOperation
<1>8. ASSUME NEW a \in versions
      PROVE  LET told == Received(item, {}, {a.id}).history IN Len(told.entries) + told.omitted = Cardinality(S)
  BY <1>4, <1>5
<1>9. ASSUME NEW fields, NEW unread
      PROVE  LET shown == Received(item, fields, unread)
             IN /\ isDispatchableOperation(shown) => item.state = "READY" /\ shown.dispatch = item.dispatch
                /\ shown.history.withdrawn => item.dispatch = {}
                /\ shown.history.current \subseteq {a.id : a \in item.dispatch}
  <2> DEFINE shown == Received(item, fields, unread)
  <2>1. /\ shown.state = known(fields)
        /\ shown.dispatch = IF known(fields) \in {"READY", "EXCEPTION"}
                            THEN ReceivedAssignment(Dispatch(v), unread) ELSE {}
        /\ shown.history = RH(fields, unread)
    BY <1>5
  <2> HIDE DEF shown
  <2>2. ASSUME isDispatchableOperation(shown) PROVE item.state = "READY" /\ shown.dispatch = item.dispatch
    <3>1. known(fields) = "READY" /\ shown.dispatch # {}
      BY <2>1, <2>2 DEF isDispatchableOperation, WithStatus
    <3>2. StateOf(v) = "READY"
      BY <3>1
    <3>3. shown.dispatch = ReceivedAssignment(Dispatch(v), unread)
      BY <2>1, <3>1
    <3>4. shown.dispatch = Dispatch(v)
      BY <3>1, <3>3, DispatchIs DEF ReceivedAssignment
    <3>5. QED
      BY <1>2, <3>2, <3>4
  <2>3. /\ shown.history.withdrawn => item.dispatch = {}
        /\ shown.history.current \subseteq {a.id : a \in item.dispatch}
    BY <1>2, <1>4, <2>1
  <2>4. QED
    BY <2>2, <2>3 DEF shown
<1>10. ClaimsNoMore(item, versions)
  <2> DEFINE modest(shown) ==
               /\ isDispatchableOperation(shown) => item.state = "READY" /\ shown.dispatch = item.dispatch
               /\ shown.history.withdrawn => item.dispatch = {}
               /\ shown.history.current \subseteq {a.id : a \in item.dispatch}
             all == {Received(item, fields, {}) : fields \in Losses} \cup {Received(item, {}, {a.id}) : a \in versions}
  <2>1. \A shown \in all : modest(shown)
    <3>1. \A fields, unread : modest(Received(item, fields, unread))
      BY <1>9
    <3> HIDE DEF modest
    <3>2. QED
      BY <3>1
  <2>2. \A a \in versions :
          LET told == Received(item, {}, {a.id}).history
          IN Len(told.entries) + told.omitted = Cardinality(PublishedVersions(versions))
    BY <1>8 DEF S
  <2>3. QED
    BY <1>6, <1>7, <2>1, <2>2 DEF ClaimsNoMore
<1>11. QED
  BY <1>10 DEF item
-----------------------------------------------------------------------------
(* The story grows. *)

\* What was in force in the first query is the newest or the last but one of the
\* second.
LEMMA StoryGrows ==
  ASSUME RepairInv, StoryInv, RepairInv', [Next]_vars, NEW v \in Visit, NEW a \in Published(v)
  PROVE  /\ PublishedVersions(rows'[v]) # {}
         /\ \A m : Dated(rows'[v], m) => a.id \in 1 .. m
         /\ \A k, m : Dated(rows[v], k) /\ Dated(rows'[v], m) => k >= m - 1
<1>0. a \in rows[v] /\ a.status = "PUBLISHED" /\ a \in Row
  BY DEF Published, RepairInv, TypeOK
<1>1. \E b \in rows'[v] : b.id = a.id /\ b.status # "DRAFT"
  <2>1. a \in rows'[v] \/ [a EXCEPT !.status = "SUPERSEDED"] \in rows'[v]
    BY <1>0, StepKeepsHistory DEF HistoryStays
  <2>2. [a EXCEPT !.status = "SUPERSEDED"].id = a.id /\ [a EXCEPT !.status = "SUPERSEDED"].status = "SUPERSEDED"
    BY <1>0 DEF Row
  <2>3. QED
    BY <1>0, <2>1, <2>2
<1>2. ASSUME NEW k, NEW m, Dated(rows[v], k), Dated(rows'[v], m) PROVE k >= m - 1
  <2>1. k \in Nat /\ m \in Nat
    BY <1>2 DEF Dated
  <2>2. ASSUME NEW c \in Call, Land(c) PROVE \A b \in rows'[v] : b.id <= k + 1
    <3>1. rows'[v] = {After(c, v, x) : x \in rows[v]} \cup {Successor(o) : o \in Heirs(c, v)}
      BY <2>2, LandWrites
    <3>2. \A x \in rows[v] : After(c, v, x).id <= k + 1
      BY <1>2, <2>1, AfterKeeps DEF Dated
    <3>3. \A o \in Heirs(c, v) : Successor(o).id <= k + 1
      <4>1. Cardinality(rows[v]) = k
        BY <1>2, DatedCount
      <4>2. \A o \in Heirs(c, v) : o.visit = v
        BY DEF Heirs
      <4>3. NextId(v) = k + 1
        BY <4>1 DEF NextId
      <4>4. \A o : Successor(o).id = NextId(o.visit)
        BY SuccessorIs
      <4> HIDE DEF Successor, Heirs
      <4>5. QED
        BY <2>1, <4>2, <4>3, <4>4
    <3> HIDE DEF After, Successor, Heirs
    <3>4. QED
      BY <3>1, <3>2, <3>3
  <2>3. ASSUME NEW w \in Visit, Drafting(w) PROVE rows'[v] = rows[v]
    <3>1. CASE w # v
      BY <2>3, <3>1, DraftingKeeps DEF OnlyVisit
    <3>2. CASE w = v
      <4>1. \A b \in rows[v] : b.status # "DRAFT"
        BY <1>0 DEF RepairInv, RowsInv, Drafted
      <4>2. ~ PublishDraft(v) /\ ~ Unbook(v)
        BY <4>1 DEF PublishDraft, Unbook
      <4>3. \A crew, pinned : ~ Book(v, crew, pinned)
        BY <1>0 DEF Book
      <4>4. SetLocked(v) => rows' = rows
        BY DEF SetLocked
      <4>5. QED
        BY <2>3, <3>2, <4>2, <4>3, <4>4 DEF Drafting
    <3>3. QED
      BY <3>1, <3>2
  <2>4. ASSUME rows'[v] = rows[v] PROVE \A b \in rows'[v] : b.id <= k + 1
    BY <1>2, <2>1, <2>4 DEF Dated
  <2>5. Quiet => rows'[v] = rows[v]
    BY DEF Quiet
  <2>6. \A b \in rows'[v] : b.id <= k + 1
    BY <2>2, <2>3, <2>4, <2>5, Steps, ConversesIsQuiet
  <2>7. m # 0 => \E b \in rows'[v] : b.id = m
    BY <1>2, <2>1 DEF Dated
  <2>8. QED
    BY <2>1, <2>6, <2>7
<1>3. PublishedVersions(rows'[v]) # {}
  BY <1>1 DEF PublishedVersions
<1>4. ASSUME NEW m, Dated(rows'[v], m) PROVE a.id \in 1 .. m
  BY <1>1, <1>4 DEF Dated
<1>5. QED
  BY <1>2, <1>3, <1>4

LEMMA StoryStaysWhole ==
  ASSUME StoriesFit, RepairInv, StoryInv, RepairInv', StoryInv', [Next]_vars, NEW v \in Visit
  PROVE  /\ StoryIsWhole(DayItem(v, rows[v], rows'[v]), rows'[v])
         /\ ClaimsNoMore(DayItem(v, rows[v], rows'[v]), rows'[v])
<1> DEFINE S == PublishedVersions(rows'[v])
           n == IF S = {} THEN 0 ELSE Before(v)
<1>1. (S = {} \/ S = rows'[v]) /\ IsVersed(S, n)
  <2>1. AllTellable'
    BY StoriesAreVersed, PTL
  <2>2. Tellable(v)'
    BY <2>1 DEF AllTellable
  <2>3. QED
    BY <2>2 DEF Tellable, Versions, First, Before
<1>2. PICK i, m : Versed(S, n, i, m)
  BY <1>1 DEF IsVersed
<1>3. Before(v) \in Nat /\ Before(v) < MaxLineage /\ MaxLineage \in Nat /\ Dated(S, m) /\ m \in Nat
  BY <1>2, BeforeIs, LineageAssumption DEF StoriesFit, Versed, Dated
<1>4. ASSUME NEW a \in Dispatch(v) PROVE a.id \in 1 .. m /\ a.id >= n /\ a.id >= m - 1
  <2>1. a \in Published(v) /\ Versions(v) = rows[v] /\ a \in rows[v]
    BY DispatchIs DEF Published
  <2>2. S # {}
    BY <2>1, StoryGrows
  <2>3. S = rows'[v] /\ n = Before(v) /\ Dated(rows'[v], m)
    BY <1>1, <1>3, <2>2
  <2>4. PICK k : Dated(rows[v], k)
    <3>1. Tellable(v)
      BY StoriesAreVersed DEF AllTellable
    <3>2. QED
      BY <2>1, <3>1 DEF Tellable, IsVersed, Versed
  <2>5. a.id = k /\ a.id >= Before(v)
    BY <2>4, DispatchIs
  <2>6. a.id \in 1 .. m /\ k >= m - 1
    BY <2>1, <2>3, <2>4, StoryGrows
  <2>7. QED
    BY <2>3, <2>5, <2>6
<1>5. n < MaxLineage
  BY <1>3
<1> HIDE DEF n
<1>6. StoryIsWhole(DayItem(v, rows[v], rows'[v]), rows'[v])
  BY <1>1, <1>3, <1>4, <1>5, ItemIsWhole
<1>7. QED
  BY <1>2, <1>6, PortalClaims

(* HistoryIsAlwaysTold: a history read while repairs commit between the two   *)
(* queries of a day is whole, in the order in which versions replaced each    *)
(* other, and of a response it can read only in part the portal claims no     *)
(* more than the API told.                                                    *)
THEOREM HistoryIsAlwaysTold == ASSUME StoriesFit PROVE Spec => HistoryIsTold
<1>1. RepairInv /\ StoryInv /\ RepairInv' /\ StoryInv' /\ [Next]_vars =>
        [\A v \in Visit : rows'[v] # rows[v] =>
           \A item \in {DayItem(v, rows[v], rows'[v])} :
             /\ StoryIsWhole(item, rows'[v])
             /\ PublishedVersions(rows'[v]) # PublishedVersions(rows[v]) => ClaimsNoMore(item, rows'[v])]_vars
  BY StoryStaysWhole
<1>2. QED
  BY <1>1, RepairHolds, StoryHolds, HistoryNeverChanges, PTL DEF Spec, HistoryIsTold
=============================================================================
