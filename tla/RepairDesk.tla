----------------------------- MODULE RepairDesk -----------------------------
(***************************************************************************)
(* The repair centre (published-assignment-repairs/page.tsx) with what the *)
(* API does with its requests: findings page by page, a selection, a plan  *)
(* that is reviewed, and its application under an idempotency key.         *)
(***************************************************************************)
EXTENDS Browser

CONSTANTS
  Finding,     \* published assignments with a finding that can be selected
  Today,       \* those of them for work of today, dispatched already
  Key          \* idempotency keys the browser creates

ASSUME DeskAssumption == None # "conflict"

around == <<screen, lists, pager, polls, editor>>

NewDesk ==
  [findings |-> {}, page |-> 0, loading |-> TRUE, more |-> FALSE, error |-> FALSE,
   selected |-> {}, plan |-> None, key |-> None, planning |-> FALSE, reason |-> 0, confirmed |-> FALSE,
   today |-> FALSE, turned |-> FALSE, applying |-> FALSE, failed |-> FALSE, result |-> None, message |-> "none", used |-> {}]

\* What the API has: the repairs applied, by key, and what was superseded.
NewServer == [repairs |-> {}, superseded |-> {}]

Send(kind, of) == wire \cup {[kind |-> kind, of |-> of, answer |-> None]}
Replied(c) == c.answer # None

-----------------------------------------------------------------------------
(* The API.  Its requests may be answered and the answer lost.             *)

\* Findings are what is still in force; a plan is for the sources asked for.
Serve(c) ==
  /\ screen = "desk" /\ ~Replied(c) /\ c.kind \in {"findings", "more", "again", "plan"}
  /\ wire' = (wire \ {c}) \cup
       {[c EXCEPT !.answer =
           IF c.kind = "plan"
             THEN IF c.of \cap server.superseded = {} THEN [ok |-> TRUE, plan |-> c.of]
                  ELSE [ok |-> FALSE, plan |-> {}]
             ELSE [ok |-> TRUE, plan |-> Finding \ server.superseded]]}
  /\ UNCHANGED <<clicks, desk, server, around>>

\* A key that was used before gets its recorded result, for the same request
\* only; a plan whose sources have changed is refused; or it is applied.
ServeApply(c) ==
  /\ screen = "desk" /\ ~Replied(c) /\ c.kind = "apply"
  /\ LET known  == {r \in server.repairs : r.key = c.of.key}
         answer == IF known # {} THEN IF c.of \in known THEN "applied" ELSE "conflict"
                   ELSE IF c.of.plan.sources \cap server.superseded # {} THEN "conflict" ELSE "applied"
     IN  /\ wire' = (wire \ {c}) \cup {[c EXCEPT !.answer = answer]}
         /\ server' = IF answer = "applied" /\ known = {}
                        THEN [repairs |-> server.repairs \cup {c.of},
                              superseded |-> server.superseded \cup c.of.plan.sources]
                        ELSE server
  /\ UNCHANGED <<clicks, desk, around>>

\* Somebody else repairs or withdraws one of them.
OthersRepair(f) ==
  /\ screen = "desk" /\ Click /\ f \notin server.superseded
  /\ server' = [server EXCEPT !.superseded = @ \cup {f}]
  /\ UNCHANGED <<wire, desk, around>>

-----------------------------------------------------------------------------
(* Findings.                                                               *)

\* load: the first page, from nothing.
Fresh(d) == [d EXCEPT !.page = 0, !.loading = TRUE, !.error = FALSE]

MayRefresh == ~desk.loading /\ ~desk.more
Refresh ==
  /\ screen = "desk" /\ Click /\ MayRefresh
  /\ desk' = Fresh(desk) /\ wire' = Send("findings", 1)
  /\ UNCHANGED <<server, around>>
MayLoadMore == ~desk.loading /\ ~desk.more /\ ~desk.error /\ desk.page > 0
LoadMore ==
  /\ screen = "desk" /\ Click /\ MayLoadMore
  /\ desk' = [desk EXCEPT !.more = TRUE] /\ wire' = Send("more", desk.page + 1)
  /\ UNCHANGED <<server, around>>

\* A further page is merged by assignment; the first page replaces the list.
FindingsArrive(c) ==
  /\ screen = "desk" /\ Replied(c) /\ c.kind \in {"findings", "more", "again"}
  /\ wire' = wire \ {c}
  /\ desk' = IF c.kind = "more"
               THEN [desk EXCEPT !.more = FALSE, !.page = c.of, !.findings = @ \cup c.answer.plan]
               ELSE [desk EXCEPT !.loading = FALSE, !.page = 1, !.findings = c.answer.plan,
                                  !.applying = @ /\ c.kind # "again"]
  /\ UNCHANGED <<clicks, server, around>>
FindingsFail(c) ==
  /\ screen = "desk" /\ c.kind \in {"findings", "more", "again"}
  /\ wire' = wire \ {c}
  /\ desk' = IF c.kind = "more" THEN [desk EXCEPT !.more = FALSE]
             ELSE [desk EXCEPT !.loading = FALSE, !.error = TRUE, !.applying = @ /\ c.kind # "again"]
  /\ UNCHANGED <<clicks, server, around>>

-----------------------------------------------------------------------------
(* Selection and plan.                                                     *)

NoPlan(d) == [d EXCEPT !.plan = None, !.key = None, !.reason = 0, !.confirmed = FALSE]
discardPlan(d) == [NoPlan(d) EXCEPT !.failed = FALSE]

\* The list is away while it loads, and after it failed.
Listed == IF desk.loading \/ desk.error THEN {} ELSE desk.findings

\* Selecting, also while a plan is being built: the plan on show goes.
ToggleFinding(f) ==
  /\ screen = "desk" /\ Click /\ f \in Listed
  /\ desk' = discardPlan([desk EXCEPT !.result = None, !.message = "none",
                            !.selected = IF f \in @ THEN @ \ {f} ELSE @ \cup {f}])
  /\ UNCHANGED <<wire, server, around>>

\* Work of today needs a tick of its own; moving it discards the plan on show,
\* not the one being built.
Selected == desk.selected \cap desk.findings
IncludesToday == Selected \cap Today # {}
AcknowledgeToday ==
  /\ screen = "desk" /\ Click /\ Listed # {} /\ IncludesToday
  /\ desk' = discardPlan([desk EXCEPT !.today = ~@, !.turned = desk.planning])
  /\ UNCHANGED <<wire, server, around>>

MayBuild == Listed # {} /\ Selected # {} /\ (IncludesToday => desk.today) /\ ~desk.planning
BuildPlan ==
  /\ screen = "desk" /\ Click /\ MayBuild
  /\ desk' = [desk EXCEPT !.planning = TRUE, !.turned = FALSE, !.failed = FALSE, !.result = None, !.message = "none"]
  /\ wire' = Send("plan", Selected)
  /\ UNCHANGED <<server, around>>

\* The plan arrives with a key of its own, whatever has been selected since.
PlanArrives(c) ==
  /\ screen = "desk" /\ c.kind = "plan" /\ Replied(c)
  /\ wire' = wire \ {c}
  /\ IF c.answer.ok
       THEN \E k \in Key \ desk.used :
              desk' = [NoPlan(desk) EXCEPT !.planning = FALSE, !.key = k,
                                           !.plan = [sources |-> c.answer.plan, made |-> k, turned |-> desk.turned],
                                           !.used = @ \cup {k}]
       ELSE desk' = [desk EXCEPT !.planning = FALSE, !.plan = None, !.key = None]
  /\ UNCHANGED <<clicks, server, around>>
PlanFails(c) ==
  /\ screen = "desk" /\ c.kind = "plan"
  /\ wire' = wire \ {c}
  /\ desk' = [desk EXCEPT !.planning = FALSE, !.plan = None, !.key = None]
  /\ UNCHANGED <<clicks, server, around>>

-----------------------------------------------------------------------------
(* Applying.                                                               *)

\* The reason is typed, or typed anew, and the review confirmed.
Confirm(words) ==
  /\ screen = "desk" /\ Click /\ desk.plan # None /\ words # desk.reason
  /\ desk' = [desk EXCEPT !.reason = words, !.confirmed = TRUE]
  /\ UNCHANGED <<wire, server, around>>

CanApply == desk.plan # None /\ desk.key # None /\ desk.confirmed /\ desk.reason # 0 /\ ~desk.applying
Apply ==
  /\ screen = "desk" /\ Click /\ CanApply
  /\ desk' = [desk EXCEPT !.applying = TRUE, !.failed = FALSE, !.message = "none"]
  /\ wire' = Send("apply", [key |-> desk.key, plan |-> desk.plan, reason |-> desk.reason])
  /\ UNCHANGED <<server, around>>

\* Applied, or refused because the schedule has changed: the plan and its key
\* go, nothing stays selected, and the button waits for the findings to be
\* loaded again.
ApplyArrives(c) ==
  /\ screen = "desk" /\ c.kind = "apply" /\ Replied(c)
  /\ desk' = Fresh([NoPlan(desk) EXCEPT !.selected = {}, !.today = FALSE, !.turned = desk.planning,
                      !.result = IF c.answer = "applied" THEN c.of ELSE @,
                      !.message = IF c.answer = "conflict" THEN "changed" ELSE @])
  /\ wire' = (wire \ {c}) \cup {[kind |-> "again", of |-> 1, answer |-> None]}
  /\ UNCHANGED <<clicks, server, around>>

\* Any other failure keeps the plan and its key, so that the retry is the same
\* request.
KeyKept(d) == d

\* The request or its answer is lost.
ApplyFails(c) ==
  /\ screen = "desk" /\ c.kind = "apply"
  /\ wire' = wire \ {c}
  /\ desk' = KeyKept([desk EXCEPT !.applying = FALSE, !.failed = TRUE])
  /\ UNCHANGED <<clicks, server, around>>

-----------------------------------------------------------------------------
(* What must hold.                                                         *)

\* The message that the schedule changed is true: a plan about to be discarded
\* as stale has not been applied by an earlier try of this very page whose
\* answer was lost, unless the words of the reason were changed between the two.
StaleMeansNotApplied ==
  screen = "desk" =>
    \A c \in wire : c.kind = "apply" /\ c.answer = "conflict" =>
      ~ \E r \in server.repairs : r.plan = c.of.plan /\ r.reason = c.of.reason

\* A plan that touches work of today is on show, and can be applied, only under
\* the tick for it (page.tsx, discardPlan); unless the tick went, by hand or with
\* an apply, while that plan was being built, which the page overlooks.
TodayIsAcknowledged ==
  screen = "desk" =>
    (desk.plan # None /\ ~desk.plan.turned => desk.plan.sources \cap Today = {} \/ desk.today)

=============================================================================
