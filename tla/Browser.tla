------------------------------ MODULE Browser ------------------------------
(***************************************************************************)
(* One screen of the manager portal in a browser (apps/manager-web).       *)
(*                                                                         *)
(* Requests are answered in any order, or fail; what was changed in the    *)
(* meantime is the user's business.  A render and the effects it runs are  *)
(* one step with the event that caused them: React runs them before the    *)
(* next click.  Handlers that wait for an answer resume with the values of *)
(* the render they were made in; such values travel with the request.      *)
(***************************************************************************)
EXTENDS Naturals, FiniteSets, Sequences, SequencesExt, FiniteSetsExt

CONSTANTS
  None,
  MaxClicks    \* bound: how often the user does something, for each screen

VARIABLES
  screen,      \* the screen that is open
  clicks,      \* what the user has done so far
  wire,        \* requests in flight: [kind, of, current, ...]
  lists,       \* the screens that show a list under filters
  pager,       \* schedule-history: the run list and its poll
  polls,       \* its requests in flight, in the order they were made
  editor,      \* the crew editor of a visit
  desk,        \* the repair centre
  server       \* what the API has, where a screen depends on it

portal == <<screen, clicks, wire, lists, pager, polls, editor, desk, server>>

\* A generation fence: one counter per kind of request.  Making a request, or
\* cleaning up after one, moves the counter on and leaves every earlier request
\* of the kind behind; what its answer would do is dropped.
Superseded(kinds) ==
  {IF c.kind \in kinds THEN [c EXCEPT !.current = FALSE] ELSE c : c \in wire}
Asked(kinds, q) ==
  Superseded(kinds) \cup {[kind |-> k, of |-> q, current |-> TRUE] : k \in kinds}

\* Something the user does.  He stops at some point; what is on its way does not.
Click == clicks < MaxClicks[screen] /\ clicks' = clicks + 1

=============================================================================
