---------------------------- MODULE ScheduleBoard ----------------------------
(***************************************************************************)
(* What the schedule promises, whoever writes it: the board a manager and  *)
(* the crews look at.  Each visit stands on a day, has a crew or none, and *)
(* the crew has been told or not.  Any number of entries may change at     *)
(* once, as long as nobody is in two places on one day, and what a crew    *)
(* was told is not changed except by withdrawing it.  ScheduleWriters      *)
(* implements this specification.                                          *)
(***************************************************************************)
CONSTANTS Visit, Employee, Day

VARIABLES day,    \* [Visit -> Day]
          crew,   \* [Visit -> SUBSET Employee], {} when nobody is on the visit
          told    \* the visits whose crew has been published

board == <<day, crew, told>>

Consistent ==
  \A v, w \in Visit : v # w /\ day[v] = day[w] => crew[v] \cap crew[w] = {}

BoardInit ==
  /\ day \in [Visit -> Day]
  /\ crew = [v \in Visit |-> {}]
  /\ told = {}

\* One writer's transaction: any entries whose crews were not told.
Rewrite ==
  /\ day' \in [Visit -> Day]
  /\ crew' \in [Visit -> SUBSET Employee]
  /\ \A v \in told : day'[v] = day[v] /\ crew'[v] = crew[v]
  /\ Consistent'
  /\ UNCHANGED told

\* A publication: it tells crews exactly what the board already says.
Tell ==
  /\ told' \subseteq Visit
  /\ told \subseteq told'
  /\ \A v \in told' : crew[v] # {}
  /\ UNCHANGED <<day, crew>>

\* An administrator takes told crews off their visits, and says so.
Withdraw ==
  /\ told' \subseteq told
  /\ \A v \in Visit : crew'[v] = IF v \in told \ told' THEN {} ELSE crew[v]
  /\ UNCHANGED day

BoardSpec == BoardInit /\ [][Rewrite \/ Tell \/ Withdraw]_board
=============================================================================
