---------------------------- MODULE Announcement ------------------------------
(***************************************************************************)
(* What a notify event promises, whatever the pages, the requests and the  *)
(* processes: from the event on, users are told in any number of steps,    *)
(* nobody ever becomes untold, nobody whom it is not for throughout is     *)
(* told, and the call may end well only when all those entitled throughout *)
(* have been told, but for one user per document that left the audience    *)
(* meanwhile.                                                              *)
(***************************************************************************)
EXTENDS Naturals, FiniteSets

CONSTANTS
  User,      \* the users
  Event      \* the events

VARIABLES
  phase,     \* where the announcement of an event is
  due,       \* users entitled to it ever since it began
  barred,    \* users it has not been for, or who have not wanted it, ever since
  excused,   \* how many users it may miss
  told       \* users with a record of it

vars == <<phase, due, barred, excused, told>>

Init ==
  /\ phase = [e \in Event |-> "idle"]
  /\ due = [e \in Event |-> {}]
  /\ barred = [e \in Event |-> {}]
  /\ excused = [e \in Event |-> 0]
  /\ told = [e \in Event |-> {}]

Begin(e) ==
  /\ phase[e] = "idle"
  /\ phase' = [phase EXCEPT ![e] = "open"]
  /\ \E entitled, unwilling \in SUBSET User :
       /\ entitled \cap unwilling = {}
       /\ due' = [due EXCEPT ![e] = entitled]
       /\ barred' = [barred EXCEPT ![e] = unwilling]
  /\ UNCHANGED <<excused, told>>

\* Some users are told, and the announcement goes on or ends.
Tell(e, next) ==
  /\ phase[e] = "open"
  /\ phase' = [phase EXCEPT ![e] = next]
  /\ \E users \in SUBSET (User \ barred[e]) : told' = [told EXCEPT ![e] = @ \cup users]
  /\ next = "done" => Cardinality(due[e] \ told'[e]) <= excused[e]
  /\ UNCHANGED <<due, barred, excused>>

\* Some announcements under way are lost, with the process that makes them.
Lose(calls) ==
  /\ phase' = [e \in Event |-> IF e \in calls THEN "failed" ELSE phase[e]]
  /\ UNCHANGED <<due, barred, excused, told>>

\* The user u loses his title, or his unwillingness, to some announcements under
\* way; someone has left their audience, if left is 1.
Change(u, left, calls) ==
  /\ due' \in {due, [e \in Event |-> IF e \in calls THEN due[e] \ {u} ELSE due[e]]}
  /\ barred' \in {barred, [e \in Event |-> IF e \in calls THEN barred[e] \ {u} ELSE barred[e]]}
  /\ excused' = [e \in Event |-> IF e \in calls THEN excused[e] + left ELSE excused[e]]
  /\ UNCHANGED <<phase, told>>

\* The announcements under way.
Open == {e \in Event : phase[e] = "open"}

Next ==
  \/ \E calls \in SUBSET Open : Lose(calls)
  \/ \E e \in Event : Begin(e) \/ \E next \in {"open", "done", "failed"} : Tell(e, next)
  \/ \E calls \in SUBSET Open, u \in User, left \in {0, 1} : Change(u, left, calls)

Spec == Init /\ [][Next]_vars
=============================================================================
