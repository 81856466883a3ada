------------------------------ MODULE Directory -------------------------------
(***************************************************************************)
(* What looking up the sockets of a user promises, whatever the commands,  *)
(* the connection and the map: a look-up ends once, with hints to sockets  *)
(* of its user that are connected at that moment, and when it has found    *)
(* its user it has missed none of the sockets due to be hinted.            *)
(***************************************************************************)
CONSTANTS
  User,      \* the users
  Socket,    \* the sockets
  Lookup     \* the look-ups

VARIABLES
  owner,     \* the user of a socket (fixed)
  who,       \* the user of a look-up (fixed)
  present,   \* the connected sockets
  stage,     \* where a look-up is
  due,       \* the sockets that it may not miss
  hinted     \* the sockets that it has hinted

vars == <<owner, who, present, stage, due, hinted>>

\* The sockets that can be hinted for e.
Reachable(e) == {s \in present : owner[s] = who[e]}

Init ==
  /\ who \in [Lookup -> User]
  /\ present = {}
  /\ stage = [e \in Lookup |-> "no"]
  /\ due = [e \in Lookup |-> {}]
  /\ hinted = [e \in Lookup |-> {}]

\* A socket connects.
Come(s) ==
  /\ present' = present \cup {s}
  /\ UNCHANGED <<owner, who, stage, due, hinted>>

\* A socket leaves, or only what was known of it: nobody needs to find it.
Go(s) ==
  /\ present' \in {present, present \ {s}}
  /\ due' = [e \in Lookup |-> due[e] \ {s}]
  /\ UNCHANGED <<owner, who, stage, hinted>>

Ask(e) ==
  /\ stage[e] = "no"
  /\ stage' = [stage EXCEPT ![e] = "open"]
  /\ \E some \in SUBSET Reachable(e) : due' = [due EXCEPT ![e] = some]
  /\ UNCHANGED <<owner, who, present, hinted>>

\* The look-up finds all the sockets due, and perhaps more.
Find(e) ==
  /\ stage[e] = "open"
  /\ stage' = [stage EXCEPT ![e] = "found"]
  /\ \E found \in SUBSET Reachable(e) :
       due[e] \subseteq found /\ hinted' = [hinted EXCEPT ![e] = found]
  /\ UNCHANGED <<owner, who, present, due>>

\* The look-ups calls make do with the sockets that are known without asking;
\* others, of which it is not known whether they are, are due no more.
FallBack(calls) ==
  /\ \A e \in calls : stage[e] = "open"
  /\ stage' = [e \in Lookup |-> IF e \in calls THEN "partial" ELSE stage[e]]
  /\ \A e \in Lookup : IF e \in calls THEN hinted'[e] \subseteq Reachable(e)
                                      ELSE hinted'[e] = hinted[e]
  /\ \A e \in Lookup : due'[e] \subseteq due[e]
  /\ UNCHANGED <<owner, who, present>>

\* The process stops: its sockets are gone, and the look-ups under way with it.
Stop ==
  /\ present' = {}
  /\ stage' = [e \in Lookup |-> IF stage[e] = "open" THEN "lost" ELSE stage[e]]
  /\ due' = [e \in Lookup |-> {}]
  /\ UNCHANGED <<owner, who, hinted>>

Next ==
  \/ \E s \in Socket : Come(s) \/ Go(s)
  \/ \E e \in Lookup : Ask(e) \/ Find(e)
  \/ \E calls \in SUBSET Lookup : FallBack(calls)
  \/ Stop

Spec == Init /\ [][Next]_vars
=============================================================================
