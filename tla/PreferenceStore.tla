-------------------------- MODULE PreferenceStore ---------------------------
(***************************************************************************)
(* What change_preferences and get_preferences promise together: every     *)
(* user has one preference, and a change takes effect at one moment        *)
(* between its request and its answer.  A change that is answered with an  *)
(* error may have taken effect, or not.                                    *)
(***************************************************************************)
CONSTANTS
  User,      \* the users
  Change,    \* the calls of changePreferences
  Default    \* the preference of a user who never changed it

VARIABLES
  value,     \* the preference of every user
  by, wish,  \* the user and the preference of a call (fixed)
  status     \* where a call is

vars == <<value, by, wish, status>>

\* The state in which the calls by and wish are about to be made.
Init ==
  /\ value = [u \in User |-> Default]
  /\ status = [c \in Change |-> "idle"]

Begin(c) ==
  /\ status[c] = "idle"
  /\ status' = [status EXCEPT ![c] = "waiting"]
  /\ UNCHANGED <<value, by, wish>>

\* The calls together, all of one user, take effect at once, last the last of
\* them, which is answered.
Write(together, last, answer) ==
  /\ last \in together
  /\ \A c \in together : status[c] = "waiting" /\ by[c] = by[last]
  /\ value' = [value EXCEPT ![by[last]] = wish[last]]
  /\ status' = [c \in Change |-> IF c = last THEN answer
                                 ELSE IF c \in together THEN "applied" ELSE status[c]]
  /\ UNCHANGED <<by, wish>>

\* A call that has taken effect is answered.
Answer(c, answer) ==
  /\ status[c] = "applied"
  /\ status' = [status EXCEPT ![c] = answer]
  /\ UNCHANGED <<value, by, wish>>

\* A call fails without effect.
Fail(c) ==
  /\ status[c] = "waiting"
  /\ status' = [status EXCEPT ![c] = "failed"]
  /\ UNCHANGED <<value, by, wish>>

Next ==
  \E c \in Change :
    \/ Begin(c)
    \/ Fail(c)
    \/ \E answer \in {"done", "failed"} :
         \/ Answer(c, answer)
         \/ \E together \in SUBSET Change : Write(together, c, answer)

Spec == Init /\ [][Next]_vars
=============================================================================
