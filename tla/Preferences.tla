---------------------------- MODULE Preferences -----------------------------
(***************************************************************************)
(* NotificationsService: the preferences of the users.                     *)
(*                                                                         *)
(* changePreferences looks for the user's document and then, one await     *)
(* later, saves a new one or updates the first one.  Nothing makes the     *)
(* documents unique, so two first changes that overlap save one each, and  *)
(* from then on findOne, updateOne and the $lookup of the fan-out all use  *)
(* the older of the two.  PreferenceStore is what remains true.            *)
(***************************************************************************)
EXTENDS Naturals, Sequences

CONSTANTS User, Change, Default,
          Value          \* the preferences a change may ask for

ASSUME DefaultAssumption == Default \in Value

VARIABLES
  docs,        \* the documents of every user, oldest first
  by, wish,    \* the user and the preferences of a call (fixed)
  pc,          \* the await a call is at
  latest,      \* history: the last call that a user began
  overlapped   \* history: calls during which another of the same user ran

vars == <<docs, by, wish, pc, latest, overlapped>>

Running(c) == pc[c] \in {"find", "save", "update"}

\* (Slip: the newest document.)
SlipPreferences(u) == IF docs[u] = <<>> THEN Default ELSE docs[u][Len(docs[u])]

\* getPreferences, and what the fan-out looks up: the first document, or all
\* notifications on.
Preferences(u) == IF docs[u] = <<>> THEN Default ELSE Head(docs[u])

Init ==
  /\ docs = [u \in User |-> <<>>]
  /\ by \in [Change -> User]
  /\ wish \in [Change -> Value]
  /\ pc = [c \in Change |-> "idle"]
  /\ latest = [u \in User |-> {}]
  /\ overlapped = {}

\* The request arrives: findOne is sent.
Begin(c) ==
  /\ pc[c] = "idle"
  /\ pc' = [pc EXCEPT ![c] = "find"]
  /\ latest' = [latest EXCEPT ![by[c]] = {c}]
  /\ LET others == {d \in Change : Running(d) /\ by[d] = by[c]}
     IN  overlapped' = overlapped \cup
                         (IF others = {} THEN {} ELSE others \cup {c})
  /\ UNCHANGED <<docs, by, wish>>

\* (Slip: the document not looked for.)
SlipFind(c) ==
  /\ pc[c] = "find"
  /\ pc' = [pc EXCEPT ![c] = "save"]
  /\ UNCHANGED <<docs, by, wish, latest, overlapped>>

\* findOne answers.
Find(c) ==
  /\ pc[c] = "find"
  /\ pc' = [pc EXCEPT ![c] = IF docs[by[c]] = <<>> THEN "save" ELSE "update"]
  /\ UNCHANGED <<docs, by, wish, latest, overlapped>>

\* The write of a call ends; the client is told of its success or failure.
Ends(c) ==
  /\ pc' \in {[pc EXCEPT ![c] = "done"], [pc EXCEPT ![c] = "failed"]}
  /\ UNCHANGED <<by, wish, latest, overlapped>>

\* save stores a document.
Save(c) ==
  /\ pc[c] = "save"
  /\ docs' = [docs EXCEPT ![by[c]] = Append(@, wish[c])]
  /\ Ends(c)

\* (Slip: the preferences nested one level too deep.)
SlipUpdate(c) ==
  /\ pc[c] = "update"
  /\ docs' = [docs EXCEPT ![by[c]] = <<<<wish[c]>>>> \o Tail(@)]
  /\ Ends(c)

\* updateOne overwrites the first document.
Update(c) ==
  /\ pc[c] = "update"
  /\ docs' = [docs EXCEPT ![by[c]] = <<wish[c]>> \o Tail(@)]
  /\ Ends(c)

\* An await rejects without effect: the controller answers an error.
Fail(c) ==
  /\ Running(c)
  /\ pc' = [pc EXCEPT ![c] = "failed"]
  /\ UNCHANGED <<docs, by, wish, latest, overlapped>>

Next == \E c \in Change : Begin(c) \/ Find(c) \/ Save(c) \/ Update(c) \/ Fail(c)

Spec == Init /\ [][Next]_vars

-----------------------------------------------------------------------------
(* Properties.                                                             *)

\* The variables have the types of the documents and of the calls.
TypeOK ==
  /\ docs \in [User -> Seq(Value)]
  /\ by \in [Change -> User]
  /\ wish \in [Change -> Value]
  /\ pc \in [Change -> {"idle", "find", "save", "update", "done", "failed"}]
  /\ latest \in [User -> SUBSET Change]
  /\ overlapped \subseteq Change

\* A change that met no other change of its user, and was acknowledged, is the
\* preference of that user until the next one begins, whatever happened before.
QuietChangeHolds ==
  \A c \in Change :
    pc[c] = "done" /\ c \notin overlapped /\ latest[by[c]] = {c} =>
      Preferences(by[c]) = wish[c]

\* A user has a second document only after changes that overlapped.
DuplicatesExplained ==
  \A u \in User : Len(docs[u]) > 1 => \E c \in overlapped : by[c] = u

\* A call that is about to save finds its effect overwritten in advance when
\* another one has saved first.
Status ==
  [c \in Change |->
     CASE pc[c] \in {"find", "update"} -> "waiting"
       [] pc[c] = "save" -> IF docs[by[c]] = <<>> THEN "waiting" ELSE "applied"
       [] OTHER -> pc[c]]

Store == INSTANCE PreferenceStore
           WITH value <- [u \in User |-> Preferences(u)], status <- Status

\* In spite of the two documents, the calls behave like changes of a single
\* preference per user, each at one moment.
ImplementsStore == Store!Spec
=============================================================================
