------------------------------- MODULE Mailbox --------------------------------
(***************************************************************************)
(* What the collections of records promise the users: every Notification   *)
(* is stored for its recipients once and at one time, a record is read     *)
(* through its own user only and never becomes unread again, and it        *)
(* disappears by itself or with others of its Notification, for good.      *)
(***************************************************************************)
CONSTANTS
  User,          \* the users
  Notification,  \* the Notifications
  Removable      \* those whose records may disappear all together

VARIABLES
  unread, read,  \* the records: <<user, Notification>>
  stored         \* Notifications whose records were stored, all or some

vars == <<unread, read, stored>>

Init == unread = {} /\ read = {} /\ stored = {}

\* The records of n are stored for the users.
Store(n, users) ==
  /\ n \notin stored
  /\ stored' = stored \cup {n}
  /\ unread' = unread \cup (users \X {n})
  /\ UNCHANGED read

\* Unread records of u are marked as read.
Mark(u) ==
  /\ \E some \in SUBSET {r \in unread : r[1] = u} :
       unread' = unread \ some /\ read' = read \cup some
  /\ UNCHANGED stored

\* The records old disappear.
Remove(old) ==
  /\ unread' = unread \ old
  /\ read' = read \ old
  /\ UNCHANGED stored

Next ==
  \/ \E n \in Notification, users \in SUBSET User : Store(n, users)
  \/ \E u \in User : Mark(u)
  \/ \E u \in User, n \in Notification : Remove({<<u, n>>})
  \/ \E n \in Removable : \E users \in SUBSET User : Remove(users \X {n})

Spec == Init /\ [][Next]_vars
=============================================================================
