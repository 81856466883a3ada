------------------------------- MODULE Fanout -------------------------------
(***************************************************************************)
(* The paged fan-out that follows a "notify/global" event.                 *)
(*                                                                         *)
(* WebsocketService.saveNotificationGlobal and saveNotificationStudents    *)
(* walk the User collection LIMIT documents at a time.  Every turn of the  *)
(* loop reads a page (UserService.getUsers or getStudents), counts the     *)
(* active users, saves one new Notification and inserts one                *)
(* NotificationsUser document for every user of the page.  The four awaits *)
(* of a turn are four actions: between any two of them the other services  *)
(* may add users, change their status or change their preferences, and     *)
(* other events may run their own loops.                                   *)
(*                                                                         *)
(* The offset of the page ($skip) counts positions in the natural order of *)
(* the matching documents, so it is an offset into a collection that moves *)
(* underneath it.  The properties say exactly how much that can cost.      *)
(***************************************************************************)
EXTENDS Naturals, FiniteSets

CONSTANTS
  User,              \* the users that may ever be in the User collection
  Student,           \* those whose user_type is STUDENT or STUDENT_DIRECTIVE
  Event,             \* the notify/global events
  LIMIT,             \* the page size (200 in the code)
  MaxChanges         \* bound on the changes of status and of preference

ASSUME StudentAssumption == Student \subseteq User
ASSUME UserAssumption == IsFiniteSet(User)
ASSUME LimitAssumption == LIMIT \in Nat \ {0}
ASSUME BoundAssumption == MaxChanges \in Nat

VARIABLES
  \* The database, written by other services and by NotificationsService.
  pos,       \* place of a user's document in the natural order, 0: no document
  lastPos,   \* place of the newest document
  active,    \* users whose document has status 1
  optOut,    \* users whose preferences say app.globals = false
  changes,   \* changes of status and of preference so far (bounded)
  \* One call of saveNotificationGlobal or saveNotificationStudents per event.
  pc,        \* the await the call is at
  audience,  \* data.Type of the event
  skip,      \* the local variable skip
  page,      \* users.users, the page being handled
  more,      \* users.hasMore
  notifs,    \* number of Notification documents saved by the call
  sent,      \* its NotificationsUser documents: <<user, notification ordinal>>
  \* What happened while the call ran (history, read by the properties only).
  steady,    \* users active, of the audience and opted in ever since it began
  silent,    \* users opted out ever since it began
  drops,     \* documents that left status 1
  returns    \* documents that came back to status 1

db   == <<pos, lastPos, active, optOut, changes>>
call == <<pc, audience, skip, page, more, notifs, sent>>
past == <<steady, silent, drops, returns>>
vars == <<pos, lastPos, active, optOut, changes,
          pc, audience, skip, page, more, notifs, sent,
          steady, silent, drops, returns>>

-----------------------------------------------------------------------------
(* The aggregation pipelines of UserService.                               *)

\* The users that have a document.
Registered == {u \in User : pos[u] # 0}

\* How many documents of docs come before u's in the natural order.
Rank(u, docs) == Cardinality({v \in docs : pos[v] < pos[u]})

\* $skip: n, $limit: LIMIT over the documents docs in natural order.
PageOf(docs, n) ==
  {u \in docs : n <= Rank(u, docs) /\ Rank(u, docs) < n + LIMIT}

\* (Slip: the match on user_type forgotten.)
SlipMatching(t) == active

\* $match on status, and on user_type when the audience is the students.
Matching(t) == IF t = "student" THEN active \cap Student ELSE active

\* (Slip: the last $match, on the preferences, forgotten.)
SlipGetUsers(n) == PageOf(Matching("global"), n)

\* Both pipelines: match, skip, limit, then drop the users whose first
\* preferences document (the $lookup) says app.globals = false.
GetUsers(n)    == PageOf(Matching("global"), n) \ optOut
GetStudents(n) == PageOf(Matching("student"), n) \ optOut

\* (Slips: the last user taken for the end; a full last page taken for a
\* page with a successor.)
SlipHasMoreShort(n) == n + LIMIT + 1 < Cardinality(active)
SlipHasMoreLong(n)  == n + LIMIT <= Cardinality(active)

\* hasMore: both functions count every user of status 1.
HasMore(n) == n + LIMIT < Cardinality(active)

-----------------------------------------------------------------------------
\* The awaits of the loop, in order.
Awaiting == {"read", "count", "notification", "insert"}

Running(e) == pc[e] \in Awaiting

Init ==
  /\ pos = [u \in User |-> 0]
  /\ lastPos = 0
  /\ active = {}
  /\ optOut = {}
  /\ changes = 0
  /\ pc = [e \in Event |-> "idle"]
  /\ audience = [e \in Event |-> "global"]
  /\ skip = [e \in Event |-> 0]
  /\ page = [e \in Event |-> {}]
  /\ more = [e \in Event |-> FALSE]
  /\ notifs = [e \in Event |-> 0]
  /\ sent = [e \in Event |-> {}]
  /\ steady = [e \in Event |-> {}]
  /\ silent = [e \in Event |-> {}]
  /\ drops = [e \in Event |-> 0]
  /\ returns = [e \in Event |-> 0]

-----------------------------------------------------------------------------
(* The call.                                                               *)

\* NotificationsController.getNotificationsGlobal starts the loop for the two
\* known values of data.Type; for any other value it does nothing.
Receive(e, t) ==
  /\ pc[e] = "idle"
  /\ pc' = [pc EXCEPT ![e] = "read"]
  /\ audience' = [audience EXCEPT ![e] = t]
  /\ steady' = [steady EXCEPT ![e] = Matching(t) \ optOut]
  /\ silent' = [silent EXCEPT ![e] = optOut]
  /\ UNCHANGED <<skip, page, more, notifs, sent, drops, returns, db>>

\* The aggregate() of getUsers or getStudents answers with users.
ReadPage(e, users) ==
  /\ pc[e] = "read"
  /\ page' = [page EXCEPT ![e] = users]
  /\ pc' = [pc EXCEPT ![e] = "count"]
  /\ UNCHANGED <<audience, skip, more, notifs, sent, db, past>>

ReadUsers(e) == audience[e] = "global" /\ ReadPage(e, GetUsers(skip[e]))

ReadStudents(e) == audience[e] = "student" /\ ReadPage(e, GetStudents(skip[e]))

\* (Slip: an empty page read again.)
SlipCountUsers(e) ==
  /\ pc[e] = "count"
  /\ more' = [more EXCEPT ![e] = HasMore(skip[e])]
  /\ pc' = [pc EXCEPT ![e] = IF page[e] = {} THEN "read" ELSE "notification"]
  /\ UNCHANGED <<audience, skip, page, notifs, sent, db, past>>

\* The count() of getUsers or getStudents answers.
CountUsers(e) ==
  /\ pc[e] = "count"
  /\ more' = [more EXCEPT ![e] = HasMore(skip[e])]
  /\ pc' = [pc EXCEPT ![e] = "notification"]
  /\ UNCHANGED <<audience, skip, page, notifs, sent, db, past>>

\* insertNotification: a Notification of its own for every page.
InsertNotification(e) ==
  /\ pc[e] = "notification"
  /\ notifs' = [notifs EXCEPT ![e] = @ + 1]
  /\ pc' = [pc EXCEPT ![e] = "insert"]
  /\ UNCHANGED <<audience, skip, page, more, sent, db, past>>

\* (Slips: the offset moved by step instead of LIMIT.)
SlipInsert(e, step) ==
  /\ pc[e] = "insert"
  /\ sent' = [sent EXCEPT ![e] = @ \cup (page[e] \X {notifs[e]})]
  /\ page' = [page EXCEPT ![e] = {}]
  /\ skip' = [skip EXCEPT ![e] = IF more[e] THEN @ + step ELSE @]
  /\ pc' = [pc EXCEPT ![e] = IF more[e] THEN "read" ELSE "done"]
  /\ UNCHANGED <<audience, more, notifs, db, past>>
SlipInsertOverlap(e) == SlipInsert(e, LIMIT - 1)
SlipInsertBackwards(e) == SlipInsert(e, 0 - LIMIT)

\* insertMany for the page, then the loop goes on or ends.
InsertRecords(e) ==
  /\ pc[e] = "insert"
  /\ sent' = [sent EXCEPT ![e] = @ \cup (page[e] \X {notifs[e]})]
  /\ page' = [page EXCEPT ![e] = {}]
  /\ \/ /\ more[e]
        /\ skip' = [skip EXCEPT ![e] = @ + LIMIT]
        /\ pc' = [pc EXCEPT ![e] = "read"]
     \/ /\ ~more[e]
        /\ pc' = [pc EXCEPT ![e] = "done"]
        /\ UNCHANGED skip
  /\ UNCHANGED <<audience, more, notifs, db, past>>

\* (Slip: what the call has stored taken back.)
SlipFail(e) ==
  /\ Running(e)
  /\ sent' = [sent EXCEPT ![e] = {}]
  /\ page' = [page EXCEPT ![e] = {}]
  /\ pc' = [pc EXCEPT ![e] = "failed"]
  /\ UNCHANGED <<audience, skip, more, notifs, db, past>>

\* One of the awaits rejects, or the process stops: nobody catches it and the
\* call ends.  A save that fails may have stored the Notification, and an
\* insertMany that fails a prefix of its documents.
Fail(e) ==
  /\ \/ /\ pc[e] \in {"read", "count"}
        /\ UNCHANGED <<notifs, sent>>
     \/ /\ pc[e] = "notification"
        /\ notifs' \in {notifs, [notifs EXCEPT ![e] = @ + 1]}
        /\ UNCHANGED sent
     \/ /\ pc[e] = "insert"
        /\ UNCHANGED notifs
        /\ \E cut \in 0 .. lastPos :
             sent' = [sent EXCEPT
                        ![e] = @ \cup ({u \in page[e] : pos[u] <= cut}
                                         \X {notifs[e]})]
  /\ page' = [page EXCEPT ![e] = {}]
  /\ pc' = [pc EXCEPT ![e] = "failed"]
  /\ UNCHANGED <<audience, skip, more, db, past>>

-----------------------------------------------------------------------------
(* The rest of the system, as far as the loop can see it.                  *)

\* A new active user: its document goes to the end of the natural order.
Register(u) ==
  /\ pos[u] = 0
  /\ pos' = [pos EXCEPT ![u] = lastPos + 1]
  /\ lastPos' = lastPos + 1
  /\ active' = active \cup {u}
  /\ UNCHANGED <<optOut, changes, call, past>>

\* Another service takes the status of a user away from 1.
Deactivate(u) ==
  /\ u \in active
  /\ changes < MaxChanges
  /\ active' = active \ {u}
  /\ changes' = changes + 1
  /\ steady' = [e \in Event |-> IF Running(e) THEN steady[e] \ {u} ELSE steady[e]]
  /\ drops' = [e \in Event |-> IF Running(e) THEN drops[e] + 1 ELSE drops[e]]
  /\ UNCHANGED <<pos, lastPos, optOut, silent, returns, call>>

\* Another service sets the status of a user back to 1.
Reactivate(u) ==
  /\ u \in Registered \ active
  /\ changes < MaxChanges
  /\ active' = active \cup {u}
  /\ changes' = changes + 1
  /\ returns' = [e \in Event |->
                  IF Running(e) THEN returns[e] + 1 ELSE returns[e]]
  /\ UNCHANGED <<pos, lastPos, optOut, steady, silent, drops, call>>

\* NotificationsService.changePreferences stores another app.globals.
ChangeGlobals(u) ==
  /\ u \in Registered
  /\ changes < MaxChanges
  /\ changes' = changes + 1
  /\ \/ /\ u \in optOut
        /\ optOut' = optOut \ {u}
        /\ silent' = [e \in Event |->
                       IF Running(e) THEN silent[e] \ {u} ELSE silent[e]]
        /\ UNCHANGED steady
     \/ /\ u \notin optOut
        /\ optOut' = optOut \cup {u}
        /\ steady' = [e \in Event |->
                       IF Running(e) THEN steady[e] \ {u} ELSE steady[e]]
        /\ UNCHANGED silent
  /\ UNCHANGED <<pos, lastPos, active, drops, returns, call>>

-----------------------------------------------------------------------------
Loop(e) ==
  \/ ReadUsers(e)
  \/ ReadStudents(e)
  \/ CountUsers(e)
  \/ InsertNotification(e)
  \/ InsertRecords(e)

Others ==
  \E u \in User :
    \/ Register(u)
    \/ Deactivate(u)
    \/ Reactivate(u)
    \/ ChangeGlobals(u)

Next ==
  \/ \E e \in Event : \E t \in {"global", "student"} : Receive(e, t)
  \/ \E e \in Event : Loop(e) \/ Fail(e)
  \/ Others

Spec == Init /\ [][Next]_vars

\* Every await settles: the driver answers or rejects.
FairSpec == Spec /\ \A e \in Event : WF_vars(Loop(e) \/ Fail(e))

-----------------------------------------------------------------------------
(* Properties.                                                             *)

\* The users that have a record of the event.
Recipients(e) == {r[1] : r \in sent[e]}

\* The variables have the types of the code's variables and documents.
TypeOK ==
  /\ pos \in [User -> Nat]
  /\ lastPos \in Nat
  /\ active \in SUBSET User
  /\ optOut \in SUBSET User
  /\ changes \in 0 .. MaxChanges
  /\ pc \in [Event -> {"idle", "done", "failed"} \cup Awaiting]
  /\ audience \in [Event -> {"global", "student"}]
  /\ skip \in [Event -> Nat]
  /\ page \in [Event -> SUBSET User]
  /\ more \in [Event -> BOOLEAN]
  /\ notifs \in [Event -> Nat]
  /\ sent \in [Event -> SUBSET (User \X Nat)]
  /\ steady \in [Event -> SUBSET User]
  /\ silent \in [Event -> SUBSET User]
  /\ drops \in [Event -> Nat]
  /\ returns \in [Event -> Nat]

\* A finished loop misses at most one user for every document that left
\* status 1 while it ran: of the users that were active, of the audience and
\* opted in throughout, no more than drops[e] have no record.  With no such
\* change, however many users register meanwhile, it misses nobody.
MissedAtMostDrops ==
  \A e \in Event :
    pc[e] = "done" => Cardinality(steady[e] \ Recipients(e)) <= drops[e]

\* The records of an event exceed the users it reached by at most one for
\* every document that came back to status 1 while it ran: nobody is notified
\* twice because of registrations or deactivations.
RepeatsAtMostReturns ==
  \A e \in Event :
    Cardinality(sent[e]) <= Cardinality(Recipients(e)) + returns[e]

\* A user opted out of global notifications throughout the call gets no record.
OptedOutGetNothing ==
  \A e \in Event : silent[e] \cap Recipients(e) = {}

\* An event for the students reaches students only.
StudentsOnly ==
  \A e \in Event : audience[e] = "student" => Recipients(e) \subseteq Student

\* A page, for which a Notification is saved, is opened only at an offset that
\* an active user lies beyond, but for one place per document that left status
\* 1 meanwhile: the count of one turn still bounds the offset of the next.  So
\* an event for everybody saves no Notification for a page past the last user
\* unless a document left.  An event for the students counts the same users:
\* its pages past the last student are read, and saved as empty Notifications.
NoPageBeyondActive ==
  \A e \in Event :
    Running(e) /\ skip[e] > 0 => skip[e] < Cardinality(active) + drops[e]

Phase == [e \in Event |-> IF Running(e) THEN "open" ELSE pc[e]]

Told == [e \in Event |-> Recipients(e)]

Promise == INSTANCE Announcement
  WITH phase <- Phase, due <- steady, barred <- silent, excused <- drops, told <- Told

\* The pages, offsets and counts together are an announcement: step by step,
\* records are only added, none to the unwilling, none once the call has ended,
\* and it ends well only when what it misses is excused.
ImplementsAnnouncement == Promise!Spec

\* How many awaits a call can still reach: those of its turn, and four for each
\* place between its offset and the last user there may be.
AwaitsLeft == [read |-> 4, count |-> 3, notification |-> 2, insert |-> 1]
StepsLeft(e) ==
  IF Running(e) THEN 4 * (Cardinality(User) - skip[e]) + AwaitsLeft[pc[e]] ELSE 0

\* Each await that settles takes its call nearer to its end, and nothing that
\* the other services do to the count takes it away again: no loop goes on for
\* ever, though it compares its offset with a number that moves.
LoopAdvances ==
  [][\A e \in Event :
       Running(e) => /\ StepsLeft(e)' \in 0 .. StepsLeft(e)
                     /\ pc'[e] # pc[e] => StepsLeft(e)' < StepsLeft(e)]_vars

\* Every call ends, finished or failed.
EveryCallEnds ==
  \A e \in Event : pc[e] = "read" ~> pc[e] \in {"done", "failed"}
=============================================================================
