------------------------------- MODULE Inbox --------------------------------
(***************************************************************************)
(* The two collections of the service, and the calls that share them.      *)
(*                                                                         *)
(* A save stores one Notification and then one NotificationsUser record    *)
(* per recipient: a notify/classroom or notify/student event is one save,  *)
(* a notify/global event is one save per page (module Fanout).  Users list *)
(* their records, which also marks them read, count the unread ones and    *)
(* delete single records; a delete_notification event deletes a            *)
(* Notification with all its records.  No call uses a transaction and      *)
(* three writes are not awaited, so the awaits of all calls interleave.    *)
(*                                                                         *)
(* insertMany, deleteMany and updateMany are one action each: they write   *)
(* at most one record per user and save, and every property speaks of      *)
(* single records, so the order inside one of them cannot be told apart    *)
(* from its order with the other calls.                                    *)
(***************************************************************************)
EXTENDS Naturals, FiniteSets

CONSTANTS
  User,        \* the users
  Save,        \* the saves; also the identifiers of their Notifications
  Removed,     \* those that a delete_notification event may name
  Listing,     \* calls of getNotifications
  Deletion,    \* calls of deleteNotifiaction
  LIMIT,       \* records per list (10 in the code)
  Skips,       \* the values of the query parameter skip
  MaxClock     \* bound on the dates

ASSUME RemovedAssumption == Removed \subseteq Save
ASSUME LimitAssumption == LIMIT \in Nat \ {0}
ASSUME SkipsAssumption == Skips \subseteq Nat
ASSUME ClockAssumption == MaxClock \in Nat
ASSUME UserAssumption == IsFiniteSet(User)
ASSUME SaveAssumption == IsFiniteSet(Save)

\* A record is known by its user and its save.
Record == User \X Save

VARIABLES
  notifications,  \* the Notification documents
  records,        \* the NotificationsUser documents
  readed,         \* those with readed = true
  clock,          \* the current date
  \* One saveNotification* call (or page of one) per element of Save.
  saving,         \* the await it is at
  audience,       \* its recipients
  date,           \* the date of its records
  \* The un-awaited deletes of deleteAllNotification, by Notification.
  dropNotification, dropRecords,
  \* One getNotifications call per element of Listing.
  listing, reader, skip,
  found,          \* the records it found
  total,          \* the total it answers
  marking,        \* its un-awaited updateMany
  \* One deleteNotifiaction call per element of Deletion.
  deleting, caller, target,
  \* History, read by the properties only.
  shown,          \* records that an answer has returned
  deep,           \* unread records a find left out, before or after its page
  late,           \* records stored between a find and its updateMany
  since,          \* records stored after the updateMany of a call
  gone,           \* records the reader lost between the find and the total
  overtaken       \* records stored after the deleteMany of their Notification

store    == <<notifications, records, readed>>
saves    == <<clock, saving, audience, date>>
removals == <<dropNotification, dropRecords>>
listings == <<listing, reader, skip, found, total, marking>>
deletes  == <<deleting, caller, target>>
past     == <<shown, deep, late, since, gone, overtaken>>
vars == <<store, saves, removals, listings, deletes, past>>

-----------------------------------------------------------------------------
RecordsOf(u) == {r \in records : r[1] = u}

\* getCountNotifications, but for its ceiling of 100.
Unread(u) == RecordsOf(u) \ readed

\* Could the query {user}.sort({date: -1}).skip(n).limit(LIMIT) answer page?
\* Records of the same date come in any order.
IsPage(u, n, page) ==
  \E before \in SUBSET RecordsOf(u) :
    LET after == RecordsOf(u) \ (before \cup page)
    IN  /\ page \subseteq RecordsOf(u) \ before
        /\ Cardinality(before) = n \/ (Cardinality(before) < n /\ page \cup after = {})
        /\ Cardinality(page) = LIMIT \/ (Cardinality(page) < LIMIT /\ after = {})
        /\ \A r \in before, q \in page \cup after : date[q[2]] <= date[r[2]]
        /\ \A r \in page, q \in after : date[q[2]] <= date[r[2]]

\* The call has found its records and has not yet answered or failed.
Open(c) == listing[c] \in {"populate", "images", "total"}

Settled == {"none", "pending", "done", "failed"}

Init ==
  /\ notifications = {}
  /\ records = {}
  /\ readed = {}
  /\ clock = 0
  /\ saving = [s \in Save |-> "idle"]
  /\ audience = [s \in Save |-> {}]
  /\ date = [s \in Save |-> 0]
  /\ dropNotification = [s \in Save |-> "none"]
  /\ dropRecords = [s \in Save |-> "none"]
  /\ listing = [c \in Listing |-> "idle"]
  /\ reader \in [Listing -> User]
  /\ skip \in [Listing -> Skips]
  /\ found = [c \in Listing |-> {}]
  /\ total = [c \in Listing |-> 0]
  /\ marking = [c \in Listing |-> "none"]
  /\ deleting = [d \in Deletion |-> "idle"]
  /\ caller \in [Deletion -> User]
  /\ target \in [Deletion -> Record]
  /\ shown = {}
  /\ deep = {}
  /\ late = {}
  /\ since = [c \in Listing |-> {}]
  /\ gone = [c \in Listing |-> 0]
  /\ overtaken = {}

-----------------------------------------------------------------------------
(* Saving: saveNotificationClassroom, saveNotificationClassroomStudent and *)
(* one turn of the loops of saveNotificationGlobal and -Students.          *)

\* get_students_by_course, getUsers or getStudents answers with the users.
GetUsers(s, users) ==
  /\ saving[s] = "idle"
  /\ saving' = [saving EXCEPT ![s] = "notification"]
  /\ audience' = [audience EXCEPT ![s] = users]
  /\ UNCHANGED <<clock, date, store, removals, listings, deletes, past>>

\* insertNotification; then the date of the records is taken.
StoreNotification(s) ==
  /\ saving[s] = "notification"
  /\ notifications' = notifications \cup {s}
  /\ saving' = [saving EXCEPT ![s] = "records"]
  /\ date' = [date EXCEPT ![s] = clock]
  /\ UNCHANGED <<records, readed, clock, audience>>
  /\ UNCHANGED <<removals, listings, deletes, past>>

\* The documents new are stored: the history takes note.
Inserted(s, new) ==
  /\ records' = records \cup new
  /\ late' = late \cup
       {r \in new : \E c \in Listing :
          reader[c] = r[1] /\ (Open(c) \/ marking[c] = "pending")}
  /\ since' = [c \in Listing |->
       IF marking[c] = "done" THEN since[c] \cup new ELSE since[c]]
  /\ overtaken' = IF dropRecords[s] = "done" THEN overtaken \cup new ELSE overtaken
  /\ UNCHANGED <<notifications, readed, clock, audience, date, shown, deep, gone>>
  /\ UNCHANGED <<removals, listings, deletes>>

\* insertMany (or save, of a single record).
StoreRecords(s) ==
  /\ saving[s] = "records"
  /\ saving' = [saving EXCEPT ![s] = "done"]
  /\ Inserted(s, audience[s] \X {s})

\* An await rejects and nobody catches it: nothing is taken back.  A write
\* that fails may have stored the Notification, or some of the records.
SaveFails(s) ==
  /\ saving' = [saving EXCEPT ![s] = "failed"]
  /\ \/ /\ saving[s] \in {"idle", "notification"}
        /\ \/ UNCHANGED notifications
           \/ saving[s] = "notification" /\ notifications' = notifications \cup {s}
        /\ UNCHANGED <<records, readed, clock, audience, date>>
        /\ UNCHANGED <<removals, listings, deletes, past>>
     \/ /\ saving[s] = "records"
        /\ \E some \in SUBSET audience[s] : Inserted(s, some \X {s})

\* Time passes.
Tick ==
  /\ clock < MaxClock
  /\ clock' = clock + 1
  /\ UNCHANGED <<saving, audience, date, store, removals, listings, deletes, past>>

-----------------------------------------------------------------------------
(* Listing: getNotifications.                                              *)

\* The find() answers.  An empty page is answered at once, and marks nothing.
FindPage(c) ==
  /\ listing[c] = "idle"
  /\ \E page \in SUBSET RecordsOf(reader[c]) :
       /\ IsPage(reader[c], skip[c], page)
       /\ found' = [found EXCEPT ![c] = page]
       /\ listing' = [listing EXCEPT ![c] = IF page = {} THEN "answered" ELSE "populate"]
       /\ deep' = deep \cup (Unread(reader[c]) \ page)
  /\ UNCHANGED <<reader, skip, total, marking, shown, late, since, gone, overtaken>>
  /\ UNCHANGED <<store, saves, removals, deletes>>

\* (Slip: the updateMany sent by a listing that fails as well.)
SlipProceed(c, next) ==
  /\ listing' = [listing EXCEPT ![c] = next]
  /\ shown' = IF next = "answered" THEN shown \cup found[c] ELSE shown
  /\ marking' = IF next \in {"answered", "failed"}
                  THEN [marking EXCEPT ![c] = "pending"] ELSE marking
  /\ UNCHANGED <<reader, skip, found, deep, late, since, gone, overtaken>>
  /\ UNCHANGED <<store, saves, removals, deletes>>

\* The code after an await runs to the next one, or to the answer: then the
\* updateMany is sent, not awaited, and the records are returned.
Proceed(c, next) ==
  /\ listing' = [listing EXCEPT ![c] = next]
  /\ IF next = "answered"
       THEN /\ shown' = shown \cup found[c]
            /\ marking' = [marking EXCEPT ![c] = "pending"]
       ELSE UNCHANGED <<shown, marking>>
  /\ UNCHANGED <<reader, skip, found, deep, late, since, gone, overtaken>>
  /\ UNCHANGED <<store, saves, removals, deletes>>

\* populate() answers.  A record without its Notification is a TypeError in
\* the map that follows.  Pictures and the total are asked for if needed.
Populate(c) ==
  /\ listing[c] = "populate"
  /\ \/ /\ \A r \in found[c] : r[2] \in notifications
        /\ \E next \in {"images", "total", "answered"} : Proceed(c, next)
     \/ /\ \E r \in found[c] : r[2] \notin notifications
        /\ Proceed(c, "failed")
  /\ UNCHANGED total

\* get_aws_token_access answers.
GetImages(c) ==
  /\ listing[c] = "images"
  /\ \E next \in {"total", "answered"} : Proceed(c, next)
  /\ UNCHANGED total

\* (Slips: the total of the unread records, and of those after the page.)
SlipTotal(c, count) ==
  /\ listing[c] = "total"
  /\ total' = [total EXCEPT ![c] = count]
  /\ Proceed(c, "answered")
SlipCountUnread(c) == SlipTotal(c, Cardinality(Unread(reader[c])))
SlipCountRest(c)   ==
  SlipTotal(c, Cardinality(RecordsOf(reader[c])) - (skip[c] + LIMIT))

\* count() answers.
CountTotal(c) ==
  /\ listing[c] = "total"
  /\ total' = [total EXCEPT ![c] = Cardinality(RecordsOf(reader[c]))]
  /\ Proceed(c, "answered")

\* An await rejects: the controller answers an error.
ListFails(c) ==
  /\ Open(c)
  /\ Proceed(c, "failed")
  /\ UNCHANGED total

\* (Slip: only the records of the page.)
SlipMarkReaded(c) ==
  /\ marking[c] = "pending"
  /\ marking' = [marking EXCEPT ![c] = "done"]
  /\ readed' = readed \cup (Unread(reader[c]) \cap found[c])
  /\ UNCHANGED <<notifications, records, listing, reader, skip, found, total>>
  /\ UNCHANGED <<saves, removals, deletes, past>>

\* (Slip: those of every user.)
SlipMarkAll(c) ==
  /\ marking[c] = "pending"
  /\ marking' = [marking EXCEPT ![c] = "done"]
  /\ readed' = records
  /\ UNCHANGED <<notifications, records, listing, reader, skip, found, total>>
  /\ UNCHANGED <<saves, removals, deletes, past>>

\* The updateMany: every unread record of the user.
MarkReaded(c) ==
  /\ marking[c] = "pending"
  /\ marking' = [marking EXCEPT ![c] = "done"]
  /\ readed' = readed \cup Unread(reader[c])
  /\ UNCHANGED <<notifications, records, listing, reader, skip, found, total>>
  /\ UNCHANGED <<saves, removals, deletes, past>>

\* It rejects, having marked some of them.
MarkFails(c) ==
  /\ marking[c] = "pending"
  /\ marking' = [marking EXCEPT ![c] = "failed"]
  /\ \E some \in SUBSET Unread(reader[c]) : readed' = readed \cup some
  /\ UNCHANGED <<notifications, records, listing, reader, skip, found, total>>
  /\ UNCHANGED <<saves, removals, deletes, past>>

-----------------------------------------------------------------------------
(* Deleting: deleteNotifiaction and deleteAllNotification.                 *)

\* The documents old disappear.
Deleted(old) ==
  /\ records' = records \ old
  /\ readed' = readed \ old
  /\ gone' = [c \in Listing |->
       IF Open(c) THEN gone[c] + Cardinality(old \cap RecordsOf(reader[c])) ELSE gone[c]]
  /\ UNCHANGED <<notifications, shown, deep, late, since, overtaken>>
  /\ UNCHANGED <<saves, listings>>

\* (Slips: the owner not compared; a missing record taken for a deleted one.)
SlipFind(d, answer) ==
  /\ deleting[d] = "idle"
  /\ deleting' = [deleting EXCEPT ![d] = answer]
  /\ UNCHANGED <<caller, target, store, saves, removals, listings, past>>
SlipFindAny(d) ==
  SlipFind(d, IF target[d] \in records THEN "deleteOne" ELSE "refused")
SlipFindMissing(d) ==
  SlipFind(d, IF target[d] \notin records THEN "deleted"
              ELSE IF target[d][1] = caller[d] THEN "deleteOne" ELSE "refused")

\* findById answers: the record must exist and be the caller's.
FindRecord(d) ==
  /\ deleting[d] = "idle"
  /\ deleting' = [deleting EXCEPT
       ![d] = IF target[d] \in records /\ target[d][1] = caller[d]
                THEN "deleteOne" ELSE "refused"]
  /\ UNCHANGED <<caller, target, store, saves, removals, listings, past>>

\* deleteOne answers, whether or not the record was still there.
DeleteOne(d) ==
  /\ deleting[d] = "deleteOne"
  /\ deleting' = [deleting EXCEPT ![d] = "deleted"]
  /\ Deleted({target[d]})
  /\ UNCHANGED <<caller, target, removals>>

\* deleteOne rejects, whether or not it deleted the record.
DeleteFails(d) ==
  /\ deleting[d] = "deleteOne"
  /\ deleting' = [deleting EXCEPT ![d] = "failed"]
  /\ \E some \in SUBSET {target[d]} : Deleted(some)
  /\ UNCHANGED <<caller, target, removals>>

\* (Slip: the records forgotten.)
SlipDeleteAll(s) ==
  /\ s \in notifications \cap Removed
  /\ dropNotification[s] = "none"
  /\ dropNotification' = [dropNotification EXCEPT ![s] = "pending"]
  /\ UNCHANGED <<dropRecords, store, saves, listings, deletes, past>>

\* A delete_notification event sends both deletes and awaits neither.  The
\* identifier exists once the Notification is stored.
DeleteAll(s) ==
  /\ s \in notifications \cap Removed
  /\ dropNotification[s] = "none"
  /\ dropNotification' = [dropNotification EXCEPT ![s] = "pending"]
  /\ dropRecords' = [dropRecords EXCEPT ![s] = "pending"]
  /\ UNCHANGED <<store, saves, listings, deletes, past>>

\* findByIdAndDelete.
DropNotification(s) ==
  /\ dropNotification[s] = "pending"
  /\ dropNotification' = [dropNotification EXCEPT ![s] = "done"]
  /\ notifications' = notifications \ {s}
  /\ UNCHANGED <<records, readed, dropRecords, saves, listings, deletes, past>>

\* deleteMany.
DropRecords(s) ==
  /\ dropRecords[s] = "pending"
  /\ dropRecords' = [dropRecords EXCEPT ![s] = "done"]
  /\ Deleted({r \in records : r[2] = s})
  /\ UNCHANGED <<dropNotification, deletes>>

\* One of them rejects, having deleted all, some or nothing of its documents.
DropFails(s) ==
  \/ /\ dropNotification[s] = "pending"
     /\ dropNotification' = [dropNotification EXCEPT ![s] = "failed"]
     /\ notifications' \in {notifications, notifications \ {s}}
     /\ UNCHANGED <<records, readed, dropRecords>>
     /\ UNCHANGED <<saves, listings, deletes, past>>
  \/ /\ dropRecords[s] = "pending"
     /\ dropRecords' = [dropRecords EXCEPT ![s] = "failed"]
     /\ \E some \in SUBSET {r \in records : r[2] = s} : Deleted(some)
     /\ UNCHANGED dropNotification
     /\ UNCHANGED deletes

-----------------------------------------------------------------------------
Saving(s) ==
  \/ \E users \in SUBSET User : GetUsers(s, users)
  \/ StoreNotification(s)
  \/ StoreRecords(s)
  \/ SaveFails(s)

Removing(s) == DeleteAll(s) \/ DropNotification(s) \/ DropRecords(s) \/ DropFails(s)

Answering(c) ==
  \/ FindPage(c)
  \/ Populate(c)
  \/ GetImages(c)
  \/ CountTotal(c)
  \/ ListFails(c)
  \/ MarkReaded(c)
  \/ MarkFails(c)

Deleting(d) == FindRecord(d) \/ DeleteOne(d) \/ DeleteFails(d)

Next ==
  \/ Tick
  \/ \E s \in Save : Saving(s) \/ Removing(s)
  \/ \E c \in Listing : Answering(c)
  \/ \E d \in Deletion : Deleting(d)

Spec == Init /\ [][Next]_vars

-----------------------------------------------------------------------------
(* Properties.                                                             *)

\* The variables have the types of the documents and of the calls.
TypeOK ==
  /\ notifications \subseteq Save
  /\ records \subseteq Record
  /\ readed \subseteq records
  /\ clock \in 0 .. MaxClock
  /\ saving \in [Save -> {"idle", "notification", "records", "done", "failed"}]
  /\ audience \in [Save -> SUBSET User]
  /\ date \in [Save -> 0 .. MaxClock]
  /\ dropNotification \in [Save -> Settled]
  /\ dropRecords \in [Save -> Settled]
  /\ listing \in [Listing -> {"idle", "populate", "images", "total", "answered", "failed"}]
  /\ reader \in [Listing -> User]
  /\ skip \in [Listing -> Skips]
  /\ found \in [Listing -> SUBSET Record]
  /\ total \in [Listing -> Nat]
  /\ marking \in [Listing -> Settled]
  /\ deleting \in [Deletion -> {"idle", "deleteOne", "deleted", "refused", "failed"}]
  /\ caller \in [Deletion -> User]
  /\ target \in [Deletion -> Record]
  /\ shown \subseteq Record
  /\ deep \subseteq Record
  /\ late \subseteq Record
  /\ since \in [Listing -> SUBSET Record]
  /\ gone \in [Listing -> Nat]
  /\ overtaken \subseteq Record

\* A record that is read without ever having been returned to its user was
\* either outside the page of a find or stored between a find and the
\* updateMany that followed it: a listing that fails, or whose page is empty,
\* marks nothing.
ReadUnseenExplained == readed \subseteq shown \cup deep \cup late

\* Once the updateMany of a listing has run, what its user has unread was
\* stored after it: the count starts again from zero.
UnreadIsNew ==
  \A c \in Listing : marking[c] = "done" => Unread(reader[c]) \subseteq since[c]

\* A record outlives its Notification only while the deleteMany is under way,
\* when it failed, or when it ran before the record was stored.
DanglingExplained ==
  \A r \in records :
    r[2] \notin notifications =>
      dropRecords[r[2]] \in {"pending", "failed"} \/ r \in overtaken

\* A total covers the records before the page and the page, but for those
\* deleted while the call ran.
TotalCoversPage ==
  \A c \in Listing :
    listing[c] = "answered" /\ total[c] > 0 =>
      skip[c] + Cardinality(found[c]) <= total[c] + gone[c]

\* When a delete call has answered, the record is gone for good, whatever was
\* still being saved or deleted besides.
DeletedStaysDeleted ==
  \A d \in Deletion : deleting[d] = "deleted" => target[d] \notin records

\* A record disappears through a delete call of its own user or with the
\* records of its whole Notification, in no other way.
OnlyOwnersDelete ==
  [][\A r \in records \ records' :
       \/ dropRecords[r[2]] = "pending" /\ dropRecords'[r[2]] # "pending"
       \/ \E d \in Deletion : /\ target[d] = r /\ caller[d] = r[1]
                              /\ deleting[d] = "deleteOne"
                              /\ deleting'[d] # "deleteOne"]_vars

Stored == {s \in Save : saving[s] \in {"done", "failed"}}

Promise == INSTANCE Mailbox
  WITH Notification <- Save, Removable <- Removed,
       unread <- records \ readed, read <- readed, stored <- Stored

\* All the calls together, with their failures and the writes nobody waits for,
\* are a mailbox: what is stored, read and removed, one write after the other.
ImplementsMailbox == Promise!Spec

\* (Refuted.)  notifications_user.entity.ts requires of every record a
\* reference to a Notification: at rest, each record has its Notification.
RecordsReferToNotification ==
  (\A s \in Save : "pending" \notin {dropNotification[s], dropRecords[s]}) =>
    \A r \in records : r[2] \in notifications

\* (Refuted.)  The API documents its count as that of the notifications not
\* read: it counts the records that no answer has ever returned.
UnseenIsCounted == \A r \in records : r \in shown \/ r \in Unread(r[1])
=============================================================================
