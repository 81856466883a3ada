# A TLA+ model of Intranet_BNotifications

This directory is a verification development for the notifications service of the intranet: TLA+
modules translated from the TypeScript sources under `src/`, TLC configurations that check them on
small instances, and proofs that TLAPS checks for all instances. Run it from this directory:

    tlc -workers 2 -config MCFanout.cfg MCFanout      # one run; every .cfg names its questions
    tlapm FanoutProofs.tla                            # proofs; every *Proofs.tla likewise

## 1. The system

The service is one NestJS process (several may share the NATS queue group `notifications`,
`main.ts:24`). Everything in a process runs on one event loop, so a handler is atomic between two
awaits; the hard part is what other calls, other processes and other services do between them.
There is no transaction, no retry and no lock anywhere, and most event handlers start work that
nobody awaits: a rejection there is a warning of the runtime (Node 14, `Dockerfile`) and the call is simply over.

Not everything deserves a model. What is left out, and why, is section 7; the components and their
status are also listed in `PROJECT.json`, with the hazards of the code, each at its line.

| Component | State | Operations | Talks to |
|---|---|---|---|
| Global fan-out (`websocket.service.ts:163-213`, `user.service.ts:26-166`) | locals of a loop: offset, page, `hasMore` | `notify/global` | User, preferences, Notification and NotificationsUser collections |
| Inbox (`websocket.service.ts:35-161,215-300`, both controllers) | Notification and NotificationsUser collections | save, list, count, delete one, delete all | NATS (`get_students_by_course`, `get_aws_token_access`) |
| Presence (`memory.service.ts`, `notifications_students.gateway.ts`) | Redis keys socket id -> user id, a local map for when Redis fails, socket.io rooms | connect, disconnect, emit to a user, a room, everybody | Redis, NATS (`get_courses`), socket.io |
| Preferences (`notifications.service.ts`) | preference documents | read, change, filter an audience | MongoDB |
| Mail (`modules/mail`) | locals of a call | find the address, read the template, send | NATS (`get_user_by_id`), SMTP |
| Delivery (the event controller, both gateways) | rooms and namespaces of the sockets | emit a hint and save, in either order | fan-out, inbox, presence, other processes |
| Authentication, configuration, modules, logging, error and response helpers | none | | |

What makes each of them correct:

* Fan-out: everybody who was entitled to a notification while the loop ran gets exactly one record,
  as far as an offset into a moving collection allows; nobody opted out or outside the audience gets
  one; the pages do not run past the users; the loop ends.
* Inbox: nothing is marked read that was not shown, up to the races the code accepts; only the owner
  or a deletion of the whole notification removes a record; no record outlives its notification.
* Presence: a connected student can be found by user id, a disconnected socket is forgotten, the
  fallback to local memory and the return to Redis lose nothing.
* Preferences: one document per user, the last change wins, a change that was acknowledged is seen.
* Mail: a message goes to its addressee and is sent at most once.
* Delivery: whoever is hinted at an event for his course or himself finds the record it announces, and
  whoever gets a record is hinted, on the sockets of the process that took the event.

What is hard about it:

* *interleaving and stale state*: an offset into a collection that other services change; the
  `updateMany` of a listing that marks more than the listing returned; two look-ups of Redis in a
  row; find-then-save of a preference;
* *ordering*: three writes of the inbox are sent and not awaited, and `delete_notification` may
  overtake the save of the notification it deletes;
* *partial failure*: any write may fail with or without effect, `insertMany` with a part of it;
  Redis may have executed a command that the client rejects, the mail server accepted a message
  whose sending the client rejects;
* *liveness*: the loops of the fan-out end only if the offset passes a count that keeps moving; a
  Redis command without a connection waits for the next one.

## 2. Modules

| Module | What it is |
|---|---|
| `Announcement` | abstract: what an announcement to many promises, whatever the pages |
| `Fanout` | the loops of `saveNotificationGlobal` and `saveNotificationStudents`; implements `Announcement` |
| `FanoutProofs`, `AnnouncementProofs` | theorems about `Fanout`; the refinement |
| `Mailbox` | abstract: records are stored once, read by their user, removed for good |
| `Inbox` | the two collections and every call that writes or lists them; implements `Mailbox` |
| `InboxProofs` | theorems about `Inbox`, the refinement among them |
| `Presence` | the students' gateway on `MemoryService`, its Redis client and Redis; implements `Directory` |
| `Directory` | abstract: a look-up ends once, with sockets of its user, and misses none that is due |
| `PresenceProofs`, `DirectoryProofs` | theorems about `Presence`; the refinement |
| `PreferenceStore` | abstract: one preference per user, changes are atomic |
| `Preferences` | `NotificationsService`; implements `PreferenceStore` |
| `PreferencesProofs` | theorems about `Preferences`, the refinement among them |
| `Delivery` | events from NATS to sockets and records, in several processes; implements `Announcement` |
| `DeliveryProofs` | theorems about `Delivery`, the refinement among them |
| `Mail` | `imail/send`, from the event to the mail server |
| `MailProofs` | theorems about `Mail` |
| `MCFanout`, `MCInbox`, `MCPresence`, `MCPreferences`, `MCDelivery`, `MCMail` | instances for TLC |

Three modules compose in one direction only. `Delivery` takes what it needs of the others in their
abstract form: a save stores for all it has read or for a part, page by page (`Fanout`, `Inbox`), a look-up
finds any part of the sockets a student has or had (`Presence`, which reaches no other by `Directory`). `Announcement`,
`Mailbox`, `Directory` and `PreferenceStore` are not translations of code: they say what the code is
for, and the runs and theorems named below show that it does that.

An action is the code from one await to the next, with every write that code makes. A call is an
element of a constant set with a program counter (`pc`, `saving`, `listing`, `deleting`, `looking`,
...) whose value names the await it is at. A rejected await is an action too. Variables grouped as
"history" or "past" are not in the code: they record what happened so that a property can speak of
it, and no guard reads them. Definitions named `Slip...` are the plausible mistakes against which
each property is tried (`mutants` of `PROJECT.json`); no specification uses them. `PROJECT.json`
gives for every definition the lines it stands for.

**Fanout.** One `notify/global` event per element of `Event`. A turn of the loop has four awaits:
the page (`ReadUsers`, `ReadStudents`), the count (`CountUsers`), the save of the page's
Notification (`InsertNotification`) and its records (`InsertRecords`). The User collection is a set
of users with places in natural order (`pos`); `Register`, `Deactivate` and `Reactivate` are what
other services do to it, `ChangeGlobals` what `changePreferences` does to the set of users opted
out. `$skip`/`$limit` pick by rank among the *matching* documents; the count is of all active users,
as in the code, also for the students: their loop goes on past the last student, reads pages of nobody
and saves a Notification without records for each, until the offset reaches that count. The pipeline runs at one moment (one aggregation command);
the natural order is the order of insertion, which is what WiredTiger gives without deletions, and
the service never deletes users. For `Announcement` the four awaits of a turn are one phase
(`Phase`), and the recipients are a set (`Told`): a step of the loop that stores records is a `Tell`, a
change of status or of preference excuses the calls under way (`Change`), everything else is a stutter.
`Announcement` allows a call to end well only when those entitled throughout, minus one per
document that left, have been told; `Fail` may end it anywhere. `StepsLeft(e)` counts the awaits that a
call can still reach, at most four for each place between its offset and the last user there may be.

**Inbox.** A save is a `notify/classroom` or `notify/student` event, or one page of a fan-out. A
listing finds a page (`FindPage`, any page the sorted query may answer, ties in any order), then
populates it, may ask for pictures, may count the total, and then sends the `updateMany`
(`marking`) and answers. `deleteNotifiaction` is `FindRecord` and `DeleteOne`; the two un-awaited
deletes of `deleteAllNotification` are `DropNotification` and `DropRecords`. `getCountNotifications`
is the operator `Unread`; its ceiling of 100 is left out. The bulk writes are one action each: the
head of the module says why that loses nothing for these properties. `populate` is a second
query of the same call, hence an action of its own. How the recipients were found is left open: any
set of users (`GetUsers`). For `Mailbox` the unread and the read records are two sets and a save is one
`Store`, at the end of its last write: `StoreNotification`, the answers and the look-ups are stutters,
each `updateMany` is a `Mark`, each delete a `Remove`, and a save that fails before its last write
stores nothing.

**Presence.** `outbox` holds the commands that were issued and not answered; the client sends them
in order on one connection, so Redis executes them in order (`Reply`). Losing the connection
(`LoseLink`) rejects all of them, after Redis has executed any number; the `catch` of `set` and of
`getKeys` then run in the same action, oldest first, because nothing else runs between them.
`Reconnect` is the `connect` handler as the code has it: its condition is never true. `Crash` loses
the sockets, the map and the calls of the process and keeps the keys. A socket identifier is never
reused, as in socket.io. For `Directory` the two commands of a look-up are one stage (`Stage`), and the
sockets due to it are the history variable `expected`: an answer of Redis is a `Find`, an answer from the
local map, for one look-up or for all that a lost connection rejects, is a `FallBack`, and the queue,
the keys and the map are gone from view.

**Preferences.** A change is `Begin`, `Find`, then `Save` or `Update`. `docs[u]` is the sequence of
documents of a user; `findOne`, `updateOne` and the `$lookup` of the fan-out all take the first.
`PreferenceStore` has a single value per user. The refinement maps the value to the first document.
A call that is going to `save` after another one already has cannot change the first document any
more; it counts as having taken effect together with the other one, just before it. That is why the
abstract `Write` lets several waiting calls take effect at once.

**Delivery.** An event of `notify/classroom` or `notify/student` is taken by one process (`Take`),
which emits the hint and begins the save in the order of the handler: a classroom event reaches at
once the sockets of that process in the course's room, and its save asks who the students are only
then (`GetStudents`); a student event looks up sockets first (`EmitToUser`). A socket asks for its
course when it connects (`Registered`, `GetCourses`, `JoinCourseRoom`), and never again. Both answers
come from services that change meanwhile (`Move`). A `notify/global` event hints every socket of its
process in the namespace of the gateway, `/` for everybody or `/students`, and its save goes page by
page: `ReadPage` answers with some of those whom the broadcast is for just then, `InsertRecords` stores them
and goes on or ends, whoever has been read by then. Whom the pages leave out is not decided here: it depends on
offsets, counts and documents that leave or register, which only `Fanout` has. So this module claims nothing
of who gets a record of a broadcast but that the event is for him; who opts out meanwhile (`ChangeGlobals`)
may or may not get one. Every socket has an owner here; what a
socket without one does is in `Presence`. The details are left to the modules above: the
look-up of a student's sockets answers any part of those he has or had (`Presence` says which), and
a save stores what it has read, or fails having stored a part. `usersWithPreference` is the operator that the
code amounts to. For `Announcement` the audience (`enrolled`) is what `due` and `barred` come from, and who
moves or changes his mind (`shifted`) is neither any more. Of a course or a student all of `enrolled` are due
and none may be missed (`Excused` is 0); of a broadcast nobody is due, and everybody whom it is not for is
barred (`Fanout`, which implements `Announcement` too, says who is due there, and excuses one per document that
left). A page or a part that is stored is a `Tell`, and `Stop` is a `Lose` of what the process was saving.

**Mail.** An `imail/send` event per element of `Mail`. `SendEmail` is the handler and the code up to the
first await; `GetUser` the answer of the users service, with an address or without; `Accept` the mail
server, which takes a message before its reply arrives (`Sent`) or is lost (`SendFails`). An
address is a model value that its user may change at any time (`ChangeAddress`). A mail with a
template may end because its file cannot be read (`TemplateFails`); what the message says is left out.

## 3. Runs

| Run | Instance | Shows |
|---|---|---|
| `fanout` | 1 event, 2 students and another user, pages of 2, 4 changes | a loop misses at most one entitled user per document that left status 1 under it, and repeats at most one record per document that came back; nobody opted out, and no teacher for a students' event; no page beyond the active users, but for one place per document that left; implements `Announcement`; each await takes it nearer to its end, and it ends |
| `inbox_reads` | 1 user, 2 saves, 1 deletion of everything, 2 listings of pages of 1 | which records are marked read unseen; the unread count restarts from zero; a total covers its page |
| `inbox_deletes` | 2 users, 1 save, 2 deletes, 1 listing | when a record outlives its Notification; what is deleted stays deleted; only its owner deletes a single record; implements `Mailbox` |
| `presence` | 2 users, 2 sockets, 1 look-up, 2 losses or crashes | registrations survive losses; why a closed socket is still known; a look-up that Redis answers finds every expected socket of the user; implements `Directory`; whoever waits has its command in the queue, nothing overtakes it there, and it ends |
| `preferences` | 2 users, 3 changes, 2 values | a change without overlap holds; when there are two documents; implements `PreferenceStore` |
| `delivery` | 2 processes, 1 student, 1 other user, 2 courses or none, 1 socket in either namespace, 1 event of any kind, 2 moves or changes of preference | the hint of a classroom or student event announces a record, and a record of a classroom or global event is hinted to the sockets in its process, but for users who move; the records of a classroom event are for its students; every event tells only those it was for, or who changed, and implements `Announcement` |
| `mail` | 2 mails, 2 users, 2 addresses, 2 changes of address, any number of stops | no mail is accepted twice or logged as sent when it was not; it goes to an address of its addressee |
| `inbox_dangling`, `inbox_unseen`, `presence_migration`, `delivery_optout`, `mail_plain` | smallest | the five disagreements of section 6, each found by TLC |

Bounds, and why they are enough. *Fanout*: three users and pages of two give three shapes of a
collection (less than a page, exactly one, a page and a bit), so every off-by-one of offset and
`hasMore` shows; four changes suffice for a user to leave, come back and leave again while another
shifts him, and for two users to shift each other. Two events share no state but the database,
which they only read, hence one event. *Inbox*: pages of one record with two saves give an unlisted
record on either side of a page; two listings of a user can mark each other's records;
`MaxClock` = 1 gives equal and different dates; two deletes race for a record that a
`delete_notification` removes as well. *Presence*: two losses allow "lost, back, lost again", the
shortest history that leaves a key in both places; two sockets are both of one user, or of two, or
of a user and of nobody. *Preferences*: three calls allow two to collide and a third to come after
them or to collide with both. *Delivery*: events share nothing but the world
they read, hence one; no action of a socket reads another socket and every property is about each
socket by itself, hence one, and each user is treated by himself too, hence one student and one
other user, which leaves room for the rest: each of two processes, courses and namespaces may be the
right one or the wrong one, a student is in either course or in none, and two moves put both answers
out of date, the one of the socket and the one of the save, or bring a student back to his course. *Mail*: a second
mail to the same user meets the address that changed after the first; two changes allow an address
to be lost and another to be found. For all the safety properties and the five refinements the
theorems of section 5 remove these bounds.

Symmetry is used in runs without liveness only, over sets whose elements no expression distinguishes.
`CHECK_DEADLOCK FALSE` everywhere but in `Delivery` and `Mail`, where the process can always stop:
when every call has ended and the bounds are reached the system has nothing left to do.

## 4. Fairness

Only `fanout` and `presence` assume any. `Fanout!FairSpec` has weak fairness of the calls only, each of
`Loop(e) \/ Fail(e)`: every await settles, because the MongoDB driver answers or rejects; nothing is
assumed of the other services. `Presence!FairSpec` has weak fairness of `Reconnect`, since the
client of `redis` 4 retries for ever by default and the code configures no other strategy
(`memory.service.ts:18-20`), and of `Reply`, since a connected Redis answers its oldest command.
Nothing is assumed of crashes and losses. Their bound `MaxLosses` hides no starvation: a loss of the
connection ends every look-up that waits, with the local map as its answer.

## 5. Proofs

`FanoutProofs` proves, for all users, events, page sizes and numbers of changes:

* `TypeCorrect`: `Spec => []TypeOK`;
* `OptedOutCorrect`, `StudentsOnlyCorrect`: no record for an excluded user;
* `MissedCorrect`: `Spec => []MissedAtMostDrops`;
* `RepeatsCorrect`: `Spec => []RepeatsAtMostReturns`;
* `PagesCorrect`: `Spec => []NoPageBeyondActive`;
* `LoopCorrect`: `Spec => LoopAdvances`.

Apart from the types, none of these is inductive. The two about the audience, `MissedCorrect` and `RepeatsCorrect` rest on
parts of the invariant `FanoutInv`, which adds what a loop in progress knows. Its first part, `CallInv`, says that places are distinct and that the
records, the page in hand and the history agree with each other (`Places`, `Base`): it gives the two
theorems about the audience. `Behind(e)` are the steady users that the offset has passed without
reading them; `Missing(e)` says that there are at most `drops[e]` of them. A registration goes to the
end of the natural order and moves nobody across the offset; a document that leaves status 1 moves
the later ones one place to the left, so at most one steady user falls behind; one that comes back
moves users to the right, which only shrinks `Behind`. When `hasMore` is false, the count is at most
the bound of the page just read, so every user who is active then and unread counts as behind.
`Exposed(e)` is the mirror image: users that have been reached and stand after the offset again. The
records so far, the page in hand and `Exposed` together exceed the users reached by at most
`returns[e]` (`Repeating`). The counting itself is in lemmas on ranks and cardinalities of finite sets
(`FiniteSetTheorems`). The assumptions are those that `Fanout` names: `User` is finite, `Student` is
a part of it, `LIMIT` is a positive number, `MaxChanges` a number. `PagesCorrect` needs
another strengthening, `Within(e)`: from the count on, `hasMore` promises that the next offset too is below the
number of active users, and every document that leaves before or after the loop gets there is a drop that
makes up for it. `LoopCorrect` needs `InSight(e)`: the offset never passes the number of users there
can be, and with `hasMore` neither does the next one, because the count that it was compared with never
exceeds that number. So
`StepsLeft` falls with every await, whatever the other services do to the count; with the fairness of
section 4 that is why `EveryCallEnds` holds for every instance, though the last step from a falling
number to an end is induction, and stays with TLC.

`PreferencesProofs` proves, for all users, calls and values (assuming only that the default is a
value):

* `TypeCorrect`, `QuietChangeCorrect` and `DuplicatesCorrect`: the three invariants of the run;
* `StoreImplemented`: `Spec => ImplementsStore`, the refinement of `PreferenceStore`.

The invariant `PreferencesInv` says in addition that two calls of one user that run together have
both been noted as overlapping (`Noted`), that a call without company which is about to save will save
the first document (`Fresh`), that an update finds a document (`Found`), and that after a quiet change
nothing of its user runs until the next begins (`Quiet`). In the refinement, `Begin` maps to `Begin`,
`Find` to a stutter, `Update` to a `Write` of one call; `Save` maps to a `Write` of all the calls about to
save when it stores the first document, and to an `Answer` when it does not; `Fail` to `Fail` or `Answer`.

`AnnouncementProofs` proves `Spec => ImplementsAnnouncement` (`AnnouncementImplemented`). What the end
of a call promises is an instance of `MissedAtMostDrops`, so the lemmas only show what each step does
to `Phase` and `Told`: an event is received (`ReceiveBegins`), records are told (`RecordsTell`,
`EndOfTurnTells`), a change excuses (`ChangesExcuse`), everything else stutters (`OthersStutter`).

`InboxProofs` proves, for all users, saves, listings, deletions, page sizes, offsets and dates (users
and saves being finite), every property of the two runs. `Steps` first sorts the actions by what
they do to the records: a save stores some (`Stores`), a listing marks some (`Marks`), a delete removes
some (`Removes`), the rest leaves them alone. On top of the types:

* `ReadUnseenCorrect` needs `SeenInv`: while a listing is between its find and its answer, every unread
  record of its reader is found, was passed over or came later; once its `updateMany` is under way,
  shown instead of found. `UnreadIsNewCorrect` is inductive as it stands, given the types;
* `DanglingCorrect` needs `DropInv`: records come from saves that have ended, the two deletes of an event
  start together, and whatever is left after a `deleteMany` was stored after it;
* `DeletedStaysCorrect` and `OnlyOwnersCorrect` need `DeleteInv`: a call that goes on to delete has
  compared the owner, and the save of its record has ended, so nothing can store the record again;
* `TotalCorrect` needs `TotalInv`: offset plus page never exceed what the reader has and has lost since
  the find (`PageFits`, on cardinalities);
* `MailboxImplemented`: every step is a `Store`, a `Mark`, a `Remove` or a stutter (`MailboxStep`).

`PresenceProofs` proves, for all users, sockets, look-ups and numbers of losses, every safety
property of the run. The outbox is treated as a queue without repetitions (`Distinct`) through three
lemmas on what `Append`, `Tail` and the empty queue do to its members (`Elements`) and their order
(`Before`). `QueueInv` says that a command is in it exactly as long as somebody waits for it, and the
`DEL` of a socket after its `SET`. `LifeInv` follows a socket from its connection to the removal of
its key, which gives `RegistrationCorrect` and `StaleCorrect`. `LookInv` says that a socket that an event
must reach is in Redis, or its `SET` is ahead of the `KEYS` of the event; `ExpectedCorrect` is its last
part. `NobodyWaitsCorrect` is one half of `QueueInv`, read through the
positions of the outbox. `LookupsCorrect` adds lemmas on what `Append` and `Tail` do to those positions
(`PlacesOnAppend`, `PlacesOnTail`): a command stays where it is or moves one place to the front, so a look-up that waits has ever
fewer commands ahead of it as long as the connection lasts, and ends when it does not.

`DirectoryProofs` proves `Spec => ImplementsDirectory` (`DirectoryImplemented`) on top of these invariants. `LookInv`
gives the one hard step, that the `MGET` of a look-up with keys is a `Find` (`ValuesFind`); a lost
connection is one `FallBack` of all the look-ups it rejects (`LossFallsBack`), which the lemma `MapAnswers` shares
with the `MGET` of no key.

`DeliveryProofs` proves the four invariants of `delivery` for all users, courses, processes, sockets and
events. `Informed(s)`: until its user moves, a socket has the course of its user, as the answer on its
way or as its room. `Traced(e)` carries that to the event: whom it was emitted to (`Hinted`) and whom
the save is for (`Recorded`) agree with those enrolled when it was taken, outdated sockets and users
who changed meanwhile excepted. `HintCorrect`, for courses and students, and `RecordCorrect` join the two.
`DeliveryAnnounces` is the refinement. As long as the save for a course or a student runs, the audience it works
on lies between those enrolled all the while and those enrolled at some time (`Recorded`, `Traced`), so its write misses
nobody who is due and reaches nobody who is barred. Of a broadcast, whoever wants it and was not enrolled has
changed his mind meanwhile (`Wanting`), so no page, however many there are, reaches anybody who is barred; that the
pages reach those who are due is `AnnouncementImplemented`.

`MailProofs` proves the three invariants of `mail` for all events, users and addresses. `Traced(m)` follows
a mail through its awaits: nothing is accepted before the await of `sendMail`, and at most once;
the recipient is an address noted for the addressee.

Model-checked only: the liveness properties `EveryCallEnds` and `EveryLookupEnds`, which are out of the
prover's reach, as is ENABLED (their safety parts are `LoopCorrect`, `NobodyWaitsCorrect` and `LookupsCorrect`); and the refuted properties of section 6, which do not hold.

## 6. Disagreements found

* `inbox_dangling` (`RecordsReferToNotification`): `notifications_user.entity.ts:11` requires a
  Notification of every record. `deleteAllNotification` awaits neither of its deletes, so a failed or
  early `deleteMany` leaves records without one, and `websocket.service.ts:76` then throws for every
  page that holds such a record. `DanglingExplained` says that there is no other way to get one.
* `inbox_unseen` (`UnseenIsCounted`): the API documents a count of what is not read
  (`notifications_api.controller.ts:39`), and one listing of ten takes everything out of it.
  `ReadUnseenExplained` says precisely what may be marked unseen.
* `presence_migration` (`MemoryPassedOn`): `memory.service.ts:27` compares the length of the method
  `memory.values`, so the local map is never moved to Redis as the lines after it intend.
* `delivery_optout` (`OptOutHonoured`): `usersWithPreference` (`notifications.service.ts:15-33`) is to
  keep those whose preferences do not say no, but filters with an `async` callback, whose promise
  counts as true. Classroom notifications reach everybody who has switched them off.
* `mail_plain` (`PlainMailIsTried`): `email.model.ts:9-10` makes `template` and `templateProps` optional
  beside `text` and `html`, but the handler (`mail/controllers/nats/nats.controller.ts:20`) writes into
  `templateProps`: a mail that has only a text throws there and is never tried.

## 7. Not modelled

* Authentication (`auth`): the guards decide each request from its token alone and keep nothing.
* API helpers and bootstrap: response formats, configuration, modules, logging; stateless, or run
  once before anything else.
* `MemoryService.get`, which has no caller, and the look-ups of `usersWithPreference`: nothing waits
  for them or uses what they find.
* The ceiling of 100 of `getCountNotifications`: it bounds a number in an answer and nothing else.
* The client, which is not part of the repository: it is told something is new and lists when it likes.
* The text of a mail: `convertTemplateToText` replaces the first occurrence of each key of `templateProps`. The handler
  adds two keys, the rest, `TOKEN` among them, comes from the event and is not checked, so that what is left
  unreplaced depends on the sender of the event.
* The sockets of other processes: the processes and their sockets are in `Delivery`, but the code has no way to reach
  the sockets of a process that did not take the event, and no property says that they are reached.
* Time: an await of a NATS request has no time limit (`hazards`), and no property depends on one.

## 8. Plan

Done, in this order:

1. `Fanout` with `FanoutProofs`.
2. `Inbox`.
3. `Presence`.
4. `Preferences` as a refinement of `PreferenceStore`, and `PreferencesProofs`.
5. `Delivery`: classroom and student events in several processes of one queue group.
6. `Mail` and `MailProofs`: addressing, one attempt.
7. `Announcement` and `Mailbox`, which `Fanout` and `Inbox` implement, with proofs.
8. The broadcasts of `notify/global` in `Delivery`.
9. `InboxProofs`, `PresenceProofs`, `DeliveryProofs`: every invariant that a run checks.
10. The advance of the loops of `Fanout` and the bound of their pages, `Directory` with its refinement by `Presence`, the
    queue of the look-ups, and `Delivery` as a second implementation of `Announcement`.

Left:

1. A composition of `Delivery` and `Inbox`: what a listing that starts at the hint finds, and a
   `delete_notification` for a global event, which removes the records of one page only.
2. `Presence` with several processes that share the keys in Redis.
