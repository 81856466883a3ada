------------------------------ MODULE Delivery --------------------------------
(***************************************************************************)
(* A notify event, from NATS to the sockets and to the records.            *)
(*                                                                         *)
(* The processes of the service share a queue group, so one of them takes  *)
(* an event; it begins to save the records and hints at them the sockets   *)
(* it has itself.  notify/global hints every socket of a namespace and     *)
(* saves page by page; what a page leaves out, for whatever reason, and    *)
(* when the loop ends is left open here: what that can cost is the subject *)
(* of Fanout.  The sockets of a course are those that were told so when    *)
(* they connected; its students are asked when the event comes.  Both      *)
(* answers come from another service, where students change their course   *)
(* meanwhile.  Inbox has the details of saving, Presence of finding one    *)
(* student's sockets.                                                      *)
(***************************************************************************)
EXTENDS Naturals

CONSTANTS
  Student,    \* the users who are students
  Staff,      \* the others
  Course,     \* the courses
  None,       \* no course
  Process,    \* the processes of the queue group
  Socket,     \* the sockets
  Space,      \* their namespaces: "/", "/students" or both
  Event,      \* the events
  Target,     \* what they may be for: courses, students, broadcasts
  MaxMoves    \* bound on the changes of course and of preference

User == Student \cup Staff

\* The values of data.Type of notify/global.
Broadcast == {"global", "student"}

ASSUME NoneAssumption == None \notin Course \cup Process
ASSUME KindAssumption ==
  /\ Course \cap Student = {} /\ Student \cap Staff = {}
  /\ Broadcast \cap (Course \cup Student) = {}
ASSUME SpaceAssumption == Space \subseteq {"/", "/students"}
ASSUME TargetAssumption == Target \subseteq Course \cup Student \cup Broadcast
ASSUME MovesAssumption == MaxMoves \in Nat

VARIABLES
  course,       \* of every user, as the other services have it
  classroomOff, \* users whose preferences say app.classroom = false
  globalsOff,   \* users whose preferences say app.globals = false
  moves,        \* changes of either so far (bounded)
  \* Sockets.
  owner, home, space,  \* the user, process and namespace of a socket (fixed)
  socket,       \* is it connected?
  joining,      \* where its handleConnection is
  answer,       \* the course that get_courses answers
  room,         \* the room it is in
  \* Events.
  target,       \* data.Room, IDUser or data.Type of the event (fixed)
  at,           \* the process that has taken it
  saving,       \* where its save is
  looking,      \* where the look-up of its student is
  audience,     \* whom the save, or its page, is for, from their answer to the end
  recipients,   \* the users with a record
  hinted,       \* the sockets it was emitted to
  \* History, read by the properties only.
  stale,        \* sockets whose user has moved since get_courses was answered
  enrolled,     \* those it is for when the event was taken
  joined,       \* connected sockets of its process, done joining, at that time
  outdated,     \* the stale ones among all sockets at that time
  shifted,      \* users who moved between then and the answer to the save, or
                \* changed their mind about a broadcast before its end
  silent        \* users opted out of a classroom event from then until it is saved

world   == <<course, classroomOff, globalsOff, moves>>
fixed   == <<owner, home, space>>
sockets == <<fixed, socket, joining, answer, room, stale>>
begun   == <<target, at, enrolled, joined, outdated>>
events  == <<begun, saving, looking, audience, recipients, hinted, shifted, silent>>
vars    == <<world, sockets, events>>

-----------------------------------------------------------------------------
Connected == {s \in Socket : socket[s] = "connected"}

EnrolledIn(c) == {u \in Student : course[u] = c}

\* The room a connected socket is put into; none for one that has left, whose
\* join does nothing.
Joins(s) == IF s \in Connected THEN answer[s] ELSE None

\* The namespace of the gateway that hints at events for t.
SpaceOf(t) == IF t = "global" THEN "/" ELSE "/students"

\* (Slip: every broadcast in the default namespace.)
SlipInSpace(p, t) == {s \in Connected : home[s] = p /\ space[s] = "/"}

\* emitNotificationsBradcast reaches the sockets of this process in the
\* namespace of its gateway.
InSpace(p, t) == {s \in Connected : home[s] = p /\ space[s] = SpaceOf(t)}

\* (Slip: every socket of the namespace.)
SlipInRoom(p, r) == InSpace(p, r)

\* emitNotificationsRoom reaches those of them in the room.
InRoom(p, r) == {s \in InSpace(p, r) : room[s] = r}

\* Those an event for t is for.
EnrolledFor(t) ==
  CASE t = "global"  -> User \ globalsOff
    [] t = "student" -> Student \ globalsOff
    [] t \in Course   -> EnrolledIn(t)
    [] t \in Student  -> {t}

\* usersWithPreference: the callback of its filter is async and returns a
\* promise, which counts as true whatever classroomOff says: all are kept.
UsersWithPreference(users) == users

\* The awaits of a save.
Unfinished == {"pages", "students", "notification", "records"}

\* Nobody has stored preferences yet: all of them are true by default.
Init ==
  /\ course \in [User -> Course \cup {None}]
  /\ classroomOff = {}
  /\ globalsOff = {}
  /\ moves = 0
  /\ owner \in [Socket -> User]
  /\ home \in [Socket -> Process]
  /\ space \in [Socket -> Space]
  /\ socket = [s \in Socket |-> "new"]
  /\ joining = [s \in Socket |-> "no"]
  /\ answer = [s \in Socket |-> None]
  /\ room = [s \in Socket |-> None]
  /\ target \in [Event -> Target]
  /\ at = [e \in Event |-> None]
  /\ saving = [e \in Event |-> "no"]
  /\ looking = [e \in Event |-> "no"]
  /\ audience = [e \in Event |-> {}]
  /\ recipients = [e \in Event |-> {}]
  /\ hinted = [e \in Event |-> {}]
  /\ stale = {}
  /\ enrolled = [e \in Event |-> {}]
  /\ joined = [e \in Event |-> {}]
  /\ outdated = [e \in Event |-> {}]
  /\ shifted = [e \in Event |-> {}]
  /\ silent = [e \in Event |-> {}]

-----------------------------------------------------------------------------
(* Sockets.                                                                *)

\* handleConnection: nothing in the default namespace, or up to the
\* registration in MemoryService.
Connect(s) ==
  /\ socket[s] = "new"
  /\ socket' = [socket EXCEPT ![s] = "connected"]
  /\ joining' = [joining EXCEPT ![s] = IF space[s] = "/" THEN "no" ELSE "set"]
  /\ UNCHANGED <<fixed, answer, room, stale, world, events>>

\* The registration ends, as it always does; get_courses is sent.
Registered(s) ==
  /\ joining[s] = "set"
  /\ joining' = [joining EXCEPT ![s] = "asked"]
  /\ UNCHANGED <<fixed, socket, answer, room, stale, world, events>>

\* The other service answers with the course of the student.
GetCourses(s) ==
  /\ joining[s] = "asked"
  /\ joining' = [joining EXCEPT ![s] = "answered"]
  /\ answer' = [answer EXCEPT ![s] = course[owner[s]]]
  /\ UNCHANGED <<fixed, socket, room, stale, world, events>>

\* (Slips: no room; a room for a socket that has left.)
SlipJoin(s, r) ==
  /\ joining[s] = "answered"
  /\ joining' = [joining EXCEPT ![s] = "done"]
  /\ answer' = [answer EXCEPT ![s] = None]
  /\ room' = [room EXCEPT ![s] = r]
  /\ UNCHANGED <<fixed, socket, stale, world, events>>
SlipJoinNot(s)  == SlipJoin(s, None)
SlipJoinLate(s) == SlipJoin(s, answer[s])

\* The answer arrives: joinCourseRoom joins the room of the course, if any.
JoinCourseRoom(s) ==
  /\ joining[s] = "answered"
  /\ joining' = [joining EXCEPT ![s] = "done"]
  /\ answer' = [answer EXCEPT ![s] = None]
  /\ room' = [room EXCEPT ![s] = Joins(s)]
  /\ UNCHANGED <<fixed, socket, stale, world, events>>

\* get_courses fails, and nobody catches it.
JoinFails(s) ==
  /\ joining[s] \in {"asked", "answered"}
  /\ joining' = [joining EXCEPT ![s] = "failed"]
  /\ answer' = [answer EXCEPT ![s] = None]
  /\ UNCHANGED <<fixed, socket, room, stale, world, events>>

\* The socket leaves its room; what handleConnection waits for still comes.
Disconnect(s) ==
  /\ s \in Connected
  /\ socket' = [socket EXCEPT ![s] = "closed"]
  /\ room' = [room EXCEPT ![s] = None]
  /\ UNCHANGED <<fixed, joining, answer, stale, world, events>>

-----------------------------------------------------------------------------
(* Events.                                                                 *)

\* The process p takes the event, whose handler runs up to its awaits.
\* notifyClassroom emits to the room at once and asks for the students,
\* notifyStudent knows its student and looks up his sockets;
\* getNotificationsGlobal emits to the namespace and starts its loop.
Take(e, p) ==
  /\ saving[e] = "no"
  /\ at' = [at EXCEPT ![e] = p]
  /\ \/ /\ target[e] \in Course
        /\ saving' = [saving EXCEPT ![e] = "students"]
        /\ hinted' = [hinted EXCEPT ![e] = InRoom(p, target[e])]
        /\ UNCHANGED <<looking, audience>>
     \/ /\ target[e] \in Broadcast
        /\ saving' = [saving EXCEPT ![e] = "pages"]
        /\ hinted' = [hinted EXCEPT ![e] = InSpace(p, target[e])]
        /\ UNCHANGED <<looking, audience>>
     \/ /\ target[e] \in Student
        /\ saving' = [saving EXCEPT ![e] = "notification"]
        /\ looking' = [looking EXCEPT ![e] = "keys"]
        /\ audience' = [audience EXCEPT ![e] = UsersWithPreference({target[e]})]
        /\ UNCHANGED hinted
  /\ enrolled' = [enrolled EXCEPT ![e] = EnrolledFor(target[e])]
  /\ joined' = [joined EXCEPT
       ![e] = {s \in Connected : /\ home[s] = p /\ space[s] = SpaceOf(target[e])
                                 /\ target[e] \in Broadcast \/ joining[s] = "done"}]
  /\ outdated' = [outdated EXCEPT ![e] = stale]
  /\ silent' = [silent EXCEPT ![e] = IF target[e] \in Broadcast THEN {} ELSE classroomOff]
  /\ UNCHANGED <<target, recipients, shifted, world, sockets>>

\* get_students_by_course is answered; the look-ups of the preferences, whose
\* results are dropped, are not waited for.
GetStudents(e) ==
  /\ saving[e] = "students"
  /\ saving' = [saving EXCEPT ![e] = "notification"]
  /\ audience' = [audience EXCEPT ![e] = UsersWithPreference(EnrolledIn(target[e]))]
  /\ UNCHANGED <<begun, looking, recipients, hinted, shifted, silent>>
  /\ UNCHANGED <<world, sockets>>

\* (Slip: the page read without its last $match, on the preferences.)
SlipReadPage(e) ==
  /\ saving[e] = "pages"
  /\ saving' = [saving EXCEPT ![e] = "notification"]
  /\ \E users \in SUBSET User : audience' = [audience EXCEPT ![e] = users]
  /\ UNCHANGED <<begun, looking, recipients, hinted, shifted, silent, world, sockets>>

\* getUsers or getStudents answers with a page: some of those that the broadcast
\* is for just then, and want it.
ReadPage(e) ==
  /\ saving[e] = "pages"
  /\ saving' = [saving EXCEPT ![e] = "notification"]
  /\ \E users \in SUBSET EnrolledFor(target[e]) :
       audience' = [audience EXCEPT ![e] = users]
  /\ UNCHANGED <<begun, looking, recipients, hinted, shifted, silent, world, sockets>>

\* insertNotificationClassroom, or insertNotification for a page.
InsertNotification(e) ==
  /\ saving[e] = "notification"
  /\ saving' = [saving EXCEPT ![e] = "records"]
  /\ UNCHANGED <<begun, looking, audience, recipients, hinted, shifted, silent>>
  /\ UNCHANGED <<world, sockets>>

\* (Slip: records only for those whose sockets were hinted.)
SlipInsertRecords(e) ==
  /\ saving[e] = "records"
  /\ saving' = [saving EXCEPT ![e] = "done"]
  /\ recipients' = [recipients EXCEPT
       ![e] = audience[e] \cap {owner[s] : s \in hinted[e]}]
  /\ UNCHANGED <<begun, looking, audience, hinted, shifted, silent, world, sockets>>

\* insertMany, or save of one record.  The loop of a broadcast goes on as long
\* as hasMore says, whoever has been read by then.
InsertRecords(e) ==
  /\ saving[e] = "records"
  /\ recipients' = [recipients EXCEPT ![e] = @ \cup audience[e]]
  /\ audience' = [audience EXCEPT ![e] = {}]
  /\ \/ saving' = [saving EXCEPT ![e] = "done"]
     \/ target[e] \in Broadcast /\ saving' = [saving EXCEPT ![e] = "pages"]
  /\ UNCHANGED <<begun, looking, hinted, shifted, silent, world, sockets>>

\* An await of the save rejects, and nobody catches it.
SaveFails(e) ==
  /\ saving[e] \in Unfinished
  /\ saving' = [saving EXCEPT ![e] = "failed"]
  /\ \E some \in SUBSET audience[e] :
       /\ saving[e] # "records" => some = {}
       /\ recipients' = [recipients EXCEPT ![e] = @ \cup some]
  /\ audience' = [audience EXCEPT ![e] = {}]
  /\ UNCHANGED <<begun, looking, hinted, shifted, silent, world, sockets>>

\* emitNotificationToUser has the sockets of the student, or some of them,
\* and reaches the connected ones of its process.
EmitToUser(e) ==
  /\ looking[e] = "keys"
  /\ looking' = [looking EXCEPT ![e] = "done"]
  /\ \E found \in SUBSET {s \in Socket : owner[s] = target[e] /\ joining[s] # "no"} :
       hinted' = [hinted EXCEPT ![e] = {s \in found \cap Connected : home[s] = at[e]}]
  /\ UNCHANGED <<begun, saving, audience, recipients, shifted, silent>>
  /\ UNCHANGED <<world, sockets>>

\* The process p stops, and is started again: its sockets are closed, what it
\* was doing is lost.
Stop(p) ==
  /\ socket' = [s \in Socket |->
       IF home[s] = p /\ s \in Connected THEN "closed" ELSE socket[s]]
  /\ room' = [s \in Socket |-> IF home[s] = p THEN None ELSE room[s]]
  /\ joining' = [s \in Socket |->
       IF home[s] = p /\ joining[s] \in {"set", "asked", "answered"}
         THEN "failed" ELSE joining[s]]
  /\ answer' = [s \in Socket |-> IF home[s] = p THEN None ELSE answer[s]]
  /\ saving' = [e \in Event |->
       IF at[e] = p /\ saving[e] \in Unfinished
         THEN "failed" ELSE saving[e]]
  /\ looking' = [e \in Event |->
       IF at[e] = p /\ looking[e] = "keys" THEN "lost" ELSE looking[e]]
  /\ audience' = [e \in Event |-> IF at[e] = p THEN {} ELSE audience[e]]
  /\ UNCHANGED <<fixed, stale>>
  /\ UNCHANGED <<begun, recipients, hinted, shifted, silent>>
  /\ UNCHANGED world

-----------------------------------------------------------------------------
(* The other services, and clients that change their preferences.          *)

\* A user changes to the course c, or to none.
Move(u, c) ==
  /\ moves < MaxMoves
  /\ moves' = moves + 1
  /\ course[u] # c
  /\ course' = [course EXCEPT ![u] = c]
  /\ stale' = stale \cup
       {s \in Socket : owner[s] = u /\ joining[s] \in {"answered", "done"}}
  /\ shifted' = [e \in Event |->
       IF saving[e] = "students" THEN shifted[e] \cup {u} ELSE shifted[e]]
  /\ UNCHANGED <<classroomOff, globalsOff, fixed, socket, joining, answer, room>>
  /\ UNCHANGED <<begun, saving, looking, audience, recipients, hinted, silent>>

\* changePreferences stores another app.classroom.
ChangeClassroom(u) ==
  /\ moves < MaxMoves
  /\ moves' = moves + 1
  /\ \/ u \in classroomOff /\ classroomOff' = classroomOff \ {u}
     \/ u \notin classroomOff /\ classroomOff' = classroomOff \cup {u}
  /\ silent' = [e \in Event |->
       IF saving[e] \in {"done", "failed"} THEN silent[e] ELSE silent[e] \ {u}]
  /\ UNCHANGED <<course, globalsOff, begun, saving, looking, audience, recipients, hinted, shifted>>
  /\ UNCHANGED sockets

\* changePreferences stores another app.globals.
ChangeGlobals(u) ==
  /\ moves < MaxMoves
  /\ moves' = moves + 1
  /\ \/ u \in globalsOff /\ globalsOff' = globalsOff \ {u}
     \/ u \notin globalsOff /\ globalsOff' = globalsOff \cup {u}
  /\ shifted' = [e \in Event |->
       IF target[e] \in Broadcast /\ saving[e] \in Unfinished
         THEN shifted[e] \cup {u} ELSE shifted[e]]
  /\ UNCHANGED <<course, classroomOff, begun, saving, looking, audience, recipients>>
  /\ UNCHANGED <<hinted, silent, sockets>>

-----------------------------------------------------------------------------
Next ==
  \/ \E s \in Socket :
       \/ Connect(s)
       \/ Registered(s)
       \/ GetCourses(s)
       \/ JoinCourseRoom(s)
       \/ JoinFails(s)
       \/ Disconnect(s)
  \/ \E e \in Event :
       \/ \E p \in Process : Take(e, p)
       \/ GetStudents(e)
       \/ InsertNotification(e)
       \/ InsertRecords(e)
       \/ ReadPage(e)
       \/ SaveFails(e)
       \/ EmitToUser(e)
  \/ \E p \in Process : Stop(p)
  \/ \E u \in User :
       \/ \E c \in Course \cup {None} : Move(u, c)
       \/ ChangeClassroom(u)
       \/ ChangeGlobals(u)

Spec == Init /\ [][Next]_vars

-----------------------------------------------------------------------------
(* Properties.                                                             *)

\* The variables have the types of the sockets and of the events; only a
\* connected socket is in a room.
TypeOK ==
  /\ course \in [User -> Course \cup {None}]
  /\ classroomOff \subseteq User
  /\ globalsOff \subseteq User
  /\ moves \in 0 .. MaxMoves
  /\ owner \in [Socket -> User]
  /\ home \in [Socket -> Process]
  /\ space \in [Socket -> Space]
  /\ socket \in [Socket -> {"new", "connected", "closed"}]
  /\ joining \in [Socket -> {"no", "set", "asked", "answered", "done", "failed"}]
  /\ answer \in [Socket -> Course \cup {None}]
  /\ room \in [Socket -> Course \cup {None}]
  /\ \A s \in Socket : room[s] # None => s \in Connected
  /\ target \in [Event -> Target]
  /\ at \in [Event -> Process \cup {None}]
  /\ saving \in [Event -> {"no", "done", "failed"} \cup Unfinished]
  /\ looking \in [Event -> {"no", "keys", "done", "lost"}]
  /\ audience \in [Event -> SUBSET User]
  /\ recipients \in [Event -> SUBSET User]
  /\ hinted \in [Event -> SUBSET Socket]
  /\ stale \subseteq Socket
  /\ enrolled \in [Event -> SUBSET User]
  /\ joined \in [Event -> SUBSET Socket]
  /\ outdated \in [Event -> SUBSET Socket]
  /\ shifted \in [Event -> SUBSET User]
  /\ silent \in [Event -> SUBSET User]

\* A hint announces a record: once an event for a course or a student is saved,
\* every socket it was emitted to belongs to a user with a record, unless he is
\* no student, or has changed his course since the socket asked for it or before
\* the save did.  (A broadcast promises no such thing: its offset can skip a user
\* who is hinted, see MissedAtMostDrops of Fanout.)
HintAnnouncesRecord ==
  \A e \in Event, s \in Socket :
    saving[e] = "done" /\ target[e] \notin Broadcast /\ s \in hinted[e] =>
      \/ owner[s] \in recipients[e] \cup shifted[e]
      \/ owner[s] \in Staff \/ s \in outdated[e]

\* A record is hinted at: of a user who gets a record of a broadcast or of a
\* course event, the sockets of the namespace that had joined at the process
\* that took it were hinted, with the same exceptions for a course.  (Of the
\* sockets of the other processes it says nothing: the code does not reach them.)
RecordIsHinted ==
  \A e \in Event, s \in Socket :
    /\ saving[e] = "done" /\ target[e] \notin Student
    /\ s \in joined[e] /\ owner[s] \in recipients[e]
    => \/ s \in hinted[e]
       \/ target[e] \in Course /\ (s \in outdated[e] \/ owner[s] \in shifted[e])

\* The records of a course event are for those who were in the course when it
\* was taken, but for students who moved before the save asked for them: no
\* matter which process took it, who is connected and what else fails.
CourseIsRecorded ==
  \A e \in Event :
    saving[e] = "done" /\ target[e] \in Course =>
      /\ enrolled[e] \ shifted[e] \subseteq recipients[e]
      /\ recipients[e] \subseteq enrolled[e] \cup shifted[e]

\* Whatever an event is for and however it is saved, the save is an announcement:
\* only those enrolled when it was taken, or who changed their course or their
\* mind meanwhile, are told, page after page, and no process that stops takes a
\* record back.  That all of them are told who did not change is due of courses
\* and students; whom the pages of a broadcast may miss, Fanout tells.
Phase == [e \in Event |-> IF saving[e] = "no" THEN "idle"
                         ELSE IF saving[e] \in Unfinished THEN "open" ELSE saving[e]]

Due == [e \in Event |->
  IF target[e] \in Broadcast THEN {} ELSE enrolled[e] \ shifted[e]]

Barred == [e \in Event |->
  IF saving[e] = "no" THEN {} ELSE User \ (enrolled[e] \cup shifted[e])]

Excused == [e \in Event |-> 0]

Promise == INSTANCE Announcement
  WITH phase <- Phase, due <- Due, barred <- Barred, excused <- Excused,
       told <- recipients

ImplementsAnnouncement == Promise!Spec

\* (Refuted.)  usersWithPreference is to keep the users whose preferences do
\* not say app.classroom = false: a student opted out all the while gets no
\* record.
OptOutHonoured == \A e \in Event : silent[e] \cap recipients[e] = {}
=============================================================================
