---------------------------- MODULE DeliveryProofs ----------------------------
(***************************************************************************)
(* What Delivery promises, for every number of users, courses, processes,  *)
(* sockets and events.  The argument follows the two answers of the other  *)
(* service: the one a socket got when it connected, true until its user    *)
(* moves, and the one the save gets, true to the event but for those who   *)
(* moved before it.                                                        *)
(***************************************************************************)
EXTENDS Delivery, FiniteSetTheorems, TLAPS

-----------------------------------------------------------------------------
(* Type correctness.                                                       *)

\* The steps of one socket keep the types.
LEMMA SocketTypes ==
  ASSUME TypeOK, NEW s \in Socket,
         \/ Connect(s) \/ Registered(s) \/ GetCourses(s)
         \/ JoinCourseRoom(s) \/ JoinFails(s) \/ Disconnect(s)
  PROVE  TypeOK'
<1> USE DEF TypeOK, Connected
<1>1. CASE Connect(s)
  BY <1>1 DEF Connect, fixed, world, events, begun
<1>2. CASE Registered(s)
  BY <1>2 DEF Registered, fixed, world, events, begun
<1>3. CASE GetCourses(s)
  BY <1>3 DEF GetCourses, fixed, world, events, begun
<1>4. CASE JoinCourseRoom(s)
  <2>1. /\ room' = [room EXCEPT ![s] = Joins(s)] /\ UNCHANGED socket
        /\ Joins(s) \in Course \cup {None} /\ (Joins(s) # None => socket[s] = "connected")
    BY <1>4 DEF JoinCourseRoom, Joins
  <2>2. \A t \in Socket : room'[t] # None => socket'[t] = "connected"
    BY <2>1
  <2> QED
    BY <1>4, <2>1, <2>2 DEF JoinCourseRoom, fixed, world, events, begun
<1>5. CASE JoinFails(s)
  BY <1>5 DEF JoinFails, fixed, world, events, begun
<1>6. CASE Disconnect(s)
  <2>1. \A t \in Socket : room'[t] # None => socket'[t] = "connected"
    BY <1>6 DEF Disconnect
  <2> QED
    BY <1>6, <2>1 DEF Disconnect, fixed, world, events, begun
<1> QED
  BY <1>1, <1>2, <1>3, <1>4, <1>5, <1>6

\* Those an event is for are users; for a course or a student, students.
LEMMA EnrolledTypes ==
  ASSUME TypeOK, NEW t \in Target
  PROVE  /\ EnrolledFor(t) \in SUBSET User
         /\ t \in Course => EnrolledFor(t) = EnrolledIn(t)
         /\ t \in Student => EnrolledFor(t) = {t}
         /\ EnrolledIn(t) \in SUBSET Student
<1>1. t \in Course \cup Student \cup {"global", "student"}
  BY TargetAssumption DEF Broadcast
<1>2. /\ t \in Course => t \notin Student /\ t # "global" /\ t # "student"
      /\ t \in Student => t # "global" /\ t # "student"
  BY KindAssumption DEF Broadcast
<1>3. /\ t \in Course => EnrolledFor(t) = EnrolledIn(t)
      /\ t \in Student => EnrolledFor(t) = {t}
  BY <1>2 DEF EnrolledFor
<1>4. ASSUME t = "global" \/ t = "student"
      PROVE  EnrolledFor(t) \in SUBSET User
  <2>1. CASE t = "global"
    <3>1. EnrolledFor(t) = User \ globalsOff
      BY <1>2, <2>1 DEF EnrolledFor
    <3> QED
      BY <3>1
  <2>2. CASE t = "student"
    <3>1. EnrolledFor(t) = Student \ globalsOff
      BY <1>2, <2>2 DEF EnrolledFor
    <3> QED
      BY <3>1 DEF User
  <2> QED
    BY <1>4, <2>1, <2>2
<1>5. EnrolledIn(t) \in SUBSET Student
  BY DEF EnrolledIn
<1>6. EnrolledFor(t) \in SUBSET User
  <2>1. CASE t \in Course
    BY <1>3, <1>5, <2>1 DEF User
  <2>2. CASE t \in Student
    BY <1>3, <2>2 DEF User
  <2> QED
    BY <1>1, <1>4, <2>1, <2>2
<1> QED
  BY <1>3, <1>5, <1>6

\* The process takes the event.
LEMMA TakeTypes ==
  ASSUME TypeOK, NEW e \in Event, NEW p \in Process, Take(e, p)
  PROVE  TypeOK'
<1> USE DEF TypeOK
<1>1. target[e] \in Target /\ EnrolledFor(target[e]) \in SUBSET User
  BY EnrolledTypes
<1>2. /\ at' \in [Event -> Process \cup {None}]
      /\ enrolled' \in [Event -> SUBSET User]
      /\ outdated' \in [Event -> SUBSET Socket]
      /\ silent' \in [Event -> SUBSET User]
      /\ UNCHANGED <<target, recipients, shifted, world, sockets>>
  BY <1>1 DEF Take
<1>3. joined' \in [Event -> SUBSET Socket]
  BY DEF Take, Connected
<1>4. /\ InRoom(p, target[e]) \in SUBSET Socket
      /\ InSpace(p, target[e]) \in SUBSET Socket
  BY DEF InRoom, InSpace, Connected
<1>5. /\ saving' \in [Event -> {"no", "done", "failed"} \cup Unfinished]
      /\ looking' \in [Event -> {"no", "keys", "done", "lost"}]
      /\ hinted' \in [Event -> SUBSET Socket]
  BY <1>4 DEF Take, Unfinished
<1>6. audience' \in [Event -> SUBSET User]
  <2>1. target[e] \in Student => {target[e]} \in SUBSET User
    BY DEF User
  <2>2. \/ audience' = audience
        \/ target[e] \in Student /\ audience' = [audience EXCEPT ![e] = {target[e]}]
    BY DEF Take, UsersWithPreference
  <2> QED
    BY <2>1, <2>2
<1> QED
  BY <1>2, <1>3, <1>5, <1>6 DEF world, sockets, fixed, Connected

\* The other steps of one event keep the types.
LEMMA EventTypes ==
  ASSUME TypeOK, NEW e \in Event,
         \/ GetStudents(e) \/ InsertNotification(e) \/ InsertRecords(e)
         \/ ReadPage(e) \/ SaveFails(e) \/ EmitToUser(e)
  PROVE  TypeOK'
<1> USE DEF TypeOK, Unfinished
<1>1. CASE GetStudents(e)
  <2>1. EnrolledIn(target[e]) \in SUBSET User
    BY DEF EnrolledIn, User
  <2> QED
    BY <1>1, <2>1
    DEF GetStudents, UsersWithPreference, begun, world, sockets, fixed, Connected
<1>2. CASE InsertNotification(e)
  BY <1>2 DEF InsertNotification, begun, world, sockets, fixed, Connected
<1>3. CASE InsertRecords(e)
  <2>1. recipients' \in [Event -> SUBSET User]
    BY <1>3 DEF InsertRecords
  <2>2. saving' \in [Event -> {"no", "done", "failed"} \cup Unfinished]
    BY <1>3 DEF InsertRecords
  <2> QED
    BY <1>3, <2>1, <2>2 DEF InsertRecords, begun, world, sockets, fixed, Connected
<1>4. CASE ReadPage(e)
  <2>1. EnrolledFor(target[e]) \in SUBSET User
    BY EnrolledTypes
  <2>2. PICK users \in SUBSET EnrolledFor(target[e]) :
          audience' = [audience EXCEPT ![e] = users]
    BY <1>4 DEF ReadPage
  <2>3. audience' \in [Event -> SUBSET User]
    BY <2>1, <2>2
  <2> QED
    BY <1>4, <2>3 DEF ReadPage, begun, world, sockets, fixed, Connected
<1>5. CASE SaveFails(e)
  <2>1. PICK some \in SUBSET audience[e] :
          recipients' = [recipients EXCEPT ![e] = @ \cup some]
    BY <1>5 DEF SaveFails
  <2>2. recipients' \in [Event -> SUBSET User]
    BY <2>1
  <2> QED
    BY <1>5, <2>2 DEF SaveFails, begun, world, sockets, fixed, Connected
<1>6. CASE EmitToUser(e)
  <2>1. hinted' \in [Event -> SUBSET Socket]
    BY <1>6 DEF EmitToUser, Connected
  <2> QED
    BY <1>6, <2>1 DEF EmitToUser, begun, world, sockets, fixed, Connected
<1> QED
  BY <1>1, <1>2, <1>3, <1>4, <1>5, <1>6

\* So do the stop of a process and the changes of users.
LEMMA OtherTypes ==
  ASSUME TypeOK,
         \/ \E p \in Process : Stop(p)
         \/ \E u \in User : \/ \E c \in Course \cup {None} : Move(u, c)
                            \/ ChangeClassroom(u)
                            \/ ChangeGlobals(u)
  PROVE  TypeOK'
<1> USE DEF TypeOK, Unfinished
<1>1. ASSUME NEW p \in Process, Stop(p)
      PROVE  TypeOK'
  <2>1. /\ socket' \in [Socket -> {"new", "connected", "closed"}]
        /\ room' \in [Socket -> Course \cup {None}]
        /\ answer' \in [Socket -> Course \cup {None}]
        /\ joining' \in [Socket -> {"no", "set", "asked", "answered", "done", "failed"}]
    BY <1>1 DEF Stop
  <2>2. \A s \in Socket : room'[s] # None => socket'[s] = "connected"
    BY <1>1 DEF Stop, Connected
  <2>3. /\ saving' \in [Event -> {"no", "done", "failed"} \cup Unfinished]
        /\ looking' \in [Event -> {"no", "keys", "done", "lost"}]
    BY <1>1 DEF Stop
  <2>4. audience' \in [Event -> SUBSET User]
    BY <1>1 DEF Stop
  <2> QED
    BY <1>1, <2>1, <2>2, <2>3, <2>4 DEF Stop, begun, world, fixed, Connected
<1>2. ASSUME NEW u \in User, NEW c \in Course \cup {None}, Move(u, c)
      PROVE  TypeOK'
  <2>1. /\ course' \in [User -> Course \cup {None}] /\ moves' \in 0 .. MaxMoves
        /\ stale' \in SUBSET Socket /\ shifted' \in [Event -> SUBSET User]
    BY <1>2, MovesAssumption DEF Move
  <2> QED
    BY <1>2, <2>1 DEF Move, begun, fixed, Connected
<1>3. ASSUME NEW u \in User, ChangeClassroom(u)
      PROVE  TypeOK'
  <2>1. /\ classroomOff' \in SUBSET User /\ moves' \in 0 .. MaxMoves
        /\ silent' \in [Event -> SUBSET User]
    BY <1>3, MovesAssumption DEF ChangeClassroom
  <2> QED
    BY <1>3, <2>1 DEF ChangeClassroom, begun, sockets, fixed, Connected
<1>4. ASSUME NEW u \in User, ChangeGlobals(u)
      PROVE  TypeOK'
  <2>1. /\ globalsOff' \in SUBSET User /\ moves' \in 0 .. MaxMoves
        /\ shifted' \in [Event -> SUBSET User]
    BY <1>4, MovesAssumption DEF ChangeGlobals
  <2> QED
    BY <1>4, <2>1 DEF ChangeGlobals, begun, sockets, fixed, Connected
<1> QED
  BY <1>1, <1>2, <1>3, <1>4

LEMMA DeliveryTypes == TypeOK /\ [Next]_vars => TypeOK'
<1>1. TypeOK /\ UNCHANGED vars => TypeOK'
  BY DEF TypeOK, vars, world, sockets, fixed, events, begun, Connected
<1> QED
  BY <1>1, SocketTypes, TakeTypes, EventTypes, OtherTypes DEF Next

\* Sockets, rooms and events are well typed, and no socket that has left is in
\* a room.
THEOREM DeliveryTypeCorrect == Spec => []TypeOK
<1>1. Init => TypeOK
  BY MovesAssumption DEF Init, TypeOK, Connected
<1> QED
  BY <1>1, DeliveryTypes, PTL DEF Spec

-----------------------------------------------------------------------------
(* What a socket knows.                                                    *)

\* A socket has the course of its user, on the way or as its room, until the
\* user moves.
Informed(s) ==
  /\ room[s] # None => joining[s] = "done"
  /\ s \notin stale =>
       /\ joining[s] = "answered" => answer[s] = course[owner[s]]
       /\ joining[s] = "done" /\ s \in Connected => room[s] = course[owner[s]]

LEMMA InformedStep ==
  ASSUME TypeOK, [Next]_vars, NEW s \in Socket, Informed(s)
  PROVE  Informed(s)'
<1> USE DEF TypeOK, Informed, Connected
<1>1. ASSUME NEW t \in Socket, Connect(t) \/ Registered(t) \/ GetCourses(t)
      PROVE  Informed(s)'
  BY <1>1 DEF Connect, Registered, GetCourses, fixed, world
<1>2. ASSUME NEW t \in Socket, JoinCourseRoom(t) \/ JoinFails(t) \/ Disconnect(t)
      PROVE  Informed(s)'
  BY <1>2 DEF JoinCourseRoom, Joins, JoinFails, Disconnect, fixed, world
<1>3. ASSUME NEW p \in Process, Stop(p)
      PROVE  Informed(s)'
  BY <1>3 DEF Stop, fixed, world
<1>4. ASSUME NEW u \in User, NEW c \in Course \cup {None}, Move(u, c)
      PROVE  Informed(s)'
  BY <1>4 DEF Move, fixed
<1>5. ASSUME UNCHANGED <<course, sockets>>
      PROVE  Informed(s)'
  BY <1>5 DEF sockets, fixed
<1>6. ASSUME NEW u \in User, ChangeClassroom(u) \/ ChangeGlobals(u)
      PROVE  UNCHANGED <<course, sockets>>
  BY <1>6 DEF ChangeClassroom, ChangeGlobals
<1>7. ASSUME NEW e \in Event,
             \/ \E p \in Process : Take(e, p)
             \/ GetStudents(e) \/ InsertNotification(e) \/ InsertRecords(e)
             \/ ReadPage(e) \/ SaveFails(e) \/ EmitToUser(e)
      PROVE  UNCHANGED <<course, sockets>>
  BY <1>7
  DEF Take, GetStudents, InsertNotification, InsertRecords, ReadPage, SaveFails,
      EmitToUser, world
<1>8. CASE UNCHANGED vars
  BY <1>5, <1>8 DEF vars, world
<1> QED
  BY <1>1, <1>2, <1>3, <1>4, <1>5, <1>6, <1>7, <1>8 DEF Next

-----------------------------------------------------------------------------
(* What an event knows.                                                    *)

\* The awaits follow from what the event is for.
Routed(e) ==
  /\ looking[e] = "keys" => target[e] \in Student
  /\ saving[e] = "pages" => target[e] \in Broadcast
  /\ saving[e] = "students" => target[e] \in Course

\* The sockets hinted are those that had joined, and of a course those of
\* its students, but for the outdated ones.
Hinted(e) ==
  /\ target[e] \in Broadcast => joined[e] \subseteq hinted[e]
  /\ target[e] \in Course =>
       \A s \in Socket \ outdated[e] :
         /\ s \in joined[e] /\ owner[s] \in enrolled[e] => s \in hinted[e]
         /\ s \in hinted[e] /\ owner[s] \in Student => owner[s] \in enrolled[e]
  /\ target[e] \in Student => \A s \in hinted[e] : owner[s] = target[e]

\* Whom the broadcast e is for just then.
Wanting(e) == (IF target[e] = "global" THEN User ELSE Student) \ globalsOff

\* The audience are those enrolled, but for those who moved, and they get the
\* records, at once unless page by page; whom a broadcast is for, or its page,
\* has wanted it when it was taken or changed his mind since.
Recorded(e) ==
  /\ saving[e] = "students" =>
       \A u \in User \ shifted[e] : u \in EnrolledIn(target[e]) <=> u \in enrolled[e]
  /\ target[e] \in Course /\ saving[e] \in {"notification", "records"} =>
       \A u \in User \ shifted[e] : u \in audience[e] <=> u \in enrolled[e]
  /\ target[e] \in Course /\ saving[e] = "done" =>
       \A u \in User \ shifted[e] : u \in recipients[e] <=> u \in enrolled[e]
  /\ target[e] \in Student =>
       /\ enrolled[e] = {target[e]}
       /\ saving[e] \in {"notification", "records"} => audience[e] = {target[e]}
       /\ saving[e] = "done" => recipients[e] = {target[e]}
  /\ target[e] \notin Broadcast /\ saving[e] \in Unfinished => recipients[e] = {}
  /\ target[e] \in Broadcast /\ saving[e] \in Unfinished =>
       /\ Wanting(e) \subseteq enrolled[e] \cup shifted[e]
       /\ audience[e] \subseteq enrolled[e] \cup shifted[e]

Traced(e) ==
  IF saving[e] = "no"
    THEN looking[e] = "no" /\ hinted[e] = {} /\ recipients[e] = {} /\ audience[e] = {}
    ELSE Routed(e) /\ Hinted(e) /\ Recorded(e)

\* The kinds of targets exclude each other.
LEMMA Kinds ==
  ASSUME TypeOK, NEW e \in Event
  PROVE  /\ target[e] \in Course \cup Student \cup Broadcast
         /\ target[e] \in Course => target[e] \notin Student \cup Broadcast
         /\ target[e] \in Student => target[e] \notin Broadcast
BY KindAssumption, TargetAssumption DEF TypeOK

\* Whom a broadcast is for depends on what the users want, not on their courses.
LEMMA BroadcastFor ==
  ASSUME TypeOK, NEW e \in Event, target[e] \in Broadcast
  PROVE  EnrolledFor(target[e]) = Wanting(e)
<1>1. target[e] \notin Course \cup Student
  BY KindAssumption
<1>2. CASE target[e] = "global"
  BY <1>1, <1>2 DEF EnrolledFor, Wanting
<1>3. CASE target[e] = "student"
  <2>1. EnrolledFor(target[e]) = Student \ globalsOff
    BY <1>1, <1>3 DEF EnrolledFor
  <2> QED
    BY <1>3, <2>1 DEF Wanting
<1> QED
  BY <1>2, <1>3 DEF Broadcast

\* Taking an event of a course: a socket that is not stale is in the room if,
\* and only if, its user is a student of the course.
LEMMA TakeTraces ==
  ASSUME TypeOK, \A s \in Socket : Informed(s),
         NEW e \in Event, NEW p \in Process, Take(e, p), Traced(e)
  PROVE  Traced(e)'
<1> USE DEF TypeOK
<1>1. /\ target[e] \in Target
      /\ target[e] \in Course => EnrolledFor(target[e]) = EnrolledIn(target[e])
      /\ target[e] \in Student => EnrolledFor(target[e]) = {target[e]}
  BY EnrolledTypes
<1>2. /\ UNCHANGED <<target, recipients, shifted, owner, course>>
      /\ enrolled'[e] = EnrolledFor(target[e]) /\ outdated'[e] = stale
      /\ looking[e] = "no" /\ hinted[e] = {} /\ recipients[e] = {}
  BY DEF Take, world, sockets, fixed, Traced
<1>8. joined'[e] = {s \in Connected : /\ home[s] = p /\ space[s] = SpaceOf(target[e])
                                      /\ target[e] \in Broadcast \/ joining[s] = "done"}
  BY DEF Take
<1>3. CASE target[e] \in Course
  <2>1. /\ target[e] \notin Student \cup Broadcast /\ saving'[e] = "students"
        /\ hinted'[e] = InRoom(p, target[e]) /\ looking' = looking
    BY <1>3, Kinds DEF Take
  <2>2. EnrolledIn(target[e])' = EnrolledIn(target[e]) /\ target[e] # None
    BY <1>2, <1>8, <1>3, NoneAssumption DEF EnrolledIn
  <2>3. ASSUME NEW s \in Socket \ stale
        PROVE  /\ s \in joined'[e] /\ owner[s] \in enrolled'[e] => s \in hinted'[e]
               /\ s \in hinted'[e] /\ owner[s] \in Student => owner[s] \in enrolled'[e]
    <3>1. CASE s \in joined'[e] /\ owner[s] \in enrolled'[e]
      <4>1. /\ s \in Connected /\ joining[s] = "done"
            /\ home[s] = p /\ space[s] = SpaceOf(target[e])
        BY ONLY <1>8, <2>1, <3>1
      <4>2. course[owner[s]] = target[e]
        BY <1>1, <1>2, <1>3, <3>1 DEF EnrolledIn
      <4>3. room[s] = target[e]
        BY <4>1, <4>2 DEF Informed
      <4> QED
        BY <2>1, <3>1, <4>1, <4>3 DEF InRoom, InSpace
    <3>2. CASE s \in hinted'[e] /\ owner[s] \in Student
      <4>1. s \in Connected /\ room[s] = target[e]
        BY <2>1, <3>2 DEF InRoom, InSpace
      <4>2. course[owner[s]] = target[e]
        BY <2>2, <4>1 DEF Informed
      <4> QED
        BY <1>1, <1>2, <1>8, <1>3, <3>2, <4>2 DEF EnrolledIn
    <3> QED
      BY <3>1, <3>2
  <2>4. Hinted(e)'
    BY <1>2, <1>8, <2>1, <2>3 DEF Hinted
  <2> QED
    BY <1>1, <1>2, <1>8, <1>3, <2>1, <2>2, <2>4 DEF Traced, Routed, Recorded
<1>4. CASE target[e] \in Broadcast
  <2>1. /\ target[e] \notin Student \cup Course /\ saving'[e] = "pages"
        /\ hinted'[e] = InSpace(p, target[e]) /\ looking' = looking
    BY <1>4, Kinds DEF Take
  <2>2. joined'[e] \subseteq hinted'[e]
    BY ONLY <1>8, <2>1 DEF InSpace
  <2>3. /\ Wanting(e)' = EnrolledFor(target[e])
        /\ audience' = audience /\ audience[e] = {}
    <3>1. globalsOff' = globalsOff /\ target' = target
      BY DEF Take, world
    <3>2. Wanting(e)' = Wanting(e)
      BY <3>1 DEF Wanting
    <3>3. audience' = audience /\ audience[e] = {}
      BY <1>4, <2>1 DEF Take, Traced
    <3> QED
      BY <1>4, <3>2, <3>3, BroadcastFor
  <2>4. Hinted(e)'
    BY <1>2, <1>4, <2>1, <2>2 DEF Hinted
  <2>5. Routed(e)' /\ Recorded(e)'
    BY <1>2, <1>4, <2>1, <2>3 DEF Routed, Recorded
  <2> QED
    BY <2>1, <2>4, <2>5 DEF Traced
<1>5. CASE target[e] \in Student
  <2>1. /\ target[e] \notin Course \cup Broadcast /\ saving'[e] = "notification"
        /\ audience'[e] = {target[e]} /\ hinted' = hinted
    BY <1>5, Kinds DEF Take, UsersWithPreference
  <2>2. enrolled'[e] = {target[e]} /\ recipients'[e] = {}
    BY <1>1, <1>2, <1>5
  <2>3. Hinted(e)'
    BY <1>2, <1>5, <2>1 DEF Hinted
  <2>4. Recorded(e)' /\ Routed(e)'
    BY <1>2, <1>5, <2>1, <2>2 DEF Recorded, Routed
  <2> QED
    BY <2>1, <2>3, <2>4 DEF Traced
<1> QED
  BY <1>3, <1>4, <1>5, Kinds

\* A step that leaves an event and the courses alone keeps what it knows.
Idles(e) ==
  /\ UNCHANGED <<course, globalsOff, owner, target>>
  /\ saving'[e] = saving[e] /\ looking'[e] = looking[e]
  /\ audience'[e] = audience[e] /\ recipients'[e] = recipients[e]
  /\ hinted'[e] = hinted[e] /\ enrolled'[e] = enrolled[e] /\ joined'[e] = joined[e]
  /\ outdated'[e] = outdated[e] /\ shifted'[e] = shifted[e]

LEMMA IdleTraces ==
  ASSUME NEW e \in Event, Traced(e), Idles(e)
  PROVE  Traced(e)'
BY DEF Idles, Traced, Routed, Hinted, Recorded, EnrolledIn, Wanting

\* The steps of sockets, of the other events, and changes of the preference
\* that is never applied leave an event alone.
LEMMA SocketIdles ==
  ASSUME NEW e \in Event,
         \/ \E s \in Socket : \/ Connect(s) \/ Registered(s) \/ GetCourses(s)
                              \/ JoinCourseRoom(s) \/ JoinFails(s) \/ Disconnect(s)
         \/ \E u \in User : ChangeClassroom(u)
         \/ UNCHANGED vars
  PROVE  Idles(e)
BY DEF Idles, Connect, Registered, GetCourses, JoinCourseRoom, JoinFails, Disconnect,
       ChangeClassroom, vars, world, sockets, fixed, events, begun

LEMMA OtherEventIdles ==
  ASSUME TypeOK, NEW e \in Event, NEW d \in Event, d # e,
         \/ \E p \in Process : Take(d, p)
         \/ GetStudents(d) \/ InsertNotification(d) \/ InsertRecords(d)
         \/ ReadPage(d) \/ SaveFails(d) \/ EmitToUser(d)
  PROVE  Idles(e)
<1> USE DEF TypeOK, Idles, world, sockets, fixed, begun
<1>1. ASSUME NEW p \in Process, Take(d, p)
      PROVE  Idles(e)
  BY <1>1 DEF Take
<1>2. CASE GetStudents(d) \/ InsertNotification(d) \/ InsertRecords(d)
  BY <1>2 DEF GetStudents, InsertNotification, InsertRecords
<1>3. CASE ReadPage(d)
  BY <1>3 DEF ReadPage
<1>4. CASE SaveFails(d) \/ EmitToUser(d)
  BY <1>4 DEF SaveFails, EmitToUser
<1> QED
  BY <1>1, <1>2, <1>3, <1>4

\* The steps of the save of an event.
LEMMA SaveTraces ==
  ASSUME TypeOK, NEW e \in Event, Traced(e),
         \/ GetStudents(e) \/ InsertNotification(e) \/ InsertRecords(e)
         \/ ReadPage(e) \/ SaveFails(e)
  PROVE  Traced(e)'
<1> USE DEF TypeOK
<1>1. /\ UNCHANGED <<course, globalsOff, owner, target, enrolled, joined, outdated>>
      /\ UNCHANGED <<shifted, hinted, looking>>
      /\ saving[e] \in Unfinished /\ saving'[e] # "no"
  BY DEF GetStudents, InsertNotification, InsertRecords, ReadPage, SaveFails,
         Unfinished, world, sockets, fixed, begun
<1>2. Routed(e) /\ Hinted(e) /\ Recorded(e) /\ Hinted(e)'
  BY <1>1 DEF Traced, Hinted, Unfinished
<1>3. EnrolledIn(target[e])' = EnrolledIn(target[e]) /\ Wanting(e)' = Wanting(e)
  BY <1>1 DEF EnrolledIn, Wanting
<1>4. /\ target[e] \in Course => target[e] \notin Student \cup Broadcast
      /\ target[e] \in Student => target[e] \notin Broadcast
      /\ target[e] \in Course \cup Student \cup Broadcast
  BY Kinds
<1>5. CASE GetStudents(e)
  <2>1. /\ saving[e] = "students" /\ saving'[e] = "notification"
        /\ audience'[e] = EnrolledIn(target[e]) /\ target[e] \in Course
        /\ recipients' = recipients
    BY <1>2, <1>5 DEF GetStudents, UsersWithPreference, Routed
  <2>2. Routed(e)' /\ Recorded(e)'
    BY <1>1, <1>2, <1>4, <2>1 DEF Routed, Recorded, Unfinished
  <2> QED
    BY <1>1, <1>2, <2>2 DEF Traced
<1>6. CASE InsertNotification(e)
  <2>1. /\ saving[e] = "notification" /\ saving'[e] = "records"
        /\ audience' = audience /\ recipients' = recipients
    BY <1>6 DEF InsertNotification
  <2>2. Routed(e)' /\ Recorded(e)'
    BY <1>1, <1>2, <1>3, <2>1 DEF Routed, Recorded, Unfinished
  <2> QED
    BY <1>1, <1>2, <2>2 DEF Traced
<1>7. CASE InsertRecords(e)
  <2>1. /\ saving[e] = "records" /\ audience'[e] = {}
        /\ recipients'[e] = recipients[e] \cup audience[e]
        /\ \/ saving'[e] = "done"
           \/ target[e] \in Broadcast /\ saving'[e] = "pages"
    BY <1>7 DEF InsertRecords
  <2>2. target[e] \notin Broadcast => recipients'[e] = audience[e]
    BY <1>1, <1>2, <2>1 DEF Recorded
  <2>3. CASE target[e] \in Course
    <3>1. \A u \in User \ shifted[e] : u \in recipients'[e] <=> u \in enrolled[e]
      BY <1>2, <1>4, <2>1, <2>2, <2>3 DEF Recorded
    <3>2. Routed(e)' /\ Recorded(e)'
      BY <1>1, <1>2, <1>4, <2>1, <2>3, <3>1 DEF Routed, Recorded, Unfinished
    <3> QED
      BY <1>1, <1>2, <3>2 DEF Traced
  <2>4. CASE target[e] \in Student
    <3>1. recipients'[e] = {target[e]}
      BY <1>2, <1>4, <2>1, <2>2, <2>4 DEF Recorded
    <3>2. Routed(e)' /\ Recorded(e)'
      BY <1>1, <1>2, <1>4, <2>1, <2>4, <3>1 DEF Routed, Recorded, Unfinished
    <3> QED
      BY <1>1, <1>2, <3>2 DEF Traced
  <2>5. CASE target[e] \in Broadcast
    <3>1. Routed(e)' /\ Recorded(e)'
      BY <1>1, <1>2, <1>3, <1>4, <2>1, <2>5 DEF Routed, Recorded
    <3> QED
      BY <1>1, <1>2, <3>1 DEF Traced
  <2> QED
    BY <1>4, <2>3, <2>4, <2>5
<1>8. CASE ReadPage(e)
  <2>1. /\ saving[e] = "pages" /\ saving'[e] = "notification"
        /\ recipients' = recipients
        /\ audience'[e] \subseteq EnrolledFor(target[e])
    BY <1>8 DEF ReadPage
  <2>2. /\ target[e] \in Broadcast /\ target[e] \notin Course /\ target[e] \notin Student
        /\ audience'[e] \subseteq Wanting(e)
    BY <1>2, <1>4, <2>1, BroadcastFor DEF Routed
  <2>3. Routed(e)' /\ Recorded(e)'
    BY <1>1, <1>2, <1>3, <2>1, <2>2 DEF Routed, Recorded
  <2> QED
    BY <1>1, <1>2, <2>3 DEF Traced
<1>9. CASE SaveFails(e)
  <2>1. saving'[e] = "failed"
    BY <1>9 DEF SaveFails
  <2>2. Routed(e)' /\ Recorded(e)'
    BY <1>1, <1>2, <2>1 DEF Routed, Recorded, Unfinished
  <2> QED
    BY <1>1, <1>2, <2>2 DEF Traced
<1> QED
  BY <1>5, <1>6, <1>7, <1>8, <1>9

\* emitNotificationToUser hints sockets of its student only.
LEMMA EmitTraces ==
  ASSUME TypeOK, NEW e \in Event, Traced(e), EmitToUser(e)
  PROVE  Traced(e)'
<1> USE DEF TypeOK
<1>1. /\ UNCHANGED <<course, globalsOff, owner, target, enrolled, joined, outdated>>
      /\ UNCHANGED <<shifted, saving, audience, recipients>>
      /\ looking[e] = "keys" /\ looking'[e] = "done"
      /\ \A s \in hinted'[e] : owner[s] = target[e]
  BY DEF EmitToUser, world, sockets, fixed, begun
<1>2. saving[e] # "no" /\ Routed(e) /\ Recorded(e) /\ target[e] \in Student
  BY <1>1 DEF Traced, Routed
<1>3. target[e] \notin Course /\ target[e] \notin Broadcast
  BY <1>2, Kinds
<1>4. Hinted(e)'
  BY <1>1, <1>2, <1>3 DEF Hinted
<1>5. Routed(e)' /\ Recorded(e)'
  BY <1>1, <1>2, <1>3 DEF Routed, Recorded, Unfinished
<1> QED
  BY <1>1, <1>2, <1>4, <1>5 DEF Traced

\* A process that stops, a user who moves or changes his mind: what an event
\* does not wait for any more is not affected.
LEMMA ChangeTraces ==
  ASSUME TypeOK, NEW e \in Event, Traced(e),
         \/ \E p \in Process : Stop(p)
         \/ \E u \in User : \/ \E c \in Course \cup {None} : Move(u, c)
                            \/ ChangeGlobals(u)
  PROVE  Traced(e)'
<1> USE DEF TypeOK
<1>1. ASSUME NEW p \in Process, Stop(p)
      PROVE  Traced(e)'
  <2>1. /\ UNCHANGED <<course, globalsOff, owner, target, enrolled, joined, outdated>>
        /\ UNCHANGED <<shifted, hinted, recipients>>
        /\ looking'[e] \in {looking[e], "lost"}
        /\ looking[e] = "no" => looking'[e] = "no"
    BY <1>1 DEF Stop, world, fixed, begun
  <2>2. \/ saving'[e] = saving[e] /\ audience'[e] = audience[e]
        \/ saving'[e] = saving[e] /\ saving[e] \notin Unfinished /\ audience'[e] = {}
        \/ saving[e] \in Unfinished /\ saving'[e] = "failed"
    BY <1>1 DEF Stop
  <2>3. EnrolledIn(target[e])' = EnrolledIn(target[e]) /\ Wanting(e)' = Wanting(e)
    BY <2>1 DEF EnrolledIn, Wanting
  <2>4. Hinted(e)' = Hinted(e) /\ (Routed(e) => Routed(e)')
    BY <2>1, <2>2 DEF Hinted, Routed, Unfinished
  <2>5. Recorded(e) => Recorded(e)'
    BY <2>1, <2>2, <2>3 DEF Recorded, Unfinished
  <2>6. /\ saving'[e] = "no" <=> saving[e] = "no"
        /\ saving[e] = "no" /\ audience[e] = {} => audience'[e] = {}
    BY <2>2 DEF Unfinished
  <2> QED
    BY <2>1, <2>4, <2>5, <2>6 DEF Traced
<1>2. ASSUME NEW u \in User, NEW c \in Course \cup {None}, Move(u, c)
      PROVE  Traced(e)'
  <2>1. /\ UNCHANGED <<globalsOff, owner, target, enrolled, joined, outdated>>
        /\ UNCHANGED <<hinted, audience, recipients, looking, saving>>
        /\ course' = [course EXCEPT ![u] = c]
        /\ shifted'[e] = IF saving[e] = "students" THEN shifted[e] \cup {u} ELSE shifted[e]
    BY <1>2 DEF Move, fixed, begun
  <2>2. \A w \in User \ {u} : w \in EnrolledIn(target[e])' <=> w \in EnrolledIn(target[e])
    BY <2>1 DEF EnrolledIn
  <2>3. Wanting(e)' = Wanting(e)
    BY <2>1 DEF Wanting
  <2>4. Routed(e)' = Routed(e) /\ Hinted(e)' = Hinted(e)
    BY <2>1 DEF Routed, Hinted
  <2>5. Routed(e) /\ Recorded(e) => Recorded(e)'
    <3>1. CASE saving[e] = "students"
      <4>1. Routed(e) => target[e] \in Course /\ target[e] \notin Student \cup Broadcast
        BY <3>1, Kinds DEF Routed
      <4>2. shifted'[e] = shifted[e] \cup {u} /\ saving'[e] = "students"
        BY <2>1, <3>1
      <4> QED
        BY <2>1, <2>2, <3>1, <4>1, <4>2 DEF Recorded
    <3>2. CASE saving[e] # "students"
      <4>1. /\ shifted'[e] = shifted[e] /\ saving'[e] = saving[e]
            /\ target'[e] = target[e] /\ enrolled'[e] = enrolled[e]
            /\ audience'[e] = audience[e] /\ recipients'[e] = recipients[e]
        BY <2>1, <3>2
      <4> QED
        BY <2>3, <3>2, <4>1 DEF Recorded
    <3> QED
      BY <3>1, <3>2
  <2> QED
    BY <2>1, <2>4, <2>5 DEF Traced
<1>3. ASSUME NEW u \in User, ChangeGlobals(u)
      PROVE  Traced(e)'
  <2>1. /\ UNCHANGED <<course, owner, target, enrolled, joined, outdated>>
        /\ UNCHANGED <<hinted, audience, recipients, looking, saving>>
        /\ shifted'[e] = IF target[e] \in Broadcast /\ saving[e] \in Unfinished
                           THEN shifted[e] \cup {u} ELSE shifted[e]
        /\ \A w \in User \ {u} : w \in globalsOff' <=> w \in globalsOff
    BY <1>3 DEF ChangeGlobals, sockets, fixed, begun
  <2>2. Wanting(e)' \subseteq Wanting(e) \cup {u}
    BY <2>1 DEF Wanting
  <2>3. EnrolledIn(target[e])' = EnrolledIn(target[e])
    BY <2>1 DEF EnrolledIn
  <2>4. Routed(e)' = Routed(e) /\ Hinted(e)' = Hinted(e)
    BY <2>1 DEF Routed, Hinted
  <2>5. ASSUME Routed(e), Recorded(e) PROVE Recorded(e)'
    <3>1. CASE target[e] \in Broadcast /\ saving[e] \in Unfinished
      <4>1. target[e] \notin Course \cup Student
        BY <3>1, Kinds
      <4>2. /\ shifted'[e] = shifted[e] \cup {u} /\ saving'[e] = saving[e]
            /\ target'[e] = target[e] /\ enrolled'[e] = enrolled[e]
            /\ audience'[e] = audience[e] /\ recipients'[e] = recipients[e]
        BY <2>1, <3>1
      <4>3. saving[e] # "students"
        BY <2>5, <4>1 DEF Routed
      <4> QED
        BY <2>2, <2>5, <3>1, <4>1, <4>2, <4>3 DEF Recorded
    <3>2. CASE ~(target[e] \in Broadcast /\ saving[e] \in Unfinished)
      <4>1. /\ shifted'[e] = shifted[e] /\ saving'[e] = saving[e]
            /\ target'[e] = target[e] /\ enrolled'[e] = enrolled[e]
            /\ audience'[e] = audience[e] /\ recipients'[e] = recipients[e]
        BY <2>1, <3>2
      <4> QED
        BY <2>3, <2>5, <3>2, <4>1 DEF Recorded
    <3> QED
      BY <3>1, <3>2
  <2> QED
    BY <2>1, <2>4, <2>5 DEF Traced
<1> QED
  BY <1>1, <1>2, <1>3

-----------------------------------------------------------------------------
(* The theorems on hints and records.                                      *)

DeliveryInv ==
  /\ TypeOK
  /\ \A s \in Socket : Informed(s)
  /\ \A e \in Event : Traced(e)

LEMMA DeliveryInvariant == Spec => []DeliveryInv
<1>1. Init => DeliveryInv
  <2>1. Init => TypeOK
    BY MovesAssumption DEF Init, TypeOK, Connected
  <2> QED
    BY <2>1 DEF Init, DeliveryInv, Informed, Traced, Connected
<1>2. DeliveryInv /\ [Next]_vars => DeliveryInv'
  <2> SUFFICES ASSUME DeliveryInv, [Next]_vars PROVE DeliveryInv'
    OBVIOUS
  <2>1. TypeOK' /\ \A s \in Socket : Informed(s)'
    BY DeliveryTypes, InformedStep DEF DeliveryInv
  <2>2. ASSUME NEW e \in Event PROVE Traced(e)'
    <3>1. TypeOK /\ Traced(e) /\ \A s \in Socket : Informed(s)
      BY DEF DeliveryInv
    <3>2. ASSUME NEW d \in Event,
                 \/ \E p \in Process : Take(d, p)
                 \/ GetStudents(d) \/ InsertNotification(d) \/ InsertRecords(d)
                 \/ ReadPage(d) \/ SaveFails(d) \/ EmitToUser(d)
          PROVE  Traced(e)'
      <4>1. CASE d = e
        BY <3>1, <3>2, <4>1, TakeTraces, SaveTraces, EmitTraces
      <4>2. CASE d # e
        BY <3>1, <3>2, <4>2, OtherEventIdles, IdleTraces
      <4> QED
        BY <4>1, <4>2
    <3>3. CASE \/ \E s \in Socket : \/ Connect(s) \/ Registered(s) \/ GetCourses(s)
                                    \/ JoinCourseRoom(s) \/ JoinFails(s) \/ Disconnect(s)
               \/ \E u \in User : ChangeClassroom(u)
               \/ UNCHANGED vars
      BY <3>1, <3>3, SocketIdles, IdleTraces
    <3>4. CASE \/ \E p \in Process : Stop(p)
               \/ \E u \in User : \/ \E c \in Course \cup {None} : Move(u, c)
                                  \/ ChangeGlobals(u)
      BY <3>1, <3>4, ChangeTraces
    <3> QED
      BY <3>2, <3>3, <3>4 DEF Next
  <2> QED
    BY <2>1, <2>2 DEF DeliveryInv
<1> QED
  BY <1>1, <1>2, PTL DEF Spec

\* The records of a course event match the course as it was, but for those who
\* moved before the save asked for them.
THEOREM CourseCorrect == Spec => []CourseIsRecorded
<1>1. DeliveryInv => CourseIsRecorded
  <2> SUFFICES ASSUME DeliveryInv, NEW e \in Event, saving[e] = "done", target[e] \in Course
               PROVE  /\ enrolled[e] \ shifted[e] \subseteq recipients[e]
                      /\ recipients[e] \subseteq enrolled[e] \cup shifted[e]
    BY DEF CourseIsRecorded
  <2>1. TypeOK /\ Recorded(e) /\ target[e] \notin Broadcast
    BY Kinds DEF DeliveryInv, Traced
  <2>2. \A u \in User \ shifted[e] : u \in recipients[e] <=> u \in enrolled[e]
    BY <2>1 DEF Recorded
  <2>3. recipients[e] \subseteq User /\ enrolled[e] \subseteq User
    BY <2>1 DEF TypeOK
  <2> QED
    BY <2>2, <2>3
<1> QED
  BY <1>1, DeliveryInvariant, PTL

\* Whoever gets a record of a broadcast or of a course event has been hinted on
\* the sockets of the process that took it.
THEOREM RecordCorrect == Spec => []RecordIsHinted
<1>1. DeliveryInv => RecordIsHinted
  <2> SUFFICES ASSUME DeliveryInv, NEW e \in Event, NEW s \in Socket,
                      saving[e] = "done", target[e] \notin Student,
                      s \in joined[e], owner[s] \in recipients[e]
               PROVE  \/ s \in hinted[e]
                      \/ target[e] \in Course /\ (s \in outdated[e] \/ owner[s] \in shifted[e])
    BY DEF RecordIsHinted
  <2>1. /\ TypeOK /\ Recorded(e) /\ Hinted(e) /\ target[e] \in Course \cup Broadcast
        /\ target[e] \in Course => target[e] \notin Broadcast
    BY Kinds DEF DeliveryInv, Traced
  <2>2. CASE target[e] \in Course
    <3>1. owner[s] \in User
      BY <2>1 DEF TypeOK
    <3>2. owner[s] \notin shifted[e] => owner[s] \in enrolled[e]
      BY <2>1, <2>2, <3>1 DEF Recorded
    <3> QED
      BY <2>1, <2>2, <3>2 DEF Hinted
  <2>3. CASE target[e] \in Broadcast
    BY <2>1, <2>3 DEF Hinted
  <2> QED
    BY <2>1, <2>2, <2>3
<1> QED
  BY <1>1, DeliveryInvariant, PTL

\* Whoever is hinted at an event for a course or a student has, when the save is
\* done, a record to be told of, with the exceptions HintAnnouncesRecord names.
THEOREM HintCorrect == Spec => []HintAnnouncesRecord
<1>1. DeliveryInv => HintAnnouncesRecord
  <2> SUFFICES ASSUME DeliveryInv, NEW e \in Event, NEW s \in Socket,
                      saving[e] = "done", target[e] \notin Broadcast, s \in hinted[e],
                      owner[s] \notin recipients[e] \cup shifted[e]
               PROVE  owner[s] \in Staff \/ s \in outdated[e]
    BY DEF HintAnnouncesRecord
  <2>1. /\ TypeOK /\ Recorded(e) /\ Hinted(e)
        /\ target[e] \in Course \cup Student
    BY Kinds DEF DeliveryInv, Traced
  <2>2. owner[s] \in Student \cup Staff
    BY <2>1 DEF TypeOK, User
  <2>3. CASE target[e] \in Course
    <3>1. owner[s] \notin enrolled[e]
      BY <2>1, <2>2, <2>3 DEF Recorded, User
    <3> QED
      BY <2>1, <2>2, <2>3, <3>1 DEF Hinted
  <2>4. CASE target[e] \in Student
    BY <2>1, <2>4 DEF Hinted, Recorded
  <2> QED
    BY <2>1, <2>3, <2>4
<1> QED
  BY <1>1, DeliveryInvariant, PTL

-----------------------------------------------------------------------------
(* Every save is an announcement.                                          *)

LEMMA DeliveryAnnouncementInit == Init => Promise!Init
BY DEF Init, Promise!Init, Phase, Due, Barred, Excused, Unfinished

\* Where the announcement of an event is.
LEMMA PhaseIs ==
  ASSUME TypeOK, NEW e \in Event
  PROVE  /\ Phase[e] = "open" <=> saving[e] \in Unfinished
         /\ Phase[e] = "idle" <=> saving[e] = "no"
BY DEF TypeOK, Phase, Unfinished

\* A step of the save of event e takes its announcement to where goes says.
LEMMA PhaseMoves ==
  ASSUME TypeOK, NEW e \in Event,
         NEW goes \in {"done", "failed"} \cup Unfinished,
         NEW next \in {"open", "done", "failed"},
         next = IF goes \in Unfinished THEN "open" ELSE goes,
         saving' = [saving EXCEPT ![e] = goes]
  PROVE  /\ Phase' = [Phase EXCEPT ![e] = next]
         /\ saving[e] \in Unfinished /\ next = "open" => Phase' = Phase
<1>1. \A d \in Event : saving'[d] = IF d = e THEN goes ELSE saving[d]
  BY DEF TypeOK
<1>2. goes # "no" /\ (goes \notin Unfinished => goes = next)
  BY DEF Unfinished
<1>3. \A d \in Event : Phase'[d] = IF d = e THEN next ELSE Phase[d]
  BY <1>1, <1>2 DEF Phase
<1>4. Phase' = [Phase EXCEPT ![e] = next]
  BY <1>3 DEF Phase
<1>5. ASSUME saving[e] \in Unfinished, next = "open" PROVE Phase' = Phase
  <2>1. \A d \in Event : Phase'[d] = Phase[d]
    BY <1>3, <1>5, PhaseIs
  <2> QED
    BY <2>1 DEF Phase
<1> QED
  BY <1>4, <1>5

\* The process that takes an event begins its announcement to those enrolled.
LEMMA TakeBegins ==
  ASSUME DeliveryInv, NEW e \in Event, NEW p \in Process, Take(e, p)
  PROVE  Promise!Begin(e)
<1>1. TypeOK
  BY DEF DeliveryInv
<1>2. /\ saving[e] = "no" /\ UNCHANGED <<recipients, shifted, target>>
      /\ enrolled' = [enrolled EXCEPT ![e] = EnrolledFor(target[e])]
      /\ \E goes \in Unfinished : saving' = [saving EXCEPT ![e] = goes]
  BY DEF Take, Unfinished
<1>3. Phase[e] = "idle" /\ Phase' = [Phase EXCEPT ![e] = "open"]
  BY <1>1, <1>2, PhaseIs, PhaseMoves
<1> DEFINE entitled == IF target[e] \in Broadcast THEN {}
                                            ELSE EnrolledFor(target[e]) \ shifted[e]
           unwilling == User \ (EnrolledFor(target[e]) \cup shifted[e])
<1>4. /\ entitled \in SUBSET User /\ unwilling \in SUBSET User
      /\ entitled \cap unwilling = {}
  BY <1>1, EnrolledTypes DEF TypeOK
<1>5. Due' = [Due EXCEPT ![e] = entitled]
  BY <1>1, <1>2 DEF Due, TypeOK
<1>6. Barred' = [Barred EXCEPT ![e] = unwilling]
  <2>1. \A d \in Event : /\ saving'[d] = "no" <=> d # e /\ saving[d] = "no"
                         /\ enrolled'[d] = IF d = e THEN EnrolledFor(target[e])
                                                    ELSE enrolled[d]
    BY <1>1, <1>2 DEF TypeOK, Unfinished
  <2> QED
    BY <1>2, <2>1 DEF Barred
<1>7. Excused' = Excused /\ recipients' = recipients
  BY <1>2 DEF Excused
<1> HIDE DEF entitled, unwilling
<1> QED
  BY <1>3, <1>4, <1>5, <1>6, <1>7 DEF Promise!Begin

\* Records for users who are, or were, enrolled: the end must leave nobody out.
LEMMA SaveTells ==
  ASSUME DeliveryInv, NEW e \in Event, saving[e] \in Unfinished,
         NEW goes \in {"done", "failed"} \cup Unfinished,
         saving' = [saving EXCEPT ![e] = goes],
         NEW users \in SUBSET (enrolled[e] \cup shifted[e]),
         recipients' = [recipients EXCEPT ![e] = @ \cup users],
         goes = "done" => Due[e] \subseteq recipients'[e],
         UNCHANGED <<enrolled, shifted, target>>
  PROVE  \E next \in {"open", "done", "failed"} : Promise!Tell(e, next)
<1>1. TypeOK
  BY DEF DeliveryInv
<1> DEFINE next == IF goes \in Unfinished THEN "open" ELSE goes
<1>2. next \in {"open", "done", "failed"} /\ (next = "done" <=> goes = "done")
  BY DEF Unfinished
<1> HIDE DEF next
<1>3. Phase[e] = "open" /\ Phase' = [Phase EXCEPT ![e] = next]
  BY <1>1, <1>2, PhaseIs, PhaseMoves DEF next
<1>4. users \in SUBSET (User \ Barred[e])
  <2>1. Barred[e] = User \ (enrolled[e] \cup shifted[e])
    BY DEF Barred, Unfinished
  <2> QED
    BY <1>1, <2>1 DEF TypeOK
<1>5. next = "done" => Promise!Cardinality(Due[e] \ recipients'[e]) <= Excused[e]
  <2>1. \A S : Promise!Cardinality(S) = Cardinality(S)
    BY DEF Promise!Cardinality, Cardinality
  <2>2. next = "done" => Due[e] \ recipients'[e] = {}
    BY <1>2
  <2> QED
    BY <2>1, <2>2, FS_EmptySet DEF Excused
<1>6. Due' = Due /\ Excused' = Excused
  BY DEF Due, Excused
<1>7. Barred' = Barred
  <2>1. \A d \in Event : saving'[d] = "no" <=> saving[d] = "no"
    BY <1>1 DEF TypeOK, Unfinished
  <2> QED
    BY <2>1 DEF Barred
<1> QED
  BY <1>2, <1>3, <1>4, <1>5, <1>6, <1>7 DEF Promise!Tell

\* insertMany tells the audience, and a save that fails some of it or nobody.
LEMMA RecordsTell ==
  ASSUME DeliveryInv, NEW e \in Event, InsertRecords(e) \/ SaveFails(e)
  PROVE  \E next \in {"open", "done", "failed"} : Promise!Tell(e, next)
<1>1. /\ TypeOK /\ Traced(e) /\ UNCHANGED <<enrolled, shifted, target>>
      /\ saving[e] \in Unfinished
  BY DEF DeliveryInv, InsertRecords, SaveFails, begun, Unfinished
<1>2. Routed(e) /\ Recorded(e)
  BY <1>1 DEF Traced, Unfinished
<1>3. ASSUME saving[e] = "records"
      PROVE  /\ audience[e] \in SUBSET (enrolled[e] \cup shifted[e])
             /\ Due[e] \subseteq audience[e]
  <2>1. /\ audience[e] \in SUBSET User /\ enrolled[e] \in SUBSET User
        /\ target[e] \in Course \cup Student \cup Broadcast
    BY <1>1, Kinds DEF TypeOK
  <2>2. CASE target[e] \in Broadcast
    BY <1>2, <1>3, <2>2 DEF Recorded, Due, Unfinished
  <2>3. CASE target[e] \notin Broadcast
    BY <1>2, <1>3, <2>1, <2>3 DEF Recorded, Due
  <2> QED
    BY <2>2, <2>3
<1>4. CASE InsertRecords(e)
  <2>1. /\ saving[e] = "records"
        /\ recipients' = [recipients EXCEPT ![e] = @ \cup audience[e]]
    BY <1>4 DEF InsertRecords
  <2>2. PICK goes \in {"done", "pages"} : saving' = [saving EXCEPT ![e] = goes]
    BY <1>4 DEF InsertRecords
  <2>3. audience[e] \subseteq recipients'[e]
    BY <1>1, <2>1 DEF TypeOK
  <2>4. goes \in {"done", "failed"} \cup Unfinished
    BY DEF Unfinished
  <2> QED
    BY <1>1, <1>3, <2>1, <2>2, <2>3, <2>4, SaveTells
<1>5. CASE SaveFails(e)
  <2>1. PICK some \in SUBSET audience[e] :
          /\ saving[e] # "records" => some = {}
          /\ recipients' = [recipients EXCEPT ![e] = @ \cup some]
    BY <1>5 DEF SaveFails
  <2>2. some \in SUBSET (enrolled[e] \cup shifted[e])
    BY <1>3, <2>1
  <2>3. saving' = [saving EXCEPT ![e] = "failed"]
    BY <1>5 DEF SaveFails
  <2> QED
    BY <1>1, <2>1, <2>2, <2>3, SaveTells
<1> QED
  BY <1>4, <1>5

\* With a process that stops, the announcements it was making are lost.
LEMMA StopLoses ==
  ASSUME DeliveryInv, NEW p \in Process, Stop(p)
  PROVE  \E calls \in SUBSET Promise!Open : Promise!Lose(calls)
<1>1. TypeOK
  BY DEF DeliveryInv
<1> DEFINE calls == {e \in Event : at[e] = p /\ saving[e] \in Unfinished}
<1>2. calls \in SUBSET Promise!Open
  BY <1>1, PhaseIs DEF Promise!Open
<1>3. /\ saving' = [e \in Event |-> IF e \in calls THEN "failed" ELSE saving[e]]
      /\ UNCHANGED <<enrolled, shifted, recipients, target>>
  BY DEF Stop, begun
<1>4. \A e \in Event : saving'[e] = "no" <=> saving[e] = "no"
  BY <1>3 DEF Unfinished
<1> HIDE DEF calls
<1>5. Phase' = [e \in Event |-> IF e \in calls THEN "failed" ELSE Phase[e]]
  BY <1>3 DEF Phase, Unfinished
<1>6. /\ Due' = Due /\ Excused' = Excused /\ recipients' = recipients
      /\ Barred' = Barred
  BY <1>3, <1>4 DEF Due, Excused, Barred
<1> QED
  BY <1>2, <1>5, <1>6 DEF Promise!Lose

\* Who moves before the students are asked for, or changes his mind while the
\* pages are saved, may be told or not.
LEMMA ChangeShifts ==
  ASSUME DeliveryInv, NEW u \in User,
         (\E c \in Course \cup {None} : Move(u, c)) \/ ChangeGlobals(u)
  PROVE  \E calls \in SUBSET Promise!Open : Promise!Change(u, 0, calls)
<1>1. TypeOK
  BY DEF DeliveryInv
<1>2. PICK calls \in SUBSET {e \in Event : saving[e] \in Unfinished} :
        /\ shifted' = [e \in Event |->
             IF e \in calls THEN shifted[e] \cup {u} ELSE shifted[e]]
        /\ UNCHANGED <<saving, enrolled, recipients, target>>
  <2>1. CASE \E c \in Course \cup {None} : Move(u, c)
    <3> DEFINE calls == {e \in Event : saving[e] = "students"}
    <3>1. /\ shifted' = [e \in Event |->
               IF e \in calls THEN shifted[e] \cup {u} ELSE shifted[e]]
          /\ UNCHANGED <<saving, enrolled, recipients, target>>
      BY <2>1 DEF Move, begun
    <3>2. calls \in SUBSET {e \in Event : saving[e] \in Unfinished}
      BY DEF Unfinished
    <3> QED
      BY <3>1, <3>2
  <2>2. CASE ChangeGlobals(u)
    <3> DEFINE calls == {e \in Event : target[e] \in Broadcast /\ saving[e] \in Unfinished}
    <3>1. /\ shifted' = [e \in Event |->
               IF e \in calls THEN shifted[e] \cup {u} ELSE shifted[e]]
          /\ UNCHANGED <<saving, enrolled, recipients, target>>
      BY <2>2 DEF ChangeGlobals, begun
    <3>2. calls \in SUBSET {e \in Event : saving[e] \in Unfinished}
      OBVIOUS
    <3> QED
      BY <3>1, <3>2
  <2> QED
    BY <2>1, <2>2
<1>3. calls \in SUBSET Promise!Open
  BY <1>1, PhaseIs DEF Promise!Open, Unfinished
<1>4. \A e \in Event : shifted'[e] = IF e \in calls THEN shifted[e] \cup {u} ELSE shifted[e]
  BY <1>2
<1>5. \A e \in calls : saving[e] # "no"
  BY DEF Unfinished
<1>6. Due' = [e \in Event |-> IF e \in calls THEN Due[e] \ {u} ELSE Due[e]]
  BY <1>2, <1>4 DEF Due
<1>7. Barred' = [e \in Event |-> IF e \in calls THEN Barred[e] \ {u} ELSE Barred[e]]
  BY <1>2, <1>4, <1>5 DEF Barred
<1>8. Excused' = [e \in Event |-> IF e \in calls THEN Excused[e] + 0 ELSE Excused[e]]
  BY DEF Excused
<1>9. Phase' = Phase
  BY <1>2 DEF Phase
<1> QED
  BY <1>2, <1>3, <1>6, <1>7, <1>8, <1>9 DEF Promise!Change

\* Sockets, hints, and the awaits before the records tell nobody anything.
LEMMA OthersStutter ==
  ASSUME DeliveryInv,
         \/ \E s \in Socket : \/ Connect(s) \/ Registered(s) \/ GetCourses(s)
                              \/ JoinCourseRoom(s) \/ JoinFails(s) \/ Disconnect(s)
         \/ \E e \in Event : \/ GetStudents(e) \/ ReadPage(e)
                              \/ InsertNotification(e) \/ EmitToUser(e)
         \/ \E u \in User : ChangeClassroom(u)
         \/ UNCHANGED vars
  PROVE  UNCHANGED Promise!vars
<1>1. TypeOK
  BY DEF DeliveryInv
<1>2. ASSUME UNCHANGED <<saving, enrolled, shifted, recipients, target>>
      PROVE  UNCHANGED Promise!vars
  BY <1>2 DEF Promise!vars, Phase, Due, Barred, Excused
<1>3. ASSUME NEW e \in Event, GetStudents(e) \/ ReadPage(e) \/ InsertNotification(e)
      PROVE  UNCHANGED Promise!vars
  <2>1. /\ saving[e] \in Unfinished /\ UNCHANGED <<enrolled, shifted, recipients, target>>
        /\ \E goes \in Unfinished : saving' = [saving EXCEPT ![e] = goes]
    BY <1>3 DEF GetStudents, ReadPage, InsertNotification, Unfinished, begun
  <2>2. Phase' = Phase
    BY <1>1, <2>1, PhaseMoves
  <2>3. \A d \in Event : saving'[d] = "no" <=> saving[d] = "no"
    BY <1>1, <2>1 DEF TypeOK, Unfinished
  <2> QED
    BY <2>1, <2>2, <2>3 DEF Promise!vars, Due, Barred, Excused
<1>4. CASE \/ \E s \in Socket : \/ Connect(s) \/ Registered(s) \/ GetCourses(s)
                                \/ JoinCourseRoom(s) \/ JoinFails(s) \/ Disconnect(s)
           \/ \E e \in Event : EmitToUser(e)
           \/ \E u \in User : ChangeClassroom(u)
           \/ UNCHANGED vars
  <2>1. UNCHANGED <<saving, enrolled, shifted, recipients, target>>
    BY <1>4
    DEF Connect, Registered, GetCourses, JoinCourseRoom, JoinFails, Disconnect,
        EmitToUser, ChangeClassroom, vars, events, begun
  <2> QED
    BY <1>2, <2>1
<1> QED
  BY <1>3, <1>4

LEMMA DeliveryAnnouncementStep ==
  DeliveryInv /\ [Next]_vars => [Promise!Next]_(Promise!vars)
<1> SUFFICES ASSUME DeliveryInv, [Next]_vars PROVE [Promise!Next]_(Promise!vars)
  OBVIOUS
<1>1. CASE \E e \in Event : \E p \in Process : Take(e, p)
  BY <1>1, TakeBegins DEF Promise!Next
<1>2. CASE \E e \in Event : InsertRecords(e) \/ SaveFails(e)
  BY <1>2, RecordsTell DEF Promise!Next
<1>3. CASE \E p \in Process : Stop(p)
  BY <1>3, StopLoses DEF Promise!Next
<1>4. CASE \E u \in User : (\E c \in Course \cup {None} : Move(u, c)) \/ ChangeGlobals(u)
  BY <1>4, ChangeShifts DEF Promise!Next
<1> QED
  BY <1>1, <1>2, <1>3, <1>4, OthersStutter DEF Next

\* Whatever it is for, whoever takes it and whatever stops, an event does what
\* Announcement says: only those it was for when it was taken, or who changed
\* meanwhile, ever get a record, none is taken back, and a save for a course or
\* a student ends well only when all of them that did not change have one.
THEOREM DeliveryAnnounces == Spec => ImplementsAnnouncement
<1>1. Spec => Init /\ [][Next]_vars
  BY DEF Spec
<1> QED
  BY <1>1, DeliveryAnnouncementInit, DeliveryAnnouncementStep, DeliveryInvariant, PTL
  DEF ImplementsAnnouncement, Promise!Spec
=============================================================================
