------------------------------ MODULE Presence ------------------------------
(***************************************************************************)
(* Which sockets a student can be reached at: NotificationsStudentsGateway *)
(* on top of MemoryService and its Redis client.                           *)
(*                                                                         *)
(* Every socket has a Redis key, socket id -> user id, set when it         *)
(* connects and deleted when it disconnects; a notify/student event looks  *)
(* up the keys of its user.  The client sends commands in order over one   *)
(* connection.  While the connection is down it queues them; when it is    *)
(* lost, it rejects the commands that wait for a reply, though Redis may   *)
(* have executed the first of them.  A rejected SET leaves the key in a    *)
(* map of the process instead, a rejected look-up reads that map.          *)
(***************************************************************************)
EXTENDS Naturals, Sequences

CONSTANTS
  User,        \* the users
  NoUser,      \* the owner of a socket whose token names no user
  Socket,      \* the sockets; an identifier is used once
  Lookup,      \* the notify/student events
  MaxLosses    \* bound on losses of the connection and crashes of the process

ASSUME NoUserAssumption == NoUser \notin User
ASSUME LossesAssumption == MaxLosses \in Nat

VARIABLES
  owner,       \* user._id of a socket's token (fixed)
  socket,      \* is the socket connected?
  registering, \* where its handleConnection is
  forgetting,  \* where its handleDisconnect is
  room,        \* sockets in the room of their course
  \* MemoryService
  link,        \* is the Redis client connected?
  outbox,      \* commands issued and not answered, oldest first
  memory,      \* sockets in the local map
  redis,       \* sockets with a key in Redis
  \* One emitNotificationToUser call per element of Lookup.
  looking,     \* where it is
  who,         \* its user
  keys,        \* what KEYS answered
  hinted,      \* the sockets it emitted to
  \* Bounds and history
  losses,      \* losses of the connection and crashes so far
  expired,     \* sockets whose key has expired
  expected     \* sockets of the user that were being registered in Redis when
               \* the look-up began, and that nothing has removed since

sockets == <<socket, registering, forgetting, room>>
lookups == <<looking, who, keys, hinted>>
vars == <<owner, sockets, link, outbox, memory, redis, lookups, losses, expired, expected>>

-----------------------------------------------------------------------------
Set(s)  == <<"set", s>>
Del(s)  == <<"del", s>>
Keys(e) == <<"keys", e>>
MGet(e) == <<"mget", e>>

\* The commands of the first n of the outbox.
First(n) == {outbox[i] : i \in 1 .. n}
Issued == First(Len(outbox))

Connected == {s \in Socket : socket[s] = "connected"}

\* The keys in Redis after it has executed the commands done.  A socket has
\* one SET and one DEL, in this order.
Executed(done) ==
  (redis \cup {s \in Socket : Set(s) \in done}) \ {s \in Socket : Del(s) \in done}

\* (Slip: the first match instead of all.)
SlipMatchOne(e, ids) ==
  LET mine == {s \in ids : owner[s] = who[e]}
  IN  IF mine = {} THEN {} ELSE {CHOOSE s \in mine : TRUE}

\* getKeys keeps the keys with the value of the user.
Matching(e, ids) == {s \in ids : owner[s] = who[e]}

Init ==
  /\ owner \in [Socket -> User \cup {NoUser}]
  /\ socket = [s \in Socket |-> "new"]
  /\ registering = [s \in Socket |-> "no"]
  /\ forgetting = [s \in Socket |-> "no"]
  /\ room = {}
  /\ link = "down"
  /\ outbox = <<>>
  /\ memory = {}
  /\ redis = {}
  /\ looking = [e \in Lookup |-> "no"]
  /\ who \in [Lookup -> User]
  /\ keys = [e \in Lookup |-> {}]
  /\ hinted = [e \in Lookup |-> {}]
  /\ losses = 0
  /\ expired = {}
  /\ expected = [e \in Lookup |-> {}]

-----------------------------------------------------------------------------
(* The gateway.                                                            *)

\* (Slip: the SET sent ahead of the commands that wait.)
SlipConnect(s) ==
  /\ socket[s] = "new"
  /\ socket' = [socket EXCEPT ![s] = "connected"]
  /\ registering' = [registering EXCEPT ![s] = "set"]
  /\ outbox' = <<Set(s)>> \o outbox
  /\ UNCHANGED <<owner, forgetting, room, link, memory, redis, losses, expired, expected>>
  /\ UNCHANGED lookups

\* handleConnection runs up to the SET.  The WsExceptions are built and not
\* thrown, so every client stays connected; without a user, user._id throws.
Connect(s) ==
  /\ socket[s] = "new"
  /\ socket' = [socket EXCEPT ![s] = "connected"]
  /\ IF owner[s] = NoUser
       THEN /\ registering' = [registering EXCEPT ![s] = "failed"]
            /\ UNCHANGED outbox
       ELSE /\ registering' = [registering EXCEPT ![s] = "set"]
            /\ outbox' = Append(outbox, Set(s))
  /\ UNCHANGED <<owner, forgetting, room, link, memory, redis, losses, expired, expected>>
  /\ UNCHANGED lookups

\* (Slip: a socket that has left put into the room.)
SlipJoinCourse(s) ==
  /\ registering[s] = "course"
  /\ registering' = [registering EXCEPT ![s] = "done"]
  /\ room' \in {room, room \cup {s}}
  /\ UNCHANGED <<owner, socket, forgetting, link, outbox, memory, redis, losses, expired, expected>>
  /\ UNCHANGED lookups

\* joinCourseRoom: get_courses answers with a course, or with none, or fails.
\* For a socket that has left, join does nothing.
JoinCourse(s) ==
  /\ registering[s] = "course"
  /\ registering' = [registering EXCEPT ![s] = "done"]
  /\ room' \in {room, room \cup ({s} \cap Connected)}
  /\ UNCHANGED <<owner, socket, forgetting, link, outbox, memory, redis, losses, expired, expected>>
  /\ UNCHANGED lookups

\* (Slip: the local map forgotten.)
SlipDisconnect(s) ==
  /\ socket[s] = "connected"
  /\ socket' = [socket EXCEPT ![s] = "closed"]
  /\ room' = room \ {s}
  /\ forgetting' = [forgetting EXCEPT ![s] = "del"]
  /\ outbox' = Append(outbox, Del(s))
  /\ expected' = [e \in Lookup |-> expected[e] \ {s}]
  /\ UNCHANGED <<owner, registering, link, memory, redis, losses, expired, lookups>>

\* The socket leaves its rooms; handleDisconnect runs del up to its DEL.
Disconnect(s) ==
  /\ socket[s] = "connected"
  /\ socket' = [socket EXCEPT ![s] = "closed"]
  /\ room' = room \ {s}
  /\ forgetting' = [forgetting EXCEPT ![s] = "del"]
  /\ memory' = memory \ {s}
  /\ outbox' = Append(outbox, Del(s))
  /\ expected' = [e \in Lookup |-> expected[e] \ {s}]
  /\ UNCHANGED <<owner, registering, link, redis, losses, expired, lookups>>

\* emitNotificationToUser runs up to the KEYS.
EmitToUser(e) ==
  /\ looking[e] = "no"
  /\ looking' = [looking EXCEPT ![e] = "keys"]
  /\ outbox' = Append(outbox, Keys(e))
  /\ expected' = [expected EXCEPT
       ![e] = {s \in Connected : owner[s] = who[e] /\ s \notin memory \cup expired}]
  /\ UNCHANGED <<owner, who, keys, hinted, link, memory, redis, losses, expired>>
  /\ UNCHANGED sockets

-----------------------------------------------------------------------------
(* MemoryService and Redis.                                                *)

\* (Slip: to those of the user, connected or not.)
SlipAnswer(e, ids, source) ==
  /\ looking' = [looking EXCEPT ![e] = source]
  /\ hinted' = [hinted EXCEPT ![e] = Matching(e, ids)]

\* The look-up e has its sockets ids, from source: it emits to those of the
\* user that are still connected.
Answer(e, ids, source) ==
  /\ looking' = [looking EXCEPT ![e] = source]
  /\ hinted' = [hinted EXCEPT ![e] = Matching(e, ids) \cap Connected]

\* Redis executes the oldest command and its reply arrives.
ReplySet(s) ==
  /\ Head(outbox) = Set(s)
  /\ outbox' = Tail(outbox)
  /\ registering' = [registering EXCEPT ![s] = "course"]
  /\ UNCHANGED <<socket, forgetting, room, lookups>>

ReplyDel(s) ==
  /\ Head(outbox) = Del(s)
  /\ outbox' = Tail(outbox)
  /\ forgetting' = [forgetting EXCEPT ![s] = "done"]
  /\ UNCHANGED <<socket, registering, room, lookups>>

ReplyKeys(e) ==
  /\ Head(outbox) = Keys(e)
  /\ outbox' = Append(Tail(outbox), MGet(e))
  /\ keys' = [keys EXCEPT ![e] = redis]
  /\ looking' = [looking EXCEPT ![e] = "mget"]
  /\ UNCHANGED <<who, hinted, sockets>>

\* MGET of no key is an error, and the local map is read instead.  A key that
\* has gone since has no value.
ReplyMGet(e) ==
  /\ Head(outbox) = MGet(e)
  /\ outbox' = Tail(outbox)
  /\ IF keys[e] = {} THEN Answer(e, memory, "memory")
                     ELSE Answer(e, keys[e] \cap redis, "redis")
  /\ UNCHANGED <<who, keys, sockets>>

Reply ==
  /\ link = "up"
  /\ outbox # <<>>
  /\ \/ \E s \in Socket : ReplySet(s) \/ ReplyDel(s)
     \/ \E e \in Lookup : ReplyKeys(e) \/ ReplyMGet(e)
  /\ redis' = Executed({Head(outbox)})
  /\ UNCHANGED <<owner, link, memory, losses, expired, expected>>

\* A key lives three hours and is never refreshed.
Expire(s) ==
  /\ s \in redis
  /\ redis' = redis \ {s}
  /\ expired' = expired \cup {s}
  /\ expected' = [e \in Lookup |-> expected[e] \ {s}]
  /\ UNCHANGED <<owner, link, outbox, memory, losses, sockets, lookups>>

\* (Slip: MGET outside the try.)
SlipRejected(e) == Keys(e) \in Issued

\* The look-ups whose catch runs: either of their commands is rejected.
Rejected(e) == {Keys(e), MGet(e)} \cap Issued # {}

\* (Slip: the catch of set forgotten.)
SlipFallback == {}

\* The sockets that the catch of set puts into the local map.
Fallback == {s \in Socket : Set(s) \in Issued}

\* The connection is lost.  Redis has executed some of the commands; all are
\* rejected, oldest first, so a look-up sees the keys of the SETs before it.
LoseLink ==
  /\ link = "up"
  /\ losses < MaxLosses
  /\ losses' = losses + 1
  /\ link' = "down"
  /\ \E n \in 0 .. Len(outbox) : redis' = Executed(First(n))
  /\ outbox' = <<>>
  /\ memory' = memory \cup Fallback
  /\ registering' = [s \in Socket |->
       IF Set(s) \in Issued THEN "course" ELSE registering[s]]
  /\ forgetting' = [s \in Socket |->
       IF Del(s) \in Issued THEN "failed" ELSE forgetting[s]]
  /\ looking' = [e \in Lookup |->
       IF Rejected(e) THEN "memory" ELSE looking[e]]
  /\ hinted' = [e \in Lookup |->
       LET caught == {s \in Fallback : \E i, j \in 1 .. Len(outbox) :
                        i < j /\ outbox[i] = Set(s) /\ outbox[j] \in {Keys(e), MGet(e)}}
       IN  IF Rejected(e) THEN Matching(e, memory \cup caught) \cap Connected
                          ELSE hinted[e]]
  /\ expected' = [e \in Lookup |-> expected[e] \ {s \in Socket : Set(s) \in Issued}]
  /\ UNCHANGED <<owner, socket, room, who, keys, expired>>

\* The client connects.  The handler of 'connect' would move the local map to
\* Redis if memory.values, which is a method, had a length above 0: never.
Reconnect ==
  /\ link = "down"
  /\ link' = "up"
  /\ UNCHANGED <<owner, outbox, memory, redis, losses, expired, expected>>
  /\ UNCHANGED <<sockets, lookups>>

\* The process stops and starts again: its sockets, its map and its calls are
\* gone, the keys stay.
Crash ==
  /\ losses < MaxLosses
  /\ losses' = losses + 1
  /\ link' = "down"
  /\ \E n \in 0 .. (IF link = "up" THEN Len(outbox) ELSE 0) : redis' = Executed(First(n))
  /\ outbox' = <<>>
  /\ memory' = {}
  /\ socket' = [s \in Socket |-> IF socket[s] = "connected" THEN "closed" ELSE socket[s]]
  /\ registering' = [s \in Socket |->
       IF registering[s] \in {"set", "course"} THEN "failed" ELSE registering[s]]
  /\ forgetting' = [s \in Socket |->
       IF s \in Connected \/ forgetting[s] = "del" THEN "failed" ELSE forgetting[s]]
  /\ room' = {}
  /\ looking' = [e \in Lookup |->
       IF looking[e] \in {"keys", "mget"} THEN "lost" ELSE looking[e]]
  /\ expected' = [e \in Lookup |-> {}]
  /\ UNCHANGED <<owner, who, keys, hinted, expired>>

-----------------------------------------------------------------------------
Next ==
  \/ \E s \in Socket : Connect(s) \/ JoinCourse(s) \/ Disconnect(s) \/ Expire(s)
  \/ \E e \in Lookup : EmitToUser(e)
  \/ Reply
  \/ LoseLink
  \/ Reconnect
  \/ Crash

Spec == Init /\ [][Next]_vars

\* The client tries to reconnect for ever, and Redis answers what it is sent.
FairSpec == Spec /\ WF_vars(Reconnect) /\ WF_vars(Reply)

-----------------------------------------------------------------------------
(* Properties.                                                             *)

\* The variables have the types of the sockets, of the map and of the calls.
TypeOK ==
  /\ owner \in [Socket -> User \cup {NoUser}]
  /\ socket \in [Socket -> {"new", "connected", "closed"}]
  /\ registering \in [Socket -> {"no", "set", "course", "done", "failed"}]
  /\ forgetting \in [Socket -> {"no", "del", "done", "failed"}]
  /\ room \subseteq Connected
  /\ link \in {"up", "down"}
  /\ outbox \in Seq({"set", "del"} \X Socket \cup {"keys", "mget"} \X Lookup)
  /\ memory \subseteq Socket
  /\ redis \subseteq Socket
  /\ looking \in [Lookup -> {"no", "keys", "mget", "redis", "memory", "lost"}]
  /\ who \in [Lookup -> User]
  /\ keys \in [Lookup -> SUBSET Socket]
  /\ hinted \in [Lookup -> SUBSET Socket]
  /\ losses \in 0 .. MaxLosses
  /\ expired \subseteq Socket
  /\ expected \in [Lookup -> SUBSET Socket]

\* A connected socket that has been registered stays so, in Redis or in the
\* local map, until its key expires, however often the connection to Redis is
\* lost (what Redis has stored, it keeps).
RegistrationKept ==
  \A s \in Connected :
    registering[s] \in {"course", "done"} => s \in redis \cup memory \cup expired

\* What remains of a closed socket has a reason: in Redis, its DEL is under
\* way or was lost; in the local map, its DEL was rejected together with its
\* SET.
StaleExplained ==
  \A s \in Socket :
    socket[s] = "closed" =>
      /\ s \in redis => forgetting[s] \in {"del", "failed"}
      /\ s \in memory => forgetting[s] = "failed"

\* A look-up that Redis answers reaches every socket of its user that was on
\* its way into Redis when the event arrived and is still there: a student
\* that is being registered is not overlooked, and none of several sockets is.
ExpectedAreHinted ==
  \A e \in Lookup : looking[e] = "redis" => expected[e] \subseteq hinted[e]

\* Whoever waits for a command - a registration for its SET, a disconnection for
\* its DEL, a look-up for its KEYS or its MGET - has it in the outbox: however
\* the connection comes and goes, nobody waits for what was rejected.
NobodyWaitsInVain ==
  /\ \A s \in Socket : /\ registering[s] = "set" => Set(s) \in Issued
                       /\ forgetting[s] = "del" => Del(s) \in Issued
  /\ \A e \in Lookup : /\ looking[e] = "keys" => Keys(e) \in Issued
                       /\ looking[e] = "mget" => MGet(e) \in Issued

\* The command that the look-up e waits for.
Asked(e) == IF looking[e] = "keys" THEN Keys(e) ELSE MGet(e)

\* In every step a look-up that waits ends, goes on from its KEYS to its MGET, or
\* keeps its place in the queue, one further to the front when a command ahead
\* of it is answered: nothing overtakes it.
LookupsAdvance ==
  [][\A e \in Lookup : looking[e] \in {"keys", "mget"} =>
       \/ looking'[e] \in {"redis", "memory", "lost"}
       \/ looking[e] = "keys" /\ looking'[e] = "mget"
       \/ /\ looking'[e] = looking[e]
          /\ \E i \in 1 .. Len(outbox), j \in 1 .. Len(outbox') :
               /\ outbox[i] = Asked(e) /\ outbox'[j] = Asked(e)
               /\ j = IF Head(outbox') = Head(outbox) THEN i ELSE i - 1]_vars

\* Redis, the local map and the commands between them are a directory: a look-up
\* ends once, hints only sockets of its user that are connected just then, and
\* misses none that is due when Redis answers it.
Stage == [e \in Lookup |->
  CASE looking[e] = "no" -> "no"
    [] looking[e] \in {"keys", "mget"} -> "open"
    [] looking[e] = "redis" -> "found"
    [] looking[e] = "memory" -> "partial"
    [] looking[e] = "lost" -> "lost"]

Promise == INSTANCE Directory
  WITH present <- Connected, stage <- Stage, due <- expected

ImplementsDirectory == Promise!Spec

\* Every look-up ends, however often the connection is lost.
EveryLookupEnds ==
  \A e \in Lookup : looking[e] = "keys" ~> looking[e] \in {"redis", "memory", "lost"}

\* (Refuted.)  memory.service.ts says that it passes the values of the local
\* map to Redis when it connects.
MemoryPassedOn == [][link = "down" /\ link' = "up" => memory' = {}]_vars
=============================================================================
