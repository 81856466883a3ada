---------------------------- MODULE PresenceProofs ----------------------------
(***************************************************************************)
(* What Presence promises, for any number of users, sockets, look-ups and  *)
(* losses.  The commands under way are followed through the outbox: each   *)
(* is there once, the DEL of a socket after its SET, a look-up after the   *)
(* SETs that it must see.                                                  *)
(***************************************************************************)
EXTENDS Presence, TLAPS

Command == ({"set", "del"} \X Socket) \cup ({"keys", "mget"} \X Lookup)

-----------------------------------------------------------------------------
(* Queues of commands.                                                     *)

Elements(q) == {q[i] : i \in 1 .. Len(q)}
Before(q, a, b) == \E i, j \in 1 .. Len(q) : i < j /\ q[i] = a /\ q[j] = b
Distinct(q) == \A i, j \in 1 .. Len(q) : q[i] = q[j] => i = j

\* A command joins the queue.
LEMMA OnAppend ==
  ASSUME NEW q \in Seq(Command), NEW x \in Command, x \notin Elements(q), Distinct(q)
  PROVE  /\ Append(q, x) \in Seq(Command)
         /\ Distinct(Append(q, x))
         /\ Elements(Append(q, x)) = Elements(q) \cup {x}
         /\ \A a, b : Before(q, a, b) => Before(Append(q, x), a, b)
         /\ \A a \in Elements(q) : Before(Append(q, x), a, x)
<1> DEFINE r == Append(q, x)
<1>1. /\ r \in Seq(Command) /\ Len(r) = Len(q) + 1 /\ Len(q) \in Nat
      /\ \A i \in 1 .. Len(q) : r[i] = q[i]
      /\ r[Len(q) + 1] = x
  OBVIOUS
<1> HIDE DEF r
<1>2. Distinct(r)
  BY <1>1 DEF Distinct, Elements
<1>3. Elements(r) = Elements(q) \cup {x}
  <2>1. 1 .. Len(r) = (1 .. Len(q)) \cup {Len(q) + 1}
    BY <1>1
  <2> QED
    BY <1>1, <2>1 DEF Elements
<1>4. ASSUME NEW a, NEW b, Before(q, a, b) PROVE Before(r, a, b)
  BY <1>1, <1>4 DEF Before
<1>5. ASSUME NEW a \in Elements(q) PROVE Before(r, a, x)
  <2>1. PICK i \in 1 .. Len(q) : q[i] = a
    BY DEF Elements
  <2>2. i \in 1 .. Len(r) /\ Len(q) + 1 \in 1 .. Len(r) /\ i < Len(q) + 1
    BY <1>1
  <2> QED
    BY <1>1, <2>1, <2>2 DEF Before
<1> QED
  BY <1>1, <1>2, <1>3, <1>4, <1>5 DEF r

\* The oldest command leaves the queue.
LEMMA OnTail ==
  ASSUME NEW q \in Seq(Command), q # <<>>, Distinct(q)
  PROVE  /\ Tail(q) \in Seq(Command) /\ Head(q) \in Command
         /\ Distinct(Tail(q))
         /\ Head(q) \in Elements(q)
         /\ Elements(Tail(q)) = Elements(q) \ {Head(q)}
         /\ \A a, b : Before(q, a, b) /\ a # Head(q) => Before(Tail(q), a, b)
         /\ \A a : ~Before(q, a, Head(q))
<1> DEFINE r == Tail(q)
<1>1. /\ r \in Seq(Command) /\ Head(q) \in Command
      /\ Len(q) \in Nat \ {0} /\ Len(r) = Len(q) - 1
      /\ \A i \in 1 .. Len(r) : r[i] = q[i + 1]
      /\ Head(q) = q[1]
  OBVIOUS
<1> HIDE DEF r
<1>2. Distinct(r)
  BY <1>1 DEF Distinct
<1>3. \A i \in 1 .. Len(q) : i # 1 => q[i] # Head(q) /\ i - 1 \in 1 .. Len(r) /\ r[i - 1] = q[i]
  BY <1>1 DEF Distinct
<1>4. Elements(r) = Elements(q) \ {Head(q)}
  <2>1. Elements(r) \subseteq Elements(q) \ {Head(q)}
    <3>1. ASSUME NEW i \in 1 .. Len(r) PROVE r[i] \in Elements(q) \ {Head(q)}
      <4>1. i + 1 \in 1 .. Len(q) /\ i + 1 # 1
        BY <1>1
      <4> QED
        BY <1>1, <1>3, <4>1 DEF Elements
    <3> QED
      BY <3>1 DEF Elements
  <2>2. Elements(q) \ {Head(q)} \subseteq Elements(r)
    BY <1>1, <1>3 DEF Elements
  <2> QED
    BY <2>1, <2>2
<1>5. ASSUME NEW a, NEW b, Before(q, a, b), a # Head(q) PROVE Before(r, a, b)
  <2>1. PICK i, j \in 1 .. Len(q) : i < j /\ q[i] = a /\ q[j] = b
    BY <1>5 DEF Before
  <2>2. i # 1 /\ j # 1
    BY <1>1, <1>5, <2>1
  <2>3. i - 1 \in 1 .. Len(r) /\ j - 1 \in 1 .. Len(r) /\ i - 1 < j - 1
    BY <1>1, <2>1, <2>2
  <2> QED
    BY <1>3, <2>1, <2>2, <2>3 DEF Before
<1>6. \A a : ~Before(q, a, Head(q))
  BY <1>1 DEF Before, Distinct
<1>7. Head(q) \in Elements(q)
  BY <1>1 DEF Elements
<1> QED
  BY <1>1, <1>2, <1>4, <1>5, <1>6, <1>7 DEF r

LEMMA OnEmpty ==
  /\ <<>> \in Seq(Command) /\ Distinct(<<>>) /\ Elements(<<>>) = {}
  /\ \A a, b : ~Before(<<>>, a, b)
BY DEF Distinct, Elements, Before

\* Commands are told apart by their kinds and by whom they are about.
LEMMA Commands ==
  /\ \A s \in Socket : Set(s) \in Command /\ Del(s) \in Command
  /\ \A e \in Lookup : Keys(e) \in Command /\ MGet(e) \in Command
  /\ \A s, t \in Socket : /\ Set(s) # Del(t)
                          /\ Set(s) = Set(t) => s = t
                          /\ Del(s) = Del(t) => s = t
  /\ \A s \in Socket, e \in Lookup : /\ Set(s) # Keys(e) /\ Set(s) # MGet(e)
                                     /\ Del(s) # Keys(e) /\ Del(s) # MGet(e)
  /\ \A d, e \in Lookup : /\ Keys(d) # MGet(e)
                          /\ Keys(d) = Keys(e) => d = e
                          /\ MGet(d) = MGet(e) => d = e
BY DEF Command, Set, Del, Keys, MGet

\* The commands that Redis may have executed are commands that were issued.
LEMMA IssuedIs ==
  ASSUME outbox \in Seq(Command)
  PROVE  /\ Issued = Elements(outbox)
         /\ \A n \in 0 .. Len(outbox) : First(n) \subseteq Elements(outbox)
BY DEF Issued, First, Elements

-----------------------------------------------------------------------------
(* The types.                                                              *)

LEMMA TypeInit == Init => TypeOK
<1>1. <<>> \in Seq(Command)
  BY OnEmpty
<1> QED
  BY <1>1, LossesAssumption DEF Init, TypeOK, Command

LEMMA TypeStep == TypeOK /\ [Next]_vars => TypeOK'
<1> SUFFICES ASSUME TypeOK, [Next]_vars PROVE TypeOK'
  OBVIOUS
<1>a. outbox \in Seq(Command)
  BY DEF TypeOK, Command
<1>b. \A x \in Command : Append(outbox, x) \in Seq(Command)
  BY <1>a
<1>c. outbox # <<>> => Tail(outbox) \in Seq(Command)
  BY <1>a
<1>1. ASSUME NEW s \in Socket, Connect(s) PROVE TypeOK'
  <2>1. outbox' \in Seq(Command)
    <3>1. outbox' \in {outbox, Append(outbox, Set(s))} /\ Set(s) \in Command
      BY <1>1, Commands DEF Connect
    <3> QED
      BY <1>a, <1>b, <3>1
  <2>3. registering' \in [Socket -> {"no", "set", "course", "done", "failed"}]
    BY <1>1 DEF Connect, TypeOK
  <2>2. room \subseteq Connected'
    BY <1>1 DEF Connect, Connected, TypeOK
  <2> QED
    BY <1>1, <2>1, <2>2, <2>3 DEF Connect, TypeOK, Command, lookups
<1>2. ASSUME NEW s \in Socket, JoinCourse(s) PROVE TypeOK'
  BY <1>2 DEF JoinCourse, TypeOK, Connected, lookups
<1>3. ASSUME NEW s \in Socket, Disconnect(s) PROVE TypeOK'
  <2>1. outbox' \in Seq(Command)
    BY <1>b, <1>3, Commands DEF Disconnect
  <2>2. room' \subseteq Connected'
    BY <1>3 DEF Disconnect, Connected, TypeOK
  <2> QED
    BY <1>3, <2>1, <2>2 DEF Disconnect, TypeOK, Command, lookups
<1>4. ASSUME NEW e \in Lookup, EmitToUser(e) PROVE TypeOK'
  <2>1. outbox' \in Seq(Command)
    BY <1>b, <1>4, Commands DEF EmitToUser
  <2>2. expected' \in [Lookup -> SUBSET Socket]
    BY <1>4 DEF EmitToUser, TypeOK, Connected
  <2> QED
    BY <1>4, <2>1, <2>2 DEF EmitToUser, TypeOK, Command, Connected, sockets
<1>5. ASSUME NEW done PROVE Executed(done) \in SUBSET Socket
  BY DEF Executed, TypeOK
<1>6. CASE Reply
  <2>1. outbox # <<>> /\ redis' \in SUBSET Socket
    BY <1>5, <1>6 DEF Reply
  <2>2. ASSUME NEW s \in Socket, ReplySet(s) \/ ReplyDel(s) PROVE TypeOK'
    <3>1. outbox' \in Seq(Command)
      BY <1>c, <2>1, <2>2 DEF ReplySet, ReplyDel
    <3>2. /\ registering' \in [Socket -> {"no", "set", "course", "done", "failed"}]
          /\ forgetting' \in [Socket -> {"no", "del", "done", "failed"}]
          /\ UNCHANGED <<socket, room, lookups>>
      <4>1. CASE ReplySet(s)
        BY <4>1 DEF ReplySet, TypeOK
      <4>2. CASE ReplyDel(s)
        BY <4>2 DEF ReplyDel, TypeOK
      <4> QED
        BY <2>2, <4>1, <4>2
    <3> QED
      BY <1>6, <2>1, <3>1, <3>2 DEF Reply, TypeOK, Command, Connected, lookups
  <2>3. ASSUME NEW e \in Lookup, ReplyKeys(e) PROVE TypeOK'
    <3>1. outbox' \in Seq(Command)
      <4>1. /\ outbox' = Append(Tail(outbox), MGet(e))
            /\ Tail(outbox) \in Seq(Command) /\ MGet(e) \in Command
        BY <1>c, <2>1, <2>3, Commands DEF ReplyKeys
      <4> QED
        BY <4>1
    <3> QED
      BY <1>6, <2>1, <2>3, <3>1
      DEF Reply, ReplyKeys, TypeOK, Command, Connected, sockets
  <2>4. ASSUME NEW e \in Lookup, ReplyMGet(e) PROVE TypeOK'
    <3>1. outbox' \in Seq(Command)
      BY <1>c, <2>1, <2>4 DEF ReplyMGet
    <3>2. PICK ids \in SUBSET Socket, source \in {"memory", "redis"} : Answer(e, ids, source)
      BY <2>4 DEF ReplyMGet, TypeOK
    <3>3. Matching(e, ids) \cap Connected \in SUBSET Socket
      BY DEF Connected
    <3>4. /\ looking' \in [Lookup -> {"no", "keys", "mget", "redis", "memory", "lost"}]
          /\ hinted' \in [Lookup -> SUBSET Socket]
      BY <3>2, <3>3 DEF Answer, TypeOK
    <3> QED
      BY <1>6, <2>1, <2>4, <3>1, <3>4
      DEF Reply, ReplyMGet, TypeOK, Command, Connected, sockets
  <2> QED
    BY <1>6, <2>2, <2>3, <2>4 DEF Reply
<1>7. CASE LoseLink
  <2>1. outbox' \in Seq(Command) /\ redis' \in SUBSET Socket
    BY <1>5, <1>7, OnEmpty DEF LoseLink
  <2>2. memory' \in SUBSET Socket
    BY <1>7 DEF LoseLink, Fallback, TypeOK
  <2>3. hinted' \in [Lookup -> SUBSET Socket]
    <3>1. \A e \in Lookup : hinted'[e] \in SUBSET Socket
      BY <1>7 DEF LoseLink, TypeOK, Connected
    <3> QED
      BY <1>7, <3>1 DEF LoseLink
  <2>4. /\ registering' \in [Socket -> {"no", "set", "course", "done", "failed"}]
        /\ forgetting' \in [Socket -> {"no", "del", "done", "failed"}]
        /\ looking' \in [Lookup -> {"no", "keys", "mget", "redis", "memory", "lost"}]
        /\ expected' \in [Lookup -> SUBSET Socket]
        /\ losses' \in 0 .. MaxLosses
    BY <1>7, LossesAssumption DEF LoseLink, TypeOK
  <2> QED
    BY <1>7, <2>1, <2>2, <2>3, <2>4 DEF LoseLink, TypeOK, Command, Connected
<1>8. CASE Crash
  <2>1. outbox' \in Seq(Command) /\ redis' \in SUBSET Socket
    BY <1>5, <1>8, OnEmpty DEF Crash
  <2>2. /\ socket' \in [Socket -> {"new", "connected", "closed"}]
        /\ registering' \in [Socket -> {"no", "set", "course", "done", "failed"}]
        /\ forgetting' \in [Socket -> {"no", "del", "done", "failed"}]
        /\ looking' \in [Lookup -> {"no", "keys", "mget", "redis", "memory", "lost"}]
        /\ losses' \in 0 .. MaxLosses
    BY <1>8, LossesAssumption DEF Crash, TypeOK
  <2> QED
    BY <1>8, <2>1, <2>2 DEF Crash, TypeOK, Command
<1>9. CASE (\E s \in Socket : Expire(s)) \/ Reconnect \/ UNCHANGED vars
  BY <1>9 DEF Expire, Reconnect, vars, TypeOK, Connected, sockets, lookups
<1> QED
  BY <1>1, <1>2, <1>3, <1>4, <1>6, <1>7, <1>8, <1>9 DEF Next

\* The variables always have the types of the sockets, of the map and of the
\* calls; no socket that has left is in a room.
THEOREM PresenceTypeCorrect == Spec => []TypeOK
BY TypeInit, TypeStep, PTL DEF Spec

-----------------------------------------------------------------------------
(* The commands under way.                                                 *)

\* Every command that is waited for is in the outbox once, and the DEL of a
\* socket after its SET.
QueueInv ==
  /\ outbox \in Seq(Command)
  /\ Distinct(outbox)
  /\ \A s \in Socket : Set(s) \in Elements(outbox) <=> registering[s] = "set"
  /\ \A s \in Socket : Del(s) \in Elements(outbox) <=> forgetting[s] = "del"
  /\ \A e \in Lookup : Keys(e) \in Elements(outbox) <=> looking[e] = "keys"
  /\ \A e \in Lookup : MGet(e) \in Elements(outbox) <=> looking[e] = "mget"
  /\ \A s \in Socket :
       registering[s] = "set" /\ forgetting[s] = "del" => Before(outbox, Set(s), Del(s))

\* The life of a socket.
LifeInv ==
  /\ \A s \in Socket : socket[s] = "new" => registering[s] = "no" /\ forgetting[s] = "no"
  /\ \A s \in Socket : socket[s] = "connected" => forgetting[s] = "no"
  /\ \A s \in Socket : socket[s] = "closed" => forgetting[s] # "no"
  /\ \A s \in Socket : socket[s] = "connected" /\ owner[s] \in User =>
       registering[s] \in {"set", "course", "done"}
  /\ \A s \in Socket : forgetting[s] = "done" => registering[s] # "set" /\ s \notin redis
  /\ \A s \in Socket : forgetting[s] \in {"del", "done"} => s \notin memory
  /\ RegistrationKept

\* A step of a command through the queue, seen from the four who wait.
LEMMA QueueStep ==
  ASSUME TypeOK, QueueInv, LifeInv, [Next]_vars
  PROVE  QueueInv'
<1> USE Commands DEF QueueInv
<1>1. ASSUME NEW s \in Socket, Connect(s) PROVE QueueInv'
  <2>1. registering[s] = "no" /\ Set(s) \notin Elements(outbox) /\ forgetting[s] = "no"
    BY <1>1 DEF Connect, LifeInv
  <2>2. CASE owner[s] = NoUser
    BY <1>1, <2>1, <2>2 DEF Connect, lookups, TypeOK
  <2>3. CASE owner[s] # NoUser
    <3>1. /\ outbox' = Append(outbox, Set(s))
          /\ registering' = [registering EXCEPT ![s] = "set"]
          /\ UNCHANGED <<forgetting, looking>>
      BY <1>1, <2>3 DEF Connect, lookups
    <3>2. /\ outbox' \in Seq(Command) /\ Distinct(outbox')
          /\ Elements(outbox') = Elements(outbox) \cup {Set(s)}
          /\ \A a, b : Before(outbox, a, b) => Before(outbox', a, b)
      BY <2>1, <3>1, OnAppend
    <3> QED
      BY <2>1, <3>1, <3>2 DEF TypeOK
  <2> QED
    BY <2>2, <2>3
<1>2. ASSUME NEW s \in Socket, JoinCourse(s) PROVE QueueInv'
  BY <1>2 DEF JoinCourse, lookups, TypeOK
<1>3. ASSUME NEW s \in Socket, Disconnect(s) PROVE QueueInv'
  <2>1. forgetting[s] = "no" /\ Del(s) \notin Elements(outbox)
    BY <1>3 DEF Disconnect, LifeInv
  <2>2. /\ outbox' = Append(outbox, Del(s))
        /\ forgetting' = [forgetting EXCEPT ![s] = "del"]
        /\ UNCHANGED <<registering, looking>>
    BY <1>3 DEF Disconnect, lookups
  <2>3. /\ outbox' \in Seq(Command) /\ Distinct(outbox')
        /\ Elements(outbox') = Elements(outbox) \cup {Del(s)}
        /\ \A a, b : Before(outbox, a, b) => Before(outbox', a, b)
        /\ \A a \in Elements(outbox) : Before(outbox', a, Del(s))
    BY <2>1, <2>2, OnAppend
  <2> QED
    BY <2>1, <2>2, <2>3 DEF TypeOK
<1>4. ASSUME NEW e \in Lookup, EmitToUser(e) PROVE QueueInv'
  <2>1. looking[e] = "no" /\ Keys(e) \notin Elements(outbox)
    BY <1>4 DEF EmitToUser
  <2>2. /\ outbox' = Append(outbox, Keys(e))
        /\ looking' = [looking EXCEPT ![e] = "keys"]
        /\ UNCHANGED <<registering, forgetting>>
    BY <1>4 DEF EmitToUser, sockets
  <2>3. /\ outbox' \in Seq(Command) /\ Distinct(outbox')
        /\ Elements(outbox') = Elements(outbox) \cup {Keys(e)}
        /\ \A a, b : Before(outbox, a, b) => Before(outbox', a, b)
    BY <2>1, <2>2, OnAppend
  <2> QED
    BY <2>1, <2>2, <2>3 DEF TypeOK
<1>5. CASE Reply
  <2> DEFINE rest == Tail(outbox)
             head == Head(outbox)
  <2>1. outbox # <<>>
    BY <1>5 DEF Reply
  <2>2. /\ rest \in Seq(Command) /\ Distinct(rest)
        /\ head \in Elements(outbox)
        /\ Elements(rest) = Elements(outbox) \ {head}
        /\ \A a, b : Before(outbox, a, b) /\ a # head => Before(rest, a, b)
        /\ \A a : ~Before(outbox, a, head)
    BY <2>1, OnTail
  <2> HIDE DEF rest, head
  <2>3. ASSUME NEW s \in Socket, ReplySet(s) PROVE QueueInv'
    <3>1. /\ head = Set(s) /\ outbox' = rest
          /\ registering' = [registering EXCEPT ![s] = "course"]
          /\ UNCHANGED <<forgetting, looking>>
      BY <2>3 DEF ReplySet, lookups, rest, head
    <3> QED
      BY <2>2, <3>1 DEF TypeOK
  <2>4. ASSUME NEW s \in Socket, ReplyDel(s) PROVE QueueInv'
    <3>1. /\ head = Del(s) /\ outbox' = rest
          /\ forgetting' = [forgetting EXCEPT ![s] = "done"]
          /\ UNCHANGED <<registering, looking>>
      BY <2>4 DEF ReplyDel, lookups, rest, head
    <3> QED
      BY <2>2, <3>1 DEF TypeOK
  <2>5. ASSUME NEW e \in Lookup, ReplyKeys(e) PROVE QueueInv'
    <3>1. /\ head = Keys(e) /\ outbox' = Append(rest, MGet(e))
          /\ looking' = [looking EXCEPT ![e] = "mget"]
          /\ UNCHANGED <<registering, forgetting>>
      BY <2>5 DEF ReplyKeys, sockets, rest, head
    <3>2. MGet(e) \notin Elements(rest)
      BY <2>2, <3>1
    <3>3. /\ outbox' \in Seq(Command) /\ Distinct(outbox')
          /\ Elements(outbox') = Elements(rest) \cup {MGet(e)}
          /\ \A a, b : Before(rest, a, b) => Before(outbox', a, b)
      BY <2>2, <3>1, <3>2, OnAppend
    <3> QED
      BY <2>2, <3>1, <3>3 DEF TypeOK
  <2>6. ASSUME NEW e \in Lookup, ReplyMGet(e) PROVE QueueInv'
    <3>1. /\ head = MGet(e) /\ outbox' = rest
          /\ \E source \in {"memory", "redis"} : looking' = [looking EXCEPT ![e] = source]
          /\ UNCHANGED <<registering, forgetting>>
      BY <2>6 DEF ReplyMGet, Answer, sockets, rest, head
    <3> QED
      BY <2>2, <3>1 DEF TypeOK
  <2> QED
    BY <1>5, <2>3, <2>4, <2>5, <2>6 DEF Reply
<1>6. CASE LoseLink
  <2>1. Issued = Elements(outbox)
    BY IssuedIs
  <2>2. /\ outbox' = <<>>
        /\ registering' = [s \in Socket |->
             IF Set(s) \in Issued THEN "course" ELSE registering[s]]
        /\ forgetting' = [s \in Socket |->
             IF Del(s) \in Issued THEN "failed" ELSE forgetting[s]]
        /\ looking' = [e \in Lookup |-> IF Rejected(e) THEN "memory" ELSE looking[e]]
    BY <1>6 DEF LoseLink
  <2>3. \A e \in Lookup : Rejected(e) <=> looking[e] \in {"keys", "mget"}
    BY <2>1 DEF Rejected
  <2> QED
    BY <2>1, <2>2, <2>3, OnEmpty
<1>7. CASE Crash
  <2>1. /\ outbox' = <<>>
        /\ registering' = [s \in Socket |->
             IF registering[s] \in {"set", "course"} THEN "failed" ELSE registering[s]]
        /\ forgetting' = [s \in Socket |->
             IF s \in Connected \/ forgetting[s] = "del" THEN "failed" ELSE forgetting[s]]
        /\ looking' = [e \in Lookup |->
             IF looking[e] \in {"keys", "mget"} THEN "lost" ELSE looking[e]]
    BY <1>7 DEF Crash
  <2> QED
    BY <2>1, OnEmpty
<1>8. CASE (\E s \in Socket : Expire(s)) \/ Reconnect \/ UNCHANGED vars
  BY <1>8 DEF Expire, Reconnect, vars, sockets, lookups
<1> QED
  BY <1>1, <1>2, <1>3, <1>4, <1>5, <1>6, <1>7, <1>8 DEF Next
\* The life of a socket: what is in Redis and in the map follows from the
\* commands under way.
LEMMA LifeStep ==
  ASSUME TypeOK, QueueInv, LifeInv, [Next]_vars
  PROVE  LifeInv'
<1> USE DEF LifeInv, RegistrationKept, Connected
<1>1. /\ Issued = Elements(outbox)
      /\ \A n \in 0 .. Len(outbox) : First(n) \subseteq Elements(outbox)
  BY IssuedIs DEF QueueInv
<1>2. ASSUME NEW done \in SUBSET Elements(outbox), NEW s \in Socket
      PROVE  /\ forgetting[s] # "del" /\ s \in redis => s \in Executed(done)
             /\ forgetting[s] # "del" /\ Set(s) \in done => s \in Executed(done)
             /\ registering[s] # "set" /\ s \notin redis => s \notin Executed(done)
  BY DEF Executed, QueueInv
<1>3. ASSUME NEW s \in Socket, Connect(s) PROVE LifeInv'
  <2>1. /\ socket' = [socket EXCEPT ![s] = "connected"]
        /\ \/ owner[s] = NoUser /\ registering' = [registering EXCEPT ![s] = "failed"]
           \/ registering' = [registering EXCEPT ![s] = "set"]
        /\ socket[s] = "new"
        /\ UNCHANGED <<owner, forgetting, memory, redis, expired>>
    BY <1>3 DEF Connect
  <2> QED
    BY <2>1, NoUserAssumption DEF TypeOK
<1>4. ASSUME NEW s \in Socket, JoinCourse(s) PROVE LifeInv'
  BY <1>4 DEF JoinCourse, TypeOK
<1>5. ASSUME NEW s \in Socket, Disconnect(s) PROVE LifeInv'
  BY <1>5 DEF Disconnect, TypeOK
<1>6. ASSUME NEW e \in Lookup, EmitToUser(e) PROVE LifeInv'
  BY <1>6 DEF EmitToUser, sockets
<1>7. CASE Reply
  <2>1. /\ Head(outbox) \in Elements(outbox)
        /\ \A a : ~Before(outbox, a, Head(outbox))
    BY <1>7, OnTail DEF Reply, QueueInv
  <2>2. redis' = Executed({Head(outbox)}) /\ UNCHANGED <<owner, memory, expired>>
    BY <1>7 DEF Reply
  <2>3. {Head(outbox)} \in SUBSET Elements(outbox)
    BY <2>1
  <2>4. ASSUME NEW s \in Socket, ReplySet(s) PROVE LifeInv'
    <3>1. /\ Head(outbox) = Set(s)
          /\ registering' = [registering EXCEPT ![s] = "course"]
          /\ UNCHANGED <<socket, forgetting>>
      BY <2>4 DEF ReplySet
    <3>2. registering[s] = "set"
      BY <2>1, <3>1 DEF QueueInv
    <3>3. Set(s) \in {Head(outbox)}
      BY <3>1
    <3> QED
      BY <1>2, <2>2, <2>3, <3>1, <3>2, <3>3 DEF TypeOK
  <2>5. ASSUME NEW s \in Socket, ReplyDel(s) PROVE LifeInv'
    <3>1. /\ Head(outbox) = Del(s)
          /\ forgetting' = [forgetting EXCEPT ![s] = "done"]
          /\ UNCHANGED <<socket, registering>>
      BY <2>5 DEF ReplyDel
    <3>2. forgetting[s] = "del" /\ registering[s] # "set"
      BY <2>1, <3>1 DEF QueueInv
    <3>3. s \notin redis'
      BY <2>2, <3>1 DEF Executed
    <3> QED
      BY <1>2, <2>2, <2>3, <3>1, <3>2, <3>3 DEF TypeOK
  <2>6. ASSUME NEW e \in Lookup, ReplyKeys(e) \/ ReplyMGet(e) PROVE LifeInv'
    <3>1. UNCHANGED <<socket, registering, forgetting>>
      BY <2>6 DEF ReplyKeys, ReplyMGet, sockets
    <3> QED
      BY <1>2, <2>2, <2>3, <3>1
  <2> QED
    BY <1>7, <2>4, <2>5, <2>6 DEF Reply
<1>8. CASE LoseLink
  <2>1. PICK n \in 0 .. Len(outbox) : redis' = Executed(First(n))
    BY <1>8 DEF LoseLink
  <2>2. First(n) \in SUBSET Elements(outbox)
    BY <1>1
  <2>3. /\ memory' = memory \cup {s \in Socket : registering[s] = "set"}
        /\ registering' = [s \in Socket |->
             IF registering[s] = "set" THEN "course" ELSE registering[s]]
        /\ forgetting' = [s \in Socket |->
             IF forgetting[s] = "del" THEN "failed" ELSE forgetting[s]]
        /\ UNCHANGED <<owner, socket, expired>>
    BY <1>1, <1>8 DEF LoseLink, Fallback, QueueInv
  <2> QED
    BY <1>2, <2>1, <2>2, <2>3
<1>9. CASE Crash
  <2>1. PICK n \in 0 .. Len(outbox) : redis' = Executed(First(n))
    <3>1. Len(outbox) \in Nat
      BY DEF QueueInv
    <3> QED
      BY <1>9, <3>1 DEF Crash
  <2>2. First(n) \in SUBSET Elements(outbox)
    BY <1>1
  <2>3. /\ memory' = {}
        /\ socket' = [s \in Socket |-> IF socket[s] = "connected" THEN "closed" ELSE socket[s]]
        /\ registering' = [s \in Socket |->
             IF registering[s] \in {"set", "course"} THEN "failed" ELSE registering[s]]
        /\ forgetting' = [s \in Socket |->
             IF socket[s] = "connected" \/ forgetting[s] = "del" THEN "failed" ELSE forgetting[s]]
    BY <1>9 DEF Crash
  <2>4. \A s \in Socket : socket'[s] # "connected"
    BY <2>3
  <2> QED
    BY <1>2, <2>1, <2>2, <2>3, <2>4 DEF TypeOK
<1>10. CASE \E s \in Socket : Expire(s)
  BY <1>10 DEF Expire, sockets
<1>11. CASE Reconnect \/ UNCHANGED vars
  BY <1>11 DEF Reconnect, vars, sockets
<1> QED
  BY <1>3, <1>4, <1>5, <1>6, <1>7, <1>8, <1>9, <1>10, <1>11 DEF Next

LEMMA LifeInvariant == Spec => [](QueueInv /\ LifeInv)
<1>1. Init => QueueInv /\ LifeInv
  BY OnEmpty DEF Init, QueueInv, LifeInv, RegistrationKept, Connected
<1>2. TypeOK /\ QueueInv /\ LifeInv /\ [Next]_vars => QueueInv' /\ LifeInv'
  BY QueueStep, LifeStep
<1> QED
  BY <1>1, <1>2, PresenceTypeCorrect, PTL DEF Spec

\* No failure of Redis loses a connected socket: it is in Redis or in the local
\* map until its key expires.
THEOREM RegistrationCorrect == Spec => []RegistrationKept
<1>1. LifeInv => RegistrationKept
  BY DEF LifeInv
<1> QED
  BY <1>1, LifeInvariant, PTL

\* What remains of a closed socket is there because its DEL is under way or
\* did not get through.
THEOREM StaleCorrect == Spec => []StaleExplained
<1>1. TypeOK /\ LifeInv => StaleExplained
  BY DEF TypeOK, LifeInv, StaleExplained
<1> QED
  BY <1>1, LifeInvariant, PresenceTypeCorrect, PTL
-----------------------------------------------------------------------------
(* The look-ups.                                                           *)

\* A socket that an event must reach is in Redis, or its SET is ahead of the
\* KEYS of the event; once the keys are known, it is among them.
LookInv ==
  /\ \A e \in Lookup : looking[e] = "no" => expected[e] = {}
  /\ \A e \in Lookup : \A s \in expected[e] : s \in Connected /\ owner[s] = who[e]
  /\ \A e \in Lookup : \A s \in expected[e] :
       looking[e] = "keys" => s \in redis \/ Before(outbox, Set(s), Keys(e))
  /\ \A e \in Lookup : looking[e] = "mget" => expected[e] \subseteq keys[e] \cap redis
  /\ ExpectedAreHinted

LEMMA LookStep ==
  ASSUME TypeOK, QueueInv, LifeInv, LookInv, [Next]_vars
  PROVE  LookInv'
<1> USE DEF LookInv, ExpectedAreHinted, Connected
<1>1. \A e \in Lookup : expected[e] \in SUBSET Socket
  BY DEF TypeOK
<1>2. ASSUME NEW s \in Socket, Connect(s) PROVE LookInv'
  <2>1. \A a, b : Before(outbox, a, b) => Before(outbox', a, b)
    <3>1. CASE owner[s] = NoUser
      BY <1>2, <3>1 DEF Connect
    <3>2. CASE owner[s] # NoUser
      <4>1. outbox' = Append(outbox, Set(s)) /\ Set(s) \in Command
        BY <1>2, <3>2, Commands DEF Connect
      <4>2. Set(s) \notin Elements(outbox)
        BY <1>2 DEF Connect, LifeInv, QueueInv
      <4> QED
        BY <4>1, <4>2, OnAppend DEF QueueInv
    <3> QED
      BY <3>1, <3>2
  <2>2. /\ socket' = [socket EXCEPT ![s] = "connected"]
        /\ UNCHANGED <<owner, redis, expected, looking, who, keys, hinted>>
    BY <1>2 DEF Connect, lookups
  <2> QED
    BY <1>1, <2>1, <2>2 DEF TypeOK
<1>3. ASSUME NEW s \in Socket, JoinCourse(s) PROVE LookInv'
  BY <1>3 DEF JoinCourse, lookups
<1>4. ASSUME NEW s \in Socket, Disconnect(s) PROVE LookInv'
  <2>1. \A a, b : Before(outbox, a, b) => Before(outbox', a, b)
    <3>1. outbox' = Append(outbox, Del(s)) /\ Del(s) \in Command
      BY <1>4, Commands DEF Disconnect
    <3>2. Del(s) \notin Elements(outbox)
      BY <1>4 DEF Disconnect, LifeInv, QueueInv
    <3> QED
      BY <3>1, <3>2, OnAppend DEF QueueInv
  <2>2. /\ socket' = [socket EXCEPT ![s] = "closed"]
        /\ expected' = [e \in Lookup |-> expected[e] \ {s}]
        /\ UNCHANGED <<owner, redis, looking, who, keys, hinted>>
    BY <1>4 DEF Disconnect, lookups
  <2> QED
    BY <1>1, <2>1, <2>2 DEF TypeOK
<1>5. ASSUME NEW e \in Lookup, EmitToUser(e) PROVE LookInv'
  <2>1. outbox' = Append(outbox, Keys(e)) /\ Keys(e) \in Command /\ Keys(e) \notin Elements(outbox)
    BY <1>5, Commands DEF EmitToUser, QueueInv
  <2>2. /\ \A a, b : Before(outbox, a, b) => Before(outbox', a, b)
        /\ \A a \in Elements(outbox) : Before(outbox', a, Keys(e))
    BY <2>1, OnAppend DEF QueueInv
  <2>3. /\ looking' = [looking EXCEPT ![e] = "keys"]
        /\ expected' = [expected EXCEPT
             ![e] = {s \in Connected : owner[s] = who[e] /\ s \notin memory \cup expired}]
        /\ UNCHANGED <<owner, socket, redis, who, keys, hinted>>
    BY <1>5 DEF EmitToUser, sockets
  <2>4. ASSUME NEW s \in Connected, owner[s] = who[e], s \notin memory \cup expired
        PROVE  s \in redis \/ Before(outbox', Set(s), Keys(e))
    <3>1. registering[s] \in {"set", "course", "done"}
      BY <2>4 DEF LifeInv, TypeOK
    <3>2. CASE registering[s] = "set"
      BY <2>2, <3>2 DEF QueueInv
    <3>3. CASE registering[s] \in {"course", "done"}
      BY <2>4, <3>3 DEF LifeInv, RegistrationKept
    <3> QED
      BY <3>1, <3>2, <3>3
  <2> QED
    BY <1>1, <2>2, <2>3, <2>4 DEF TypeOK
<1>6. CASE Reply
  <2>1. /\ outbox # <<>> /\ redis' = Executed({Head(outbox)})
        /\ UNCHANGED <<owner, expected>>
    BY <1>6 DEF Reply
  <2>2. /\ Head(outbox) \in Elements(outbox)
        /\ Tail(outbox) \in Seq(Command) /\ Distinct(Tail(outbox))
        /\ Elements(Tail(outbox)) = Elements(outbox) \ {Head(outbox)}
        /\ \A a, b : Before(outbox, a, b) /\ a # Head(outbox) => Before(Tail(outbox), a, b)
        /\ \A a : ~Before(outbox, a, Head(outbox))
    BY <2>1, OnTail DEF QueueInv
  <2>3. ASSUME NEW s \in Connected
        PROVE  /\ s \in redis => s \in redis'
               /\ Head(outbox) = Set(s) => s \in redis'
    BY <2>1, <2>2 DEF Executed, QueueInv, LifeInv
  <2>4. ASSUME NEW s \in Socket, ReplySet(s) \/ ReplyDel(s) PROVE LookInv'
    <3>1. outbox' = Tail(outbox) /\ UNCHANGED <<socket, looking, who, keys, hinted>>
      BY <2>4 DEF ReplySet, ReplyDel, lookups
    <3>2. ASSUME NEW e \in Lookup, NEW t \in expected[e], looking[e] = "keys"
          PROVE  t \in redis' \/ Before(outbox', Set(t), Keys(e))
      BY <2>2, <2>3, <3>1, <3>2
    <3>3. ASSUME NEW e \in Lookup, looking[e] = "mget"
          PROVE  expected[e] \subseteq keys[e] \cap redis'
      BY <2>3, <3>3
    <3> QED
      BY <2>1, <3>1, <3>2, <3>3
  <2>5. ASSUME NEW d \in Lookup, ReplyKeys(d) PROVE LookInv'
    <3>1. /\ Head(outbox) = Keys(d)
          /\ outbox' = Append(Tail(outbox), MGet(d))
          /\ keys' = [keys EXCEPT ![d] = redis]
          /\ looking' = [looking EXCEPT ![d] = "mget"]
          /\ UNCHANGED <<socket, who, hinted>>
      BY <2>5 DEF ReplyKeys, sockets
    <3>2. MGet(d) \in Command /\ MGet(d) \notin Elements(Tail(outbox)) /\ looking[d] = "keys"
      BY <2>2, <3>1, Commands DEF QueueInv
    <3>3. \A a, b : Before(Tail(outbox), a, b) => Before(outbox', a, b)
      BY <2>2, <3>1, <3>2, OnAppend
    <3>4. ASSUME NEW e \in Lookup, NEW t \in expected[e], e # d, looking[e] = "keys"
          PROVE  t \in redis' \/ Before(outbox', Set(t), Keys(e))
      BY <2>2, <2>3, <3>3, <3>4
    <3>5. expected[d] \subseteq redis
      BY <2>2, <3>1, <3>2
    <3>6. ASSUME NEW e \in Lookup, looking'[e] = "mget"
          PROVE  expected[e] \subseteq keys'[e] \cap redis'
      BY <2>3, <3>1, <3>5, <3>6 DEF TypeOK
    <3>7. \A e \in Lookup : /\ looking'[e] = "keys" => e # d /\ looking[e] = "keys"
                            /\ looking'[e] \in {"no", "redis"} => looking[e] = looking'[e]
      BY <3>1 DEF TypeOK
    <3>8. \A e \in Lookup : looking'[e] = "keys" =>
            \A t \in expected[e] : t \in redis' \/ Before(outbox', Set(t), Keys(e))
      BY <3>4, <3>7
    <3>9. \A e \in Lookup : looking'[e] = "redis" => expected[e] \subseteq hinted[e]
      BY <3>7
    <3>10. ExpectedAreHinted'
      BY <2>1, <3>1, <3>9
    <3>11. \A e \in Lookup : looking'[e] = "mget" => expected'[e] \subseteq keys'[e] \cap redis'
      BY <2>1, <3>6
    <3>12. \A e \in Lookup : looking'[e] = "no" => expected'[e] = {}
      BY <2>1, <3>7
    <3>13. \A e \in Lookup : \A t \in expected'[e] : t \in Connected' /\ owner'[t] = who'[e]
      BY <2>1, <3>1
    <3>14. \A e \in Lookup : \A t \in expected'[e] :
             looking'[e] = "keys" => t \in redis' \/ Before(outbox', Set(t), Keys(e))
      BY <2>1, <3>8
    <3> HIDE DEF ExpectedAreHinted, Connected
    <3> QED
      BY <3>10, <3>11, <3>12, <3>13, <3>14
  <2>6. ASSUME NEW d \in Lookup, ReplyMGet(d) PROVE LookInv'
    <3>1. /\ Head(outbox) = MGet(d) /\ outbox' = Tail(outbox)
          /\ UNCHANGED <<socket, who, keys>>
      BY <2>6 DEF ReplyMGet, sockets
    <3>2. looking[d] = "mget"
      BY <2>2, <3>1 DEF QueueInv
    <3>3. /\ \A e \in Lookup : e # d => looking'[e] = looking[e] /\ hinted'[e] = hinted[e]
          /\ \/ looking'[d] = "memory"
             \/ /\ looking'[d] = "redis"
                /\ hinted'[d] = Matching(d, keys[d] \cap redis) \cap Connected
      <4>1. CASE keys[d] = {}
        BY <2>6, <4>1 DEF ReplyMGet, Answer, TypeOK
      <4>2. CASE keys[d] # {}
        <5>1. Answer(d, keys[d] \cap redis, "redis")
          BY <2>6, <4>2 DEF ReplyMGet
        <5>2. /\ DOMAIN looking = Lookup /\ DOMAIN hinted = Lookup
          BY DEF TypeOK
        <5> QED
          BY ONLY <5>1, <5>2, d \in Lookup DEF Answer
      <4> QED
        BY <4>1, <4>2
    <3>4. expected[d] \subseteq Matching(d, keys[d] \cap redis) \cap Connected
      BY <3>2 DEF Matching
    <3>5. ASSUME NEW e \in Lookup, NEW t \in expected[e], looking[e] = "keys"
          PROVE  t \in redis' \/ Before(outbox', Set(t), Keys(e))
      BY <2>2, <2>3, <3>1, <3>5
    <3>6. ASSUME NEW e \in Lookup, looking[e] = "mget"
          PROVE  expected[e] \subseteq keys[e] \cap redis'
      BY <2>3, <3>6
    <3>7. /\ \A e \in Lookup : looking'[e] \in {"no", "keys", "mget"} => looking[e] = looking'[e]
          /\ \A e \in Lookup : looking'[e] = "redis" => expected[e] \subseteq hinted'[e]
      BY <3>3, <3>4
    <3> QED
      BY <2>1, <3>1, <3>5, <3>6, <3>7
  <2> QED
    BY <1>6, <2>4, <2>5, <2>6 DEF Reply
<1>7. CASE LoseLink
  <2>1. Issued = Elements(outbox)
    BY IssuedIs DEF QueueInv
  <2>2. \A e \in Lookup : Rejected(e) <=> looking[e] \in {"keys", "mget"}
    BY <2>1 DEF Rejected, QueueInv
  <2>3. /\ looking' = [e \in Lookup |-> IF Rejected(e) THEN "memory" ELSE looking[e]]
        /\ \A e \in Lookup : ~Rejected(e) => hinted'[e] = hinted[e]
        /\ \A e \in Lookup : expected'[e] \subseteq expected[e]
        /\ UNCHANGED <<owner, socket, who>>
    BY <1>7 DEF LoseLink
  <2> QED
    BY <1>1, <2>2, <2>3
<1>8. CASE Crash
  <2>1. expected' = [e \in Lookup |-> {}]
    BY <1>8 DEF Crash
  <2> QED
    BY <2>1
<1>9. ASSUME NEW s \in Socket, Expire(s) PROVE LookInv'
  BY <1>1, <1>9 DEF Expire, sockets, lookups
<1>10. CASE Reconnect \/ UNCHANGED vars
  BY <1>10 DEF Reconnect, vars, sockets, lookups
<1> QED
  BY <1>2, <1>3, <1>4, <1>5, <1>6, <1>7, <1>8, <1>9, <1>10 DEF Next

LEMMA LookInvariant == Spec => []LookInv
<1>1. Init => LookInv
  BY DEF Init, LookInv, ExpectedAreHinted
<1>2. TypeOK /\ QueueInv /\ LifeInv /\ LookInv /\ [Next]_vars => LookInv'
  BY LookStep
<1> QED
  BY <1>1, <1>2, LifeInvariant, PresenceTypeCorrect, PTL DEF Spec

\* A look-up that Redis answers reaches every socket of its user that was on
\* its way into Redis when the event arrived and is still there.
THEOREM ExpectedCorrect == Spec => []ExpectedAreHinted
<1>1. LookInv => ExpectedAreHinted
  BY DEF LookInv
<1> QED
  BY <1>1, LookInvariant, PTL

-----------------------------------------------------------------------------
(* The queue.                                                              *)

\* Whatever is waited for is under way: nobody waits for a command that was
\* rejected, or that was never issued.
THEOREM NobodyWaitsCorrect == Spec => []NobodyWaitsInVain
<1>1. QueueInv => NobodyWaitsInVain
  BY IssuedIs DEF QueueInv, NobodyWaitsInVain
<1> QED
  BY <1>1, LifeInvariant, PTL

\* A command that joins the queue leaves the others at their places.
LEMMA PlacesOnAppend ==
  ASSUME NEW q \in Seq(Command), NEW x \in Command, NEW i \in 1 .. Len(q)
  PROVE  /\ i \in 1 .. Len(Append(q, x)) /\ Append(q, x)[i] = q[i]
         /\ Head(Append(q, x)) = Head(q)
OBVIOUS

\* When the oldest command has left, the others are one place further.
LEMMA PlacesOnTail ==
  ASSUME NEW q \in Seq(Command), q # <<>>, Distinct(q),
         NEW i \in 1 .. Len(q), q[i] # Head(q)
  PROVE  /\ i - 1 \in 1 .. Len(Tail(q)) /\ Tail(q)[i - 1] = q[i]
         /\ Head(Tail(q)) # Head(q)
<1> DEFINE r == Tail(q)
<1>1. /\ Len(q) \in Nat \ {0} /\ Head(q) = q[1]
      /\ r \in Seq(Command) /\ Len(r) = Len(q) - 1
      /\ \A k \in 1 .. Len(r) : r[k] = q[k + 1]
  OBVIOUS
<1> HIDE DEF r
<1>2. i # 1 /\ i - 1 \in 1 .. Len(r) /\ 1 \in 1 .. Len(r)
  BY <1>1
<1>3. r[i - 1] = q[i]
  BY <1>1, <1>2
<1>4. Head(r) = q[2]
  <2>1. r # <<>> /\ Head(r) = r[1]
    BY <1>1, <1>2
  <2>2. r[1] = q[1 + 1] /\ 1 + 1 = 2
    BY <1>1, <1>2
  <2> QED
    BY <2>1, <2>2
<1>5. q[2] # q[1]
  <2>1. 1 \in 1 .. Len(q) /\ 2 \in 1 .. Len(q)
    BY <1>1, <1>2
  <2> QED
    BY <2>1 DEF Distinct
<1> QED
  BY <1>1, <1>2, <1>3, <1>4, <1>5 DEF r

\* The look-up e keeps its place, or moves up with the queue.
InLine(e) ==
  /\ looking'[e] = looking[e]
  /\ \E i \in 1 .. Len(outbox), j \in 1 .. Len(outbox') :
       /\ outbox[i] = Asked(e) /\ outbox'[j] = Asked(e)
       /\ j = IF Head(outbox') = Head(outbox) THEN i ELSE i - 1

LEMMA LookupStep ==
  ASSUME TypeOK, QueueInv, [Next]_vars,
         NEW e \in Lookup, looking[e] \in {"keys", "mget"}
  PROVE  \/ looking'[e] \in {"redis", "memory", "lost"}
         \/ looking[e] = "keys" /\ looking'[e] = "mget"
         \/ InLine(e)
<1>1. outbox \in Seq(Command) /\ Distinct(outbox) /\ Asked(e) \in Elements(outbox)
  BY DEF QueueInv, Asked
<1>2. PICK i \in 1 .. Len(outbox) : outbox[i] = Asked(e)
  BY <1>1 DEF Elements
<1>3. ASSUME looking'[e] = looking[e], outbox' = outbox PROVE InLine(e)
  BY <1>2, <1>3 DEF InLine
<1>4. ASSUME NEW x \in Command, looking'[e] = looking[e], outbox' = Append(outbox, x)
      PROVE  InLine(e)
  <2>1. /\ i \in 1 .. Len(outbox') /\ outbox'[i] = Asked(e)
        /\ Head(outbox') = Head(outbox)
    BY <1>1, <1>2, <1>4, PlacesOnAppend
  <2> QED
    BY <1>2, <1>4, <2>1 DEF InLine
<1>5. ASSUME outbox # <<>>, looking'[e] = looking[e], Head(outbox) # Asked(e),
             \/ outbox' = Tail(outbox)
             \/ \E x \in Command : outbox' = Append(Tail(outbox), x)
      PROVE  InLine(e)
  <2>1. /\ i - 1 \in 1 .. Len(Tail(outbox)) /\ Tail(outbox)[i - 1] = Asked(e)
        /\ Head(Tail(outbox)) # Head(outbox)
    BY <1>1, <1>2, <1>5, PlacesOnTail
  <2>2. Tail(outbox) \in Seq(Command)
    BY <1>1, <1>5
  <2>3. /\ i - 1 \in 1 .. Len(outbox') /\ outbox'[i - 1] = Asked(e)
        /\ Head(outbox') # Head(outbox)
    <3>1. CASE outbox' = Tail(outbox)
      BY <2>1, <3>1
    <3>2. ASSUME NEW x \in Command, outbox' = Append(Tail(outbox), x)
          PROVE  /\ i - 1 \in 1 .. Len(outbox') /\ outbox'[i - 1] = Asked(e)
                 /\ Head(outbox') # Head(outbox)
      BY <2>1, <2>2, <3>2, PlacesOnAppend
    <3> QED
      BY <1>5, <3>1, <3>2
  <2> QED
    BY <1>2, <1>5, <2>3 DEF InLine
<1>6. ASSUME NEW s \in Socket, Connect(s) \/ JoinCourse(s) \/ Disconnect(s) \/ Expire(s)
      PROVE  InLine(e)
  <2>1. looking' = looking /\ outbox' \in {outbox, Append(outbox, Set(s)), Append(outbox, Del(s))}
    BY <1>6 DEF Connect, JoinCourse, Disconnect, Expire, lookups
  <2> QED
    BY <1>3, <1>4, <2>1, Commands
<1>7. ASSUME NEW d \in Lookup, EmitToUser(d) PROVE InLine(e)
  <2>1. looking'[e] = looking[e] /\ outbox' = Append(outbox, Keys(d))
    BY <1>7 DEF EmitToUser, TypeOK
  <2> QED
    BY <1>4, <2>1, Commands
<1>8. CASE Reply
  <2>1. outbox # <<>>
    BY <1>8 DEF Reply
  <2>2. ASSUME NEW s \in Socket, ReplySet(s) \/ ReplyDel(s) PROVE InLine(e)
    <3>1. looking' = looking /\ outbox' = Tail(outbox) /\ Head(outbox) \in {Set(s), Del(s)}
      BY <2>2 DEF ReplySet, ReplyDel, lookups
    <3> QED
      BY <1>5, <2>1, <3>1, Commands DEF Asked
  <2>3. ASSUME NEW d \in Lookup, d # e, ReplyKeys(d) \/ ReplyMGet(d) PROVE InLine(e)
    <3>1. looking'[e] = looking[e] /\ Head(outbox) \in {Keys(d), MGet(d)}
      BY <2>3 DEF ReplyKeys, ReplyMGet, Answer, TypeOK
    <3>2. outbox' = Tail(outbox) \/ outbox' = Append(Tail(outbox), MGet(d))
      BY <2>3 DEF ReplyKeys, ReplyMGet
    <3>3. Head(outbox) # Asked(e)
      BY <2>3, <3>1, Commands DEF Asked
    <3> QED
      BY <1>5, <2>1, <3>1, <3>2, <3>3, Commands
  <2>4. CASE ReplyKeys(e)
    <3>1. Head(outbox) = Keys(e) /\ looking'[e] = "mget"
      BY <2>4 DEF ReplyKeys, TypeOK
    <3>2. Keys(e) \in Elements(outbox)
      BY <1>1, <2>1, <3>1, OnTail
    <3> QED
      BY <3>1, <3>2 DEF QueueInv
  <2>5. CASE ReplyMGet(e)
    BY <2>5 DEF ReplyMGet, Answer, TypeOK
  <2> QED
    BY <1>8, <2>2, <2>3, <2>4, <2>5 DEF Reply
<1>9. CASE LoseLink
  <2>1. Rejected(e)
    BY <1>1, IssuedIs DEF Rejected, QueueInv
  <2> QED
    BY <1>9, <2>1 DEF LoseLink
<1>10. CASE Crash
  BY <1>10 DEF Crash
<1>11. CASE Reconnect \/ UNCHANGED vars
  BY <1>3, <1>11 DEF Reconnect, vars, lookups
<1> QED
  BY <1>6, <1>7, <1>8, <1>9, <1>10, <1>11 DEF Next

\* Nothing overtakes a look-up in the queue of the client: it ends, or its
\* command keeps its place and moves up with every reply.
THEOREM LookupsCorrect == Spec => LookupsAdvance
<1> DEFINE Advances == \A e \in Lookup : looking[e] \in {"keys", "mget"} =>
             \/ looking'[e] \in {"redis", "memory", "lost"}
             \/ looking[e] = "keys" /\ looking'[e] = "mget"
             \/ InLine(e)
<1>1. TypeOK /\ QueueInv /\ [Next]_vars => Advances
  BY LookupStep
<1> HIDE DEF Advances
<1>2. Spec => [][Advances]_vars
  BY <1>1, LifeInvariant, PresenceTypeCorrect, PTL DEF Spec
<1> QED
  BY <1>2 DEF LookupsAdvance, Advances, InLine
=============================================================================
