--------------------------- MODULE DirectoryProofs ----------------------------
(***************************************************************************)
(* MemoryService and its Redis client, as Presence has them, implement     *)
(* Directory, for every number of users, sockets, look-ups and losses.     *)
(* That a look-up finds what is due to it is the invariant of the look-ups *)
(* in PresenceProofs; what is left is that no step does anything else.     *)
(***************************************************************************)
EXTENDS PresenceProofs

\* What is known before and after a step.
Kept == TypeOK /\ QueueInv /\ LookInv

LEMMA KeptInvariant == Spec => []Kept
BY PresenceTypeCorrect, LifeInvariant, LookInvariant, PTL DEF Kept

LEMMA DirectoryInit == Init => Promise!Init
BY DEF Init, Promise!Init, Connected, Stage

\* The commands of a look-up are one stage.
LEMMA StageIs ==
  ASSUME TypeOK, NEW e \in Lookup
  PROVE  /\ Stage[e] = "no" <=> looking[e] = "no"
         /\ Stage[e] = "open" <=> looking[e] \in {"keys", "mget"}
BY DEF TypeOK, Stage

LEMMA StageType ==
  ASSUME TypeOK, TypeOK'
  PROVE  /\ Stage \in [Lookup -> {"no", "open", "found", "partial", "lost"}]
         /\ Stage' \in [Lookup -> {"no", "open", "found", "partial", "lost"}]
BY DEF TypeOK, Stage

\* A step in which a look-up goes at most from its KEYS to its MGET.
LEMMA StageStays ==
  ASSUME TypeOK, TypeOK',
         \A e \in Lookup : \/ looking'[e] = looking[e]
                           \/ looking[e] = "keys" /\ looking'[e] = "mget"
  PROVE  Stage' = Stage
<1>1. \A e \in Lookup : Stage'[e] = Stage[e]
  BY DEF TypeOK, Stage
<1> QED
  BY <1>1 DEF Stage

\* A step in which the look-ups calls end, or begin, as goes says.
LEMMA StageMoves ==
  ASSUME TypeOK, TypeOK', NEW calls \in SUBSET Lookup, NEW goes, NEW stage,
         \/ goes = "keys" /\ stage = "open"
         \/ goes = "redis" /\ stage = "found"
         \/ goes = "memory" /\ stage = "partial"
         \/ goes = "lost" /\ stage = "lost",
         \A e \in Lookup : looking'[e] = IF e \in calls THEN goes ELSE looking[e]
  PROVE  Stage' = [e \in Lookup |-> IF e \in calls THEN stage ELSE Stage[e]]
<1>1. \A e \in Lookup : Stage'[e] = IF e \in calls THEN stage ELSE Stage[e]
  <2> SUFFICES ASSUME NEW e \in Lookup
               PROVE  Stage'[e] = IF e \in calls THEN stage ELSE Stage[e]
    OBVIOUS
  <2>1. CASE e \notin calls
    BY <2>1 DEF TypeOK, Stage
  <2>2. CASE e \in calls
    BY <2>2 DEF TypeOK, Stage
  <2> QED
    BY <2>1, <2>2
<1> QED
  BY <1>1, StageType

\* One look-up that moves.
LEMMA StageOfOne ==
  ASSUME TypeOK, TypeOK', NEW e \in Lookup, NEW goes, NEW stage,
         \/ goes = "keys" /\ stage = "open"
         \/ goes = "redis" /\ stage = "found",
         looking' = [looking EXCEPT ![e] = goes]
  PROVE  Stage' = [Stage EXCEPT ![e] = stage]
<1> DEFINE calls == {e}
<1>1. calls \in SUBSET Lookup /\ \A d \in Lookup : d \in calls <=> d = e
  OBVIOUS
<1> HIDE DEF calls
<1>4. \A d \in Lookup : looking'[d] = IF d \in calls THEN goes ELSE looking[d]
  BY <1>1 DEF TypeOK
<1>2. Stage' = [d \in Lookup |-> IF d \in calls THEN stage ELSE Stage[d]]
  BY <1>1, <1>4, StageMoves
<1>3. /\ Stage \in [Lookup -> {"no", "open", "found", "partial", "lost"}]
      /\ Stage' \in [Lookup -> {"no", "open", "found", "partial", "lost"}]
  BY StageType
<1> QED
  BY <1>1, <1>2, <1>3

-----------------------------------------------------------------------------
\* Connections, disconnections and expired keys.
LEMMA SocketComesOrGoes ==
  ASSUME Kept, NEW s \in Socket, Connect(s) \/ Disconnect(s) \/ Expire(s)
  PROVE  Promise!Come(s) \/ Promise!Go(s)
<1>1. TypeOK /\ UNCHANGED <<owner, looking, who, hinted>>
  BY DEF Kept, Connect, Disconnect, Expire, lookups
<1>2. Stage' = Stage
  BY <1>1 DEF Stage
<1>3. CASE Connect(s)
  <2>1. Connected' = Connected \cup {s} /\ expected' = expected
    BY <1>1, <1>3 DEF Connect, Connected, TypeOK
  <2> QED
    BY <1>1, <1>2, <2>1 DEF Promise!Come
<1>4. CASE Disconnect(s)
  <2>1. Connected' = Connected \ {s}
    BY <1>1, <1>4 DEF Disconnect, Connected, TypeOK
  <2> QED
    BY <1>1, <1>2, <1>4, <2>1 DEF Disconnect, Promise!Go
<1>5. CASE Expire(s)
  <2>1. Connected' = Connected
    BY <1>5 DEF Expire, sockets, Connected
  <2> QED
    BY <1>1, <1>2, <1>5, <2>1 DEF Expire, Promise!Go
<1> QED
  BY <1>3, <1>4, <1>5

\* emitNotificationToUser asks for the sockets of its user.
LEMMA EmitAsks ==
  ASSUME Kept, Kept', NEW e \in Lookup, EmitToUser(e)
  PROVE  Promise!Ask(e)
<1>1. TypeOK /\ TypeOK'
  BY DEF Kept
<1>2. /\ looking[e] = "no" /\ looking' = [looking EXCEPT ![e] = "keys"]
      /\ UNCHANGED <<owner, who, hinted, Connected>>
  BY DEF EmitToUser, sockets, Connected
<1>3. Stage[e] = "no" /\ Stage' = [Stage EXCEPT ![e] = "open"]
  BY <1>1, <1>2, StageIs, StageOfOne
<1> DEFINE some == {s \in Connected : owner[s] = who[e] /\ s \notin memory \cup expired}
<1>4. some \in SUBSET Promise!Reachable(e) /\ expected' = [expected EXCEPT ![e] = some]
  BY DEF EmitToUser, Promise!Reachable
<1> HIDE DEF some
<1> QED
  BY <1>2, <1>3, <1>4 DEF Promise!Ask

\* The look-ups calls are answered from the local map.
LEMMA MapAnswers ==
  ASSUME Kept, Kept', NEW calls \in SUBSET Lookup,
         \A e \in calls : looking[e] \in {"keys", "mget"},
         \A e \in Lookup : looking'[e] = IF e \in calls THEN "memory" ELSE looking[e],
         \A e \in calls : \E ids : hinted'[e] = Matching(e, ids) \cap Connected,
         \A e \in Lookup \ calls : hinted'[e] = hinted[e],
         \A e \in Lookup : expected'[e] \subseteq expected[e],
         UNCHANGED <<owner, who, socket>>
  PROVE  Promise!FallBack(calls)
<1>1. TypeOK /\ TypeOK' /\ Connected' = Connected
  BY DEF Kept, Connected
<1>2. \A e \in calls : Stage[e] = "open"
  BY <1>1, StageIs
<1>3. Stage' = [e \in Lookup |-> IF e \in calls THEN "partial" ELSE Stage[e]]
  BY <1>1, StageMoves
<1>4. \A e \in calls : hinted'[e] \subseteq Promise!Reachable(e)
  BY DEF Matching, Promise!Reachable
<1> QED
  BY <1>1, <1>2, <1>3, <1>4 DEF Promise!FallBack

\* The MGET of a look-up is answered: with the values of its keys, or, without a
\* key, from the local map.
LEMMA ValuesFind ==
  ASSUME Kept, Kept', NEW e \in Lookup, ReplyMGet(e), Reply
  PROVE  Promise!Find(e) \/ Promise!FallBack({e})
<1>1. TypeOK /\ TypeOK'
  BY DEF Kept
<1>2. looking[e] = "mget"
  <2>1. Head(outbox) = MGet(e) /\ outbox # <<>>
    BY DEF Reply, ReplyMGet
  <2>2. MGet(e) \in Elements(outbox)
    BY <2>1, OnTail DEF Kept, QueueInv
  <2> QED
    BY <2>2 DEF Kept, QueueInv
<1>3. UNCHANGED <<owner, who, socket, expected>>
  BY DEF Reply, ReplyMGet, sockets
<1>4. CASE keys[e] = {}
  <2>1. /\ looking' = [looking EXCEPT ![e] = "memory"]
        /\ hinted' = [hinted EXCEPT ![e] = Matching(e, memory) \cap Connected]
    BY <1>4 DEF ReplyMGet, Answer
  <2>2. /\ \A d \in Lookup : looking'[d] = IF d \in {e} THEN "memory" ELSE looking[d]
        /\ \A d \in Lookup \ {e} : hinted'[d] = hinted[d]
        /\ hinted'[e] = Matching(e, memory) \cap Connected
    BY <1>1, <2>1 DEF TypeOK
  <2> QED
    BY <1>2, <1>3, <2>2, MapAnswers
<1>5. CASE keys[e] # {}
  <2> DEFINE found == Matching(e, keys[e] \cap redis) \cap Connected
  <2>1. /\ looking' = [looking EXCEPT ![e] = "redis"]
        /\ hinted' = [hinted EXCEPT ![e] = found]
    BY <1>5 DEF ReplyMGet, Answer
  <2>2. expected[e] \subseteq found /\ found \in SUBSET Promise!Reachable(e)
    BY <1>2 DEF Kept, LookInv, Matching, Promise!Reachable
  <2> HIDE DEF found
  <2>3. Stage[e] = "open" /\ Stage' = [Stage EXCEPT ![e] = "found"]
    BY <1>1, <1>2, <2>1, StageIs, StageOfOne
  <2>4. Connected' = Connected
    BY <1>3 DEF Connected
  <2> QED
    BY <1>3, <2>1, <2>2, <2>3, <2>4 DEF Promise!Find
<1> QED
  BY <1>4, <1>5

\* When the connection is lost, every look-up under way makes do with the map.
LEMMA LossFallsBack ==
  ASSUME Kept, Kept', LoseLink
  PROVE  \E calls \in SUBSET Lookup : Promise!FallBack(calls)
<1> DEFINE calls == {e \in Lookup : Rejected(e)}
<1>1. \A e \in calls : looking[e] \in {"keys", "mget"}
  BY IssuedIs DEF Kept, QueueInv, Rejected
<1>2. /\ \A e \in Lookup : looking'[e] = IF e \in calls THEN "memory" ELSE looking[e]
      /\ \A e \in Lookup \ calls : hinted'[e] = hinted[e]
      /\ \A e \in Lookup : expected'[e] \subseteq expected[e]
      /\ UNCHANGED <<owner, who, socket>>
  BY DEF LoseLink
<1>3. ASSUME NEW e \in calls PROVE \E ids : hinted'[e] = Matching(e, ids) \cap Connected
  BY DEF LoseLink
<1> HIDE DEF calls
<1>4. calls \in SUBSET Lookup
  BY DEF calls
<1>5. Promise!FallBack(calls)
  BY <1>1, <1>2, <1>3, <1>4, MapAnswers
<1> QED
  BY <1>4, <1>5

LEMMA CrashStops ==
  ASSUME Kept, Kept', Crash
  PROVE  Promise!Stop
<1>1. TypeOK /\ TypeOK'
  BY DEF Kept
<1>2. Connected' = {} /\ UNCHANGED <<owner, who, hinted>>
  BY DEF Crash, Connected
<1> DEFINE calls == {e \in Lookup : looking[e] \in {"keys", "mget"}}
<1>3. \A e \in Lookup : looking'[e] = IF e \in calls THEN "lost" ELSE looking[e]
  BY DEF Crash
<1>4. calls \in SUBSET Lookup /\ \A e \in Lookup : e \in calls <=> Stage[e] = "open"
  BY <1>1, StageIs
<1> HIDE DEF calls
<1>5. Stage' = [e \in Lookup |-> IF e \in calls THEN "lost" ELSE Stage[e]]
  BY <1>1, <1>3, <1>4, StageMoves
<1>6. Stage' = [e \in Lookup |-> IF Stage[e] = "open" THEN "lost" ELSE Stage[e]]
  BY <1>4, <1>5
<1> QED
  BY <1>2, <1>6 DEF Crash, Promise!Stop

\* Commands on their way, and a connection that is back, are no concern of the
\* directory.
LEMMA OthersStutter ==
  ASSUME Kept, Kept',
         \/ \E s \in Socket : JoinCourse(s) \/ ReplySet(s) \/ ReplyDel(s)
         \/ outbox # <<>> /\ \E e \in Lookup : ReplyKeys(e)
         \/ Reconnect
         \/ UNCHANGED vars,
         owner' = owner /\ expected' = expected
  PROVE  UNCHANGED Promise!vars
<1>1. TypeOK /\ TypeOK'
  BY DEF Kept
<1>2. UNCHANGED <<socket, who, hinted>>
  BY DEF JoinCourse, ReplySet, ReplyDel, ReplyKeys, Reconnect, vars, sockets, lookups
<1>3. Stage' = Stage
  <2>1. ASSUME outbox # <<>>, NEW e \in Lookup, ReplyKeys(e),
               NEW d \in Lookup, looking'[d] # looking[d]
        PROVE  looking[d] = "keys" /\ looking'[d] = "mget"
    <3>1. Head(outbox) = Keys(e) /\ looking' = [looking EXCEPT ![e] = "mget"]
      BY <2>1 DEF ReplyKeys
    <3>2. Keys(e) \in Elements(outbox)
      BY <2>1, <3>1, OnTail DEF Kept, QueueInv
    <3>3. looking[e] = "keys"
      BY <3>2 DEF Kept, QueueInv
    <3>4. DOMAIN looking = Lookup
      BY <1>1 DEF TypeOK
    <3>5. d = e
      BY <2>1, <3>1, <3>4
    <3> QED
      BY <3>1, <3>3, <3>4, <3>5
  <2>2. CASE outbox # <<>> /\ \E e \in Lookup : ReplyKeys(e)
    <3>1. \A d \in Lookup : \/ looking'[d] = looking[d]
                            \/ looking[d] = "keys" /\ looking'[d] = "mget"
      BY <2>1, <2>2
    <3> QED
      BY <1>1, <3>1, StageStays
  <2>3. CASE ~(outbox # <<>> /\ \E e \in Lookup : ReplyKeys(e))
    <3>1. looking' = looking
      BY <2>3 DEF JoinCourse, ReplySet, ReplyDel, Reconnect, vars, lookups
    <3> QED
      BY <3>1 DEF Stage
  <2> QED
    BY <2>2, <2>3
<1> QED
  BY <1>2, <1>3 DEF Promise!vars, Connected

LEMMA DirectoryStep == Kept /\ Kept' /\ [Next]_vars => [Promise!Next]_(Promise!vars)
<1> SUFFICES ASSUME Kept, Kept', [Next]_vars PROVE [Promise!Next]_(Promise!vars)
  OBVIOUS
<1>1. CASE \E s \in Socket : Connect(s) \/ Disconnect(s) \/ Expire(s)
  BY <1>1, SocketComesOrGoes DEF Promise!Next
<1>2. CASE \E e \in Lookup : EmitToUser(e)
  BY <1>2, EmitAsks DEF Promise!Next
<1>3. CASE Reply
  <2>1. CASE \E e \in Lookup : ReplyMGet(e)
    BY <1>3, <2>1, ValuesFind DEF Promise!Next
  <2>2. UNCHANGED <<owner, expected>>
    BY <1>3 DEF Reply
  <2>3. CASE ~\E e \in Lookup : ReplyMGet(e)
    BY <1>3, <2>2, <2>3, OthersStutter DEF Reply
  <2> QED
    BY <2>1, <2>3
<1>4. CASE LoseLink
  BY <1>4, LossFallsBack DEF Promise!Next
<1>5. CASE Crash
  BY <1>5, CrashStops DEF Promise!Next
<1>6. CASE (\E s \in Socket : JoinCourse(s)) \/ Reconnect \/ UNCHANGED vars
  <2>1. UNCHANGED <<owner, expected>>
    BY <1>6 DEF JoinCourse, Reconnect, vars
  <2> QED
    BY <1>6, <2>1, OthersStutter
<1> QED
  BY <1>1, <1>2, <1>3, <1>4, <1>5, <1>6 DEF Next

\* Whatever happens to the connection, the keys and the process, looking up the
\* sockets of a student does what Directory says: it ends once, reaches sockets of
\* that student only, connected at that moment, and none that is due is missing
\* from an answer of Redis.
THEOREM DirectoryImplemented == Spec => ImplementsDirectory
<1>1. Spec => Init /\ [][Next]_vars
  BY DEF Spec
<1> QED
  BY <1>1, DirectoryInit, DirectoryStep, KeptInvariant, PTL
  DEF ImplementsDirectory, Promise!Spec
=============================================================================
