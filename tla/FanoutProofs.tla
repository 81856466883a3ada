---------------------------- MODULE FanoutProofs ----------------------------
(***************************************************************************)
(* What Fanout promises, for every set of users and events, every page     *)
(* size and every interleaving.  The argument follows the offset: Behind   *)
(* and Exposed are the users that the moving collection has carried past   *)
(* it, to the left unseen or to the right already seen.                    *)
(***************************************************************************)
EXTENDS Fanout, FiniteSetTheorems, TLAPS

-----------------------------------------------------------------------------
(* Ranks.  RankIn is Rank with the places as a parameter, so that the      *)
(* lemmas apply to the places before and after a step.                     *)

RankIn(p, u, docs) == Cardinality({v \in docs : p[v] < p[u]})

\* The places p order the documents docs: they are distinct.
Ordered(p, docs) == \A u, v \in docs : p[u] = p[v] => u = v

\* Subsets of User are finite, and their cardinalities are monotonic.
LEMMA UserSubsets ==
  ASSUME NEW S \in SUBSET User
  PROVE  /\ IsFiniteSet(S)
         /\ Cardinality(S) \in Nat
         /\ \A T \in SUBSET S : /\ Cardinality(T) \in Nat
                                /\ Cardinality(T) <= Cardinality(S)
                                /\ Cardinality(T) = Cardinality(S) => T = S
<1>1. IsFiniteSet(S)
  BY UserAssumption, FS_Subset
<1>2. ASSUME NEW T \in SUBSET S
      PROVE  /\ Cardinality(T) \in Nat
             /\ Cardinality(T) <= Cardinality(S)
             /\ Cardinality(T) = Cardinality(S) => T = S
  BY <1>1, FS_Subset, FS_CardinalityType
<1> QED
  BY <1>1, <1>2, FS_CardinalityType

\* A rank is a number, and below the number of documents.
LEMMA RankType ==
  ASSUME NEW p \in [User -> Nat], NEW docs \in SUBSET User, NEW u \in User
  PROVE  /\ RankIn(p, u, docs) \in Nat
         /\ u \in docs => RankIn(p, u, docs) < Cardinality(docs)
<1> DEFINE B == {v \in docs : p[v] < p[u]}
<1>1. B \in SUBSET docs /\ u \notin B
  BY SMT
<1>2. /\ Cardinality(B) \in Nat
      /\ Cardinality(docs) \in Nat
      /\ Cardinality(B) <= Cardinality(docs)
      /\ Cardinality(B) = Cardinality(docs) => B = docs
  BY <1>1, UserSubsets
<1> QED
  BY <1>1, <1>2 DEF RankIn

\* More documents, higher ranks.
LEMMA RankMonotonic ==
  ASSUME NEW p \in [User -> Nat], NEW docs \in SUBSET User,
         NEW more0 \in SUBSET docs, NEW u \in User
  PROVE  RankIn(p, u, more0) <= RankIn(p, u, docs)
<1> DEFINE S == {v \in docs : p[v] < p[u]}
           T == {v \in more0 : p[v] < p[u]}
<1>1. S \in SUBSET User /\ T \in SUBSET S
  OBVIOUS
<1>2. Cardinality(T) <= Cardinality(S)
  BY <1>1, UserSubsets
<1> QED
  BY <1>2 DEF RankIn

\* A later document has a higher rank.
LEMMA RankOrder ==
  ASSUME NEW p \in [User -> Nat], NEW docs \in SUBSET User,
         NEW u \in docs, NEW w \in docs, p[u] < p[w]
  PROVE  RankIn(p, u, docs) < RankIn(p, w, docs)
<1> DEFINE S == {v \in docs : p[v] < p[u]}
           T == {v \in docs : p[v] < p[w]}
<1>1. T \in SUBSET User /\ S \in SUBSET T /\ u \in T /\ u \notin S
  BY SMT
<1>2. /\ Cardinality(S) \in Nat /\ Cardinality(T) \in Nat
      /\ Cardinality(S) <= Cardinality(T)
      /\ Cardinality(S) = Cardinality(T) => S = T
  BY <1>1, UserSubsets
<1>3. Cardinality(S) < Cardinality(T)
  BY <1>1, <1>2
<1> QED
  BY <1>3 DEF RankIn

\* Two documents never share a rank.
LEMMA RankInjective ==
  ASSUME NEW p \in [User -> Nat], NEW docs \in SUBSET User, Ordered(p, docs),
         NEW u \in docs, NEW w \in docs,
         RankIn(p, u, docs) = RankIn(p, w, docs)
  PROVE  u = w
<1>1. p[u] \in Nat /\ p[w] \in Nat
  OBVIOUS
<1>2. RankIn(p, u, docs) \in Nat /\ RankIn(p, w, docs) \in Nat
  BY RankType
<1>3. ~(p[u] < p[w]) /\ ~(p[w] < p[u])
  BY <1>2, RankOrder
<1> QED
  BY <1>1, <1>3 DEF Ordered

\* One document less lowers a rank by one if it came before, else not at all.
LEMMA RankRemove ==
  ASSUME NEW p \in [User -> Nat], NEW docs \in SUBSET User,
         NEW v \in docs, NEW u \in User
  PROVE  RankIn(p, u, docs) =
           RankIn(p, u, docs \ {v}) + (IF p[v] < p[u] THEN 1 ELSE 0)
<1> DEFINE S == {w \in docs : p[w] < p[u]}
           T == {w \in docs \ {v} : p[w] < p[u]}
<1>1. IsFiniteSet(S) /\ Cardinality(S) \in Nat
  <2>1. S \in SUBSET User
    OBVIOUS
  <2> QED
    BY <2>1, UserSubsets
<1>2. T = S \ {v} /\ (v \in S <=> p[v] < p[u])
  OBVIOUS
<1> HIDE DEF S, T
<1>3. Cardinality(T) = IF p[v] < p[u] THEN Cardinality(S) - 1 ELSE Cardinality(S)
  BY <1>1, <1>2, FS_RemoveElement
<1>4. Cardinality(S) = Cardinality(T) + (IF p[v] < p[u] THEN 1 ELSE 0)
  BY <1>1, <1>3
<1> QED
  BY <1>4 DEF RankIn, S, T

\* Documents added after all the others change no rank.
LEMMA RankAppend ==
  ASSUME NEW p \in [User -> Nat], NEW q \in [User -> Nat],
         NEW docs \in SUBSET User, NEW docs2 \in SUBSET User,
         docs \subseteq docs2,
         \A w \in docs : q[w] = p[w],
         \A v \in docs2 \ docs : \A w \in docs : q[w] <= q[v],
         NEW u \in docs
  PROVE  RankIn(q, u, docs2) = RankIn(p, u, docs)
<1>1. {w \in docs2 : q[w] < q[u]} = {w \in docs : p[w] < p[u]}
  <2>1. ASSUME NEW w \in docs2
        PROVE  q[w] < q[u] <=> w \in docs /\ p[w] < p[u]
    OBVIOUS
  <2> QED
    BY <2>1
<1> QED
  BY <1>1 DEF RankIn

-----------------------------------------------------------------------------
(* Type correctness.                                                       *)

\* The types are inductive by themselves.
LEMMA TypeStep == TypeOK /\ [Next]_vars => TypeOK'
<1> SUFFICES ASSUME TypeOK, [Next]_vars
             PROVE  TypeOK'
  OBVIOUS
<1> USE DEF TypeOK, Awaiting
<1>1. ASSUME NEW e \in Event, NEW t \in {"global", "student"}, Receive(e, t)
      PROVE  TypeOK'
  <2>1. Matching(t) \ optOut \in SUBSET User
    BY DEF Matching
  <2> QED
    BY <1>1, <2>1 DEF Receive, db
<1>2. ASSUME NEW e \in Event, ReadUsers(e) \/ ReadStudents(e)
      PROVE  TypeOK'
  <2>1. GetUsers(skip[e]) \in SUBSET User /\ GetStudents(skip[e]) \in SUBSET User
    BY DEF GetUsers, GetStudents, PageOf, Matching
  <2> QED
    BY <1>2, <2>1 DEF ReadUsers, ReadStudents, ReadPage, db, past
<1>3. ASSUME NEW e \in Event, CountUsers(e)
      PROVE  TypeOK'
  <2>1. HasMore(skip[e]) \in BOOLEAN
    BY DEF HasMore
  <2> QED
    BY <1>3, <2>1 DEF CountUsers, db, past
<1>4. ASSUME NEW e \in Event, InsertNotification(e)
      PROVE  TypeOK'
  BY <1>4 DEF InsertNotification, db, past
<1>5. ASSUME NEW e \in Event, InsertRecords(e)
      PROVE  TypeOK'
  <2>1. page[e] \X {notifs[e]} \in SUBSET (User \X Nat)
    OBVIOUS
  <2>2. skip' \in [Event -> Nat] /\ pc' \in [Event -> {"idle", "done", "failed"} \cup Awaiting]
    BY <1>5, LimitAssumption DEF InsertRecords
  <2>3. sent' \in [Event -> SUBSET (User \X Nat)]
    BY <1>5, <2>1 DEF InsertRecords
  <2> QED
    BY <1>5, <2>2, <2>3 DEF InsertRecords, db, past
<1>6. ASSUME NEW e \in Event, Fail(e)
      PROVE  TypeOK'
  <2>1. \A S \in SUBSET page[e] : S \X {notifs[e]} \in SUBSET (User \X Nat)
    OBVIOUS
  <2>2. \A cut \in Nat : {u \in page[e] : pos[u] <= cut} \in SUBSET page[e]
    OBVIOUS
  <2>3. sent' \in [Event -> SUBSET (User \X Nat)]
    BY <1>6, <2>1, <2>2 DEF Fail
  <2>4. notifs' \in [Event -> Nat]
    BY <1>6 DEF Fail
  <2> QED
    BY <1>6, <2>3, <2>4 DEF Fail, db, past
<1>7. ASSUME NEW u \in User, Register(u)
      PROVE  TypeOK'
  BY <1>7 DEF Register, call, past
<1>8. ASSUME NEW u \in User, Deactivate(u)
      PROVE  TypeOK'
  BY <1>8, BoundAssumption DEF Deactivate, call
<1>9. ASSUME NEW u \in User, Reactivate(u)
      PROVE  TypeOK'
  BY <1>9, BoundAssumption DEF Reactivate, call
<1>10. ASSUME NEW u \in User, ChangeGlobals(u)
       PROVE  TypeOK'
  BY <1>10, BoundAssumption DEF ChangeGlobals, call
<1>11. CASE UNCHANGED vars
  BY <1>11 DEF vars
<1> QED
  BY <1>1, <1>2, <1>3, <1>4, <1>5, <1>6, <1>7, <1>8, <1>9, <1>10, <1>11
  DEF Next, Loop, Others

\* Every reachable state of the fan-out is well typed.
THEOREM TypeCorrect == Spec => []TypeOK
<1>1. Init => TypeOK
  BY BoundAssumption DEF Init, TypeOK, Awaiting
<1> QED
  BY <1>1, TypeStep, PTL DEF Spec

-----------------------------------------------------------------------------
(* The documents of the User collection.                                   *)

\* Places are distinct and none is beyond the last one; a user without a
\* document is not active.
Places ==
  /\ \A u \in User : pos[u] <= lastPos
  /\ Ordered(pos, Registered)
  /\ active \subseteq Registered

LEMMA PlacesStep == TypeOK /\ Places /\ [Next]_vars => Places'
<1> SUFFICES ASSUME TypeOK, Places, [Next]_vars
             PROVE  Places'
  OBVIOUS
<1> USE DEF TypeOK, Places, Ordered, Registered
<1>1. ASSUME NEW u \in User, Register(u)
      PROVE  Places'
  <2>1. \A v \in User : pos'[v] = IF v = u THEN lastPos + 1 ELSE pos[v]
    BY <1>1 DEF Register
  <2> QED
    BY <1>1, <2>1 DEF Register
<1>2. ASSUME NEW u \in User, Deactivate(u) \/ Reactivate(u) \/ ChangeGlobals(u)
      PROVE  Places'
  BY <1>2 DEF Deactivate, Reactivate, ChangeGlobals
<1>3. CASE UNCHANGED db
  BY <1>3 DEF db
<1>4. CASE UNCHANGED vars
  BY <1>4 DEF vars
<1> QED
  BY <1>1, <1>2, <1>3, <1>4
  DEF Next, Loop, Others, Receive, ReadUsers, ReadStudents, ReadPage,
      CountUsers, InsertNotification, InsertRecords, Fail

-----------------------------------------------------------------------------
(* The bookkeeping of one call.                                            *)

\* Before it starts, a call has written nothing; outside the turn that read
\* it, the page is empty.
Ledger(e) ==
  /\ pc[e] = "idle" => sent[e] = {} /\ skip[e] = 0
  /\ pc[e] \notin {"count", "notification", "insert"} => page[e] = {}
  /\ IsFiniteSet(sent[e])

\* The users the call has reached or is about to reach.
Seen(e) == Recipients(e) \cup page[e]

\* How the history variables bound the users of the database.
Witnessed(e) ==
  /\ Seen(e) \subseteq Registered
  /\ audience[e] = "student" => Seen(e) \subseteq Student
  /\ Running(e) => /\ steady[e] \subseteq Matching(audience[e]) \ optOut
                   /\ silent[e] \subseteq optOut
  /\ silent[e] \cap Seen(e) = {}

Base(e) == Ledger(e) /\ Witnessed(e)

\* Storing records for the users S adds them to the recipients.
LEMMA RecipientsGrow ==
  ASSUME NEW T, NEW S, NEW n
  PROVE  {r[1] : r \in T \cup (S \X {n})} = {r[1] : r \in T} \cup S
<1>1. ASSUME NEW u \in S
      PROVE  \E r \in S \X {n} : r[1] = u
  <2>1. <<u, n>> \in S \X {n} /\ <<u, n>>[1] = u
    OBVIOUS
  <2> QED
    BY <2>1
<1>2. \A r \in S \X {n} : r[1] \in S
  OBVIOUS
<1> QED
  BY <1>1, <1>2

\* A page has only matching documents that have opted in.
LEMMA PageMatches ==
  ASSUME TypeOK, NEW e \in Event, ReadUsers(e) \/ ReadStudents(e)
  PROVE  /\ pc[e] = "read"
         /\ page' = [page EXCEPT ![e] =
                       PageOf(Matching(audience[e]), skip[e]) \ optOut]
         /\ pc' = [pc EXCEPT ![e] = "count"]
         /\ UNCHANGED <<audience, skip, more, notifs, sent, db, past>>
BY DEF ReadUsers, ReadStudents, ReadPage, GetUsers, GetStudents, TypeOK

\* A step that leaves call e and the database alone.
CallSame(e) ==
  /\ pc'[e] = pc[e]
  /\ audience'[e] = audience[e]
  /\ skip'[e] = skip[e]
  /\ page'[e] = page[e]
  /\ more'[e] = more[e]
  /\ notifs'[e] = notifs[e]
  /\ sent'[e] = sent[e]
PastSame(e) ==
  /\ steady'[e] = steady[e]
  /\ silent'[e] = silent[e]
  /\ drops'[e] = drops[e]
  /\ returns'[e] = returns[e]
Idles(e) == CallSame(e) /\ PastSame(e) /\ UNCHANGED db

\* A step of one call is an idle step of every other.
LEMMA OtherCall ==
  ASSUME TypeOK, NEW e \in Event, NEW d \in Event, d # e,
         (\E t \in {"global", "student"} : Receive(d, t)) \/ Loop(d) \/ Fail(d)
  PROVE  Idles(e)
<1> USE DEF TypeOK, Idles, CallSame, PastSame
<1>1. ASSUME NEW t \in {"global", "student"}, Receive(d, t)
      PROVE  Idles(e)
  BY <1>1 DEF Receive, db
<1>2. CASE ReadUsers(d) \/ ReadStudents(d)
  BY <1>2 DEF ReadUsers, ReadStudents, ReadPage, db, past
<1>3. CASE CountUsers(d) \/ InsertNotification(d)
  BY <1>3 DEF CountUsers, InsertNotification, db, past
<1>4. CASE InsertRecords(d)
  BY <1>4 DEF InsertRecords, db, past
<1>5. CASE Fail(d)
  BY <1>5 DEF Fail, db, past
<1> QED
  BY <1>1, <1>2, <1>3, <1>4, <1>5 DEF Loop

\* A step of the rest of the system changes no call.
LEMMA OtherService ==
  ASSUME NEW u \in User,
         Register(u) \/ Deactivate(u) \/ Reactivate(u) \/ ChangeGlobals(u)
  PROVE  UNCHANGED call
BY DEF Register, Deactivate, Reactivate, ChangeGlobals

LEMMA LedgerStep ==
  ASSUME TypeOK, Places, [Next]_vars, NEW e \in Event, Ledger(e)
  PROVE  Ledger(e)'
<1> USE DEF TypeOK, Ledger
<1>1. ASSUME NEW t \in {"global", "student"}, Receive(e, t)
      PROVE  Ledger(e)'
  BY <1>1 DEF Receive
<1>2. CASE ReadUsers(e) \/ ReadStudents(e)
  BY <1>2 DEF ReadUsers, ReadStudents, ReadPage, past
<1>3. CASE CountUsers(e)
  BY <1>3 DEF CountUsers, past
<1>4. CASE InsertNotification(e)
  BY <1>4 DEF InsertNotification, past
<1>5. ASSUME NEW S \in SUBSET page[e],
             sent' = [sent EXCEPT ![e] = @ \cup (S \X {notifs[e]})],
             notifs' = notifs, page' = [page EXCEPT ![e] = {}],
             pc'[e] \in {"read", "done", "failed"}
      PROVE  Ledger(e)'
  <2>1. IsFiniteSet(S \X {notifs[e]})
    BY UserSubsets, FS_Singleton, FS_Product
  <2>2. IsFiniteSet(sent[e] \cup (S \X {notifs[e]}))
    BY <2>1, FS_Union
  <2> QED
    BY <1>5, <2>2
<1>6. CASE InsertRecords(e)
  BY <1>5, <1>6 DEF InsertRecords
<1>7. CASE Fail(e)
  <2>1. CASE pc[e] = "insert"
    <3>1. PICK cut \in 0 .. lastPos :
            sent' = [sent EXCEPT ![e] = @ \cup ({u \in page[e] : pos[u] <= cut}
                                                  \X {notifs[e]})]
      BY <1>7, <2>1 DEF Fail
    <3>2. {u \in page[e] : pos[u] <= cut} \in SUBSET page[e]
      OBVIOUS
    <3> QED
      BY <1>5, <1>7, <3>1, <3>2 DEF Fail
  <2>2. CASE pc[e] # "insert"
    BY <1>7, <2>2 DEF Fail
  <2> QED
    BY <2>1, <2>2
<1>8. CASE Idles(e)
  BY <1>8 DEF Idles, CallSame, PastSame
<1>9. ASSUME NEW u \in User,
             Register(u) \/ Deactivate(u) \/ Reactivate(u) \/ ChangeGlobals(u)
      PROVE  Ledger(e)'
  BY <1>9, OtherService DEF call
<1>10. CASE UNCHANGED vars
  BY <1>10 DEF vars
<1> QED
  BY <1>1, <1>2, <1>3, <1>4, <1>6, <1>7, <1>8, <1>9, <1>10, OtherCall
  DEF Next, Loop, Others

\* A step of the loop never goes back before an opt-out or outside the audience.
LEMMA WitnessedStep ==
  ASSUME TypeOK, Places, [Next]_vars, NEW e \in Event, Base(e)
  PROVE  Witnessed(e)'
<1> USE DEF TypeOK, Places, Base, Running, Awaiting
<1>1. ASSUME NEW t \in {"global", "student"}, Receive(e, t)
      PROVE  Witnessed(e)'
  <2>1. Seen(e)' = {}
    BY <1>1 DEF Receive, Seen, Recipients, Ledger
  <2>2. /\ audience'[e] = t /\ steady'[e] = Matching(t) \ optOut
        /\ silent'[e] = optOut /\ active' = active /\ optOut' = optOut
    BY <1>1 DEF Receive, db
  <2> QED
    BY <2>1, <2>2 DEF Witnessed, Matching
<1>2. CASE ReadUsers(e) \/ ReadStudents(e)
  <2>1. /\ pc[e] = "read" /\ UNCHANGED <<audience, db, past>>
        /\ Seen(e)' \subseteq Seen(e) \cup (Matching(audience[e]) \ optOut)
    BY <1>2, PageMatches DEF Seen, Recipients, PageOf
  <2>2. Matching(audience[e]) \subseteq Registered
    BY DEF Matching
  <2>3. audience[e] = "student" => Matching(audience[e]) \subseteq Student
    BY DEF Matching
  <2> QED
    BY <2>1, <2>2, <2>3 DEF Witnessed, Matching, Registered, db, past
<1>3. CASE CountUsers(e) \/ InsertNotification(e)
  BY <1>3 DEF CountUsers, InsertNotification, Witnessed, Seen, Recipients,
              Matching, Registered, db, past
<1>4. ASSUME NEW S \in SUBSET page[e], pc[e] \in Awaiting,
             sent' = [sent EXCEPT ![e] = @ \cup (S \X {notifs[e]})],
             page' = [page EXCEPT ![e] = {}], UNCHANGED <<audience, db, past>>
      PROVE  Witnessed(e)'
  <2>1. Recipients(e)' = Recipients(e) \cup S
    BY <1>4, RecipientsGrow DEF Recipients
  <2>2. Seen(e)' \subseteq Seen(e)
    BY <1>4, <2>1 DEF Seen
  <2> QED
    BY <1>4, <2>2 DEF Witnessed, Matching, Registered, db, past
<1>5. CASE InsertRecords(e)
  BY <1>4, <1>5 DEF InsertRecords
<1>6. CASE Fail(e)
  <2>1. CASE pc[e] = "insert"
    <3>1. PICK cut \in 0 .. lastPos :
            sent' = [sent EXCEPT ![e] = @ \cup ({u \in page[e] : pos[u] <= cut}
                                                  \X {notifs[e]})]
      BY <1>6, <2>1 DEF Fail
    <3>2. {u \in page[e] : pos[u] <= cut} \in SUBSET page[e]
      OBVIOUS
    <3> QED
      BY <1>4, <1>6, <2>1, <3>1, <3>2 DEF Fail
  <2>2. CASE pc[e] # "insert"
    BY <1>6, <2>2 DEF Fail, Ledger, Witnessed, Seen, Recipients, Matching,
                      Registered, db, past
  <2> QED
    BY <2>1, <2>2
<1>7. CASE Idles(e)
  BY <1>7 DEF Idles, CallSame, PastSame, Witnessed, Seen, Recipients, Matching,
              Registered, db
<1>8. ASSUME NEW u \in User,
             Register(u) \/ Deactivate(u) \/ Reactivate(u) \/ ChangeGlobals(u)
      PROVE  Witnessed(e)'
  <2>1. Seen(e)' = Seen(e) /\ audience' = audience /\ pc' = pc
    BY <1>8, OtherService DEF call, Seen, Recipients
  <2>2. Registered \subseteq Registered'
    BY <1>8 DEF Register, Deactivate, Reactivate, ChangeGlobals, Registered
  <2>3. silent'[e] \subseteq silent[e]
    BY <1>8 DEF Register, Deactivate, Reactivate, ChangeGlobals, past
  <2>4. ASSUME Running(e)
        PROVE  /\ steady'[e] \subseteq Matching(audience[e])' \ optOut'
               /\ silent'[e] \subseteq optOut'
    BY <1>8, <2>1, <2>4
    DEF Register, Deactivate, Reactivate, ChangeGlobals, past, Matching,
        Witnessed
  <2> QED
    BY <2>1, <2>2, <2>3, <2>4 DEF Witnessed
<1>9. CASE UNCHANGED vars
  BY <1>9 DEF vars, Witnessed, Seen, Recipients, Matching, Registered
<1> QED
  BY <1>1, <1>2, <1>3, <1>5, <1>6, <1>7, <1>8, <1>9, OtherCall
  DEF Next, Loop, Others

-----------------------------------------------------------------------------
(* Who is reached.                                                         *)

\* The invariant of a call that the two theorems on the audience rest on.
CallInv == TypeOK /\ Places /\ \A e \in Event : Base(e)

LEMMA CallInvInit == Init => CallInv
<1> SUFFICES ASSUME Init PROVE CallInv
  OBVIOUS
<1>1. TypeOK
  BY BoundAssumption DEF Init, TypeOK, Awaiting
<1>2. Places
  BY DEF Init, Places, Ordered, Registered
<1>3. ASSUME NEW e \in Event PROVE Base(e)
  BY FS_EmptySet DEF Init, Base, Ledger, Witnessed, Seen, Recipients, Running,
                     Awaiting
<1> QED
  BY <1>1, <1>2, <1>3 DEF CallInv

LEMMA CallInvStep == CallInv /\ [Next]_vars => CallInv'
<1> SUFFICES ASSUME CallInv, [Next]_vars PROVE CallInv'
  OBVIOUS
<1>1. TypeOK' /\ Places'
  BY TypeStep, PlacesStep DEF CallInv
<1>2. ASSUME NEW e \in Event PROVE Base(e)'
  BY LedgerStep, WitnessedStep DEF CallInv, Base
<1> QED
  BY <1>1, <1>2 DEF CallInv

LEMMA CallInvariant == Spec => []CallInv
BY CallInvInit, CallInvStep, PTL DEF Spec

\* Who opts out before an event and stays out gets no record of it, whatever
\* page it is on and whatever the other services do meanwhile.
THEOREM OptedOutCorrect == Spec => []OptedOutGetNothing
<1>1. CallInv => OptedOutGetNothing
  BY DEF CallInv, Base, Witnessed, Seen, OptedOutGetNothing
<1> QED
  BY <1>1, CallInvariant, PTL

\* No change of the collection brings a student event to anybody else.
THEOREM StudentsOnlyCorrect == Spec => []StudentsOnly
<1>1. CallInv => StudentsOnly
  BY DEF CallInv, Base, Witnessed, Seen, StudentsOnly
<1> QED
  BY <1>1, CallInvariant, PTL

-----------------------------------------------------------------------------
(* Whom the offset leaves behind.                                          *)

\* The offset up to which the call has read.
Bound(e) == IF pc[e] = "read" THEN skip[e] ELSE skip[e] + LIMIT

\* The last page has been read: hasMore was false.
LastPage(e) == pc[e] \in {"notification", "insert"} /\ ~more[e]

\* The steady users that the offset has passed without reading them.
Behind(e) ==
  {u \in steady[e] \ Seen(e) :
     LastPage(e) \/ Rank(u, Matching(audience[e])) < Bound(e)}

\* Every one of them cost a document that left status 1.
Missing(e) ==
  /\ Running(e) => Cardinality(Behind(e)) <= drops[e]
  /\ pc[e] = "done" => Cardinality(steady[e] \ Recipients(e)) <= drops[e]

-----------------------------------------------------------------------------
(* Whom the offset meets again.                                            *)

\* The users reached already that stand after the offset again.
Exposed(e) ==
  {u \in Matching(audience[e]) \cap Seen(e) :
     Bound(e) <= Rank(u, Matching(audience[e]))}

\* Records beyond one per user, and users about to cause one, each cost a
\* document that came back to status 1.
Repeating(e) ==
  /\ Running(e) => Cardinality(sent[e]) + Cardinality(page[e])
                     + Cardinality(Exposed(e)) <= Cardinality(Seen(e)) + returns[e]
  /\ Cardinality(sent[e]) <= Cardinality(Recipients(e)) + returns[e]

-----------------------------------------------------------------------------
(* The two bounds are inductive.                                           *)

\* Sets of users of which one holds all but one element of the other.
LEMMA OneMore ==
  ASSUME NEW S \in SUBSET User, NEW T \in SUBSET User,
         \A a, b \in T \ S : a = b
  PROVE  Cardinality(T) <= Cardinality(S) + 1
<1>1. IsFiniteSet(S) /\ Cardinality(S) \in Nat /\ Cardinality(T) \in Nat
  BY UserSubsets
<1>2. CASE T \subseteq S
  BY <1>1, <1>2, UserSubsets
<1>3. CASE ~(T \subseteq S)
  <2>1. PICK a \in T : a \notin S
    BY <1>3
  <2>2. T \in SUBSET (S \cup {a}) /\ S \cup {a} \in SUBSET User
    BY <2>1
  <2>3. Cardinality(S \cup {a}) = Cardinality(S) + 1
    BY <1>1, <2>1, FS_AddElement
  <2> QED
    BY <2>2, <2>3, UserSubsets
<1> QED
  BY <1>2, <1>3

LEMMA MissingStep ==
  ASSUME CallInv, CallInv', [Next]_vars, NEW e \in Event, Missing(e)
  PROVE  Missing(e)'
<1> DEFINE M == Matching(audience[e])
           R(u) == RankIn(pos, u, M)
<1> USE DEF CallInv, Running, Awaiting
<1>1. /\ M \in SUBSET User /\ M' \in SUBSET User
      /\ Behind(e) \in SUBSET User /\ Behind(e)' \in SUBSET User
      /\ Behind(e) = {u \in steady[e] \ Seen(e) : LastPage(e) \/ R(u) < Bound(e)}
      /\ Behind(e)' = {u \in steady'[e] \ Seen(e)' :
                          LastPage(e)' \/ RankIn(pos', u, M') < Bound(e)'}
  BY DEF TypeOK, Matching, Behind, Rank, RankIn
<1>2. /\ \A u \in User : R(u) \in Nat /\ RankIn(pos', u, M') \in Nat
      /\ \A u \in M : R(u) < Cardinality(M)
  BY <1>1, RankType DEF TypeOK
<1>3. drops[e] \in Nat /\ drops'[e] \in Nat /\ skip[e] \in Nat /\ LIMIT \in Nat \ {0}
  BY LimitAssumption DEF TypeOK
<1>4. Running(e) => steady[e] \subseteq M \ optOut
  BY DEF Base, Witnessed
<1> HIDE DEF M, R
<1>5. ASSUME Running(e), pc'[e] # "done",
             Behind(e)' \subseteq Behind(e), drops'[e] = drops[e]
      PROVE  Missing(e)'
  BY <1>1, <1>3, <1>5, UserSubsets DEF Missing
<1>6. ASSUME NEW t \in {"global", "student"}, Receive(e, t)
      PROVE  Missing(e)'
  <2>1. pc'[e] = "read" /\ skip'[e] = 0
    BY <1>6 DEF Receive, TypeOK, Base, Ledger
  <2>2. Behind(e)' = {}
    BY <1>1, <1>2, <2>1 DEF Bound, LastPage, TypeOK
  <2> QED
    BY <1>3, <2>1, <2>2, FS_EmptySet DEF Missing
<1>7. CASE ReadUsers(e) \/ ReadStudents(e)
  <2>1. /\ pc[e] = "read" /\ pc'[e] = "count" /\ M' = M /\ pos' = pos
        /\ steady' = steady /\ drops' = drops /\ skip' = skip
        /\ page'[e] = {u \in M : skip[e] <= R(u) /\ R(u) < skip[e] + LIMIT} \ optOut
        /\ Seen(e)' = Seen(e) \cup page'[e]
    <3>1. /\ pc[e] = "read" /\ UNCHANGED <<audience, skip, sent, db, past>>
          /\ page' = [page EXCEPT ![e] =
                        PageOf(Matching(audience[e]), skip[e]) \ optOut]
          /\ pc' = [pc EXCEPT ![e] = "count"]
      BY <1>7, PageMatches
    <3>2. page[e] = {} /\ page'[e] = PageOf(M, skip[e]) \ optOut
      BY <3>1 DEF TypeOK, Base, Ledger, M
    <3>3. Seen(e)' = Seen(e) \cup page'[e]
      BY <3>1, <3>2 DEF Seen, Recipients
    <3>4. M' = M
      BY <3>1 DEF M, Matching, db
    <3>5. PageOf(M, skip[e]) = {u \in M : skip[e] <= R(u) /\ R(u) < skip[e] + LIMIT}
      BY DEF PageOf, R, Rank, RankIn
    <3> QED
      BY <3>1, <3>2, <3>3, <3>4, <3>5 DEF TypeOK, db, past
  <2>3. Behind(e)' \subseteq Behind(e)
    <3>1. SUFFICES ASSUME NEW u \in Behind(e)' PROVE u \in Behind(e)
      OBVIOUS
    <3>2. /\ u \in steady[e] /\ u \notin Seen(e) /\ u \notin page'[e]
          /\ R(u) < skip[e] + LIMIT /\ u \in M \ optOut
      BY <1>1, <1>4, <2>1 DEF Bound, LastPage, R
    <3>3. R(u) < skip[e]
      BY <1>1, <1>2, <1>3, <2>1, <3>2
    <3> QED
      BY <1>1, <2>1, <3>2, <3>3 DEF Bound
  <2> QED
    BY <1>5, <2>1, <2>3
<1>8. CASE CountUsers(e)
  <2>1. /\ pc[e] = "count" /\ pc'[e] = "notification" /\ M' = M /\ pos' = pos
        /\ steady' = steady /\ drops' = drops /\ skip' = skip
        /\ Seen(e)' = Seen(e)
        /\ ~more'[e] => ~(skip[e] + LIMIT < Cardinality(active))
    BY <1>8 DEF CountUsers, TypeOK, Seen, Recipients, Matching, HasMore, db, past, M
  <2>2. M \in SUBSET active /\ active \in SUBSET User
    BY DEF M, Matching, TypeOK
  <2>3. Cardinality(M) <= Cardinality(active) /\ Cardinality(M) \in Nat
        /\ Cardinality(active) \in Nat
    BY <2>2, UserSubsets
  <2>4. Behind(e)' \subseteq Behind(e)
    <3>1. SUFFICES ASSUME NEW u \in Behind(e)' PROVE u \in Behind(e)
      OBVIOUS
    <3>2. u \in steady[e] \ Seen(e) /\ u \in M /\ u \in User
      BY <1>1, <1>4, <2>1
    <3>3. R(u) < skip[e] + LIMIT
      <4>1. CASE ~more'[e]
        BY <1>2, <1>3, <2>1, <2>3, <3>2, <4>1
      <4>2. CASE more'[e]
        BY <1>1, <2>1, <4>2 DEF LastPage, Bound, R
      <4> QED
        BY <4>1, <4>2
    <3> QED
      BY <1>1, <2>1, <3>2, <3>3 DEF Bound
  <2> QED
    BY <1>5, <2>1, <2>4
<1>9. CASE InsertNotification(e)
  <2>1. /\ pc[e] = "notification" /\ pc'[e] = "insert" /\ M' = M /\ pos' = pos
        /\ steady' = steady /\ drops' = drops /\ skip' = skip /\ more' = more
        /\ Seen(e)' = Seen(e)
    BY <1>9 DEF InsertNotification, TypeOK, Seen, Recipients, Matching, db, past, M
  <2>2. Behind(e)' \subseteq Behind(e)
    BY <1>1, <2>1 DEF Bound, LastPage, R
  <2> QED
    BY <1>5, <2>1, <2>2
<1>10. CASE InsertRecords(e)
  <2>1. /\ pc[e] = "insert" /\ M' = M /\ pos' = pos
        /\ steady' = steady /\ drops' = drops
        /\ Recipients(e)' = Seen(e) /\ Seen(e)' = Seen(e)
    <3>1. /\ pc[e] = "insert" /\ UNCHANGED <<audience, db, past>>
          /\ sent'[e] = sent[e] \cup (page[e] \X {notifs[e]})
          /\ page'[e] = {}
      BY <1>10 DEF InsertRecords, TypeOK
    <3>2. Recipients(e)' = Recipients(e) \cup page[e]
      <4>1. {r[1] : r \in sent[e] \cup (page[e] \X {notifs[e]})}
              = {r[1] : r \in sent[e]} \cup page[e]
        BY ONLY RecipientsGrow
      <4> QED
        BY ONLY <3>1, <4>1 DEF Recipients
    <3>3. Seen(e)' = Recipients(e)' \cup page'[e]
      BY DEF Seen
    <3>4. Seen(e) = Recipients(e) \cup page[e]
      BY DEF Seen
    <3>5. Recipients(e)' = Seen(e) /\ Seen(e)' = Seen(e)
      BY <3>1, <3>2, <3>3, <3>4
    <3>6. M' = M
      BY <3>1 DEF M, Matching, db
    <3> QED
      BY <3>1, <3>5, <3>6 DEF db, past
  <2>2. CASE more[e]
    <3>1. pc'[e] = "read" /\ skip'[e] = skip[e] + LIMIT
      BY <1>10, <2>2 DEF InsertRecords, TypeOK
    <3>2. Behind(e)' \subseteq Behind(e)
      BY <1>1, <2>1, <3>1 DEF Bound, LastPage, R
    <3> QED
      BY <1>5, <2>1, <3>1, <3>2
  <2>3. CASE ~more[e]
    <3>1. pc'[e] = "done"
      BY <1>10, <2>3 DEF InsertRecords, TypeOK
    <3>2. Behind(e) = steady[e] \ Seen(e)
      BY <1>1, <2>1, <2>3 DEF LastPage
    <3> QED
      BY <2>1, <3>1, <3>2 DEF Missing
  <2> QED
    BY <2>2, <2>3
<1>11. CASE Fail(e)
  <2>1. pc'[e] = "failed"
    BY <1>11 DEF Fail, TypeOK
  <2> QED
    BY <2>1 DEF Missing
<1>12. CASE Idles(e) \/ UNCHANGED vars
  <2>1. CallSame(e) /\ PastSame(e) /\ M' = M /\ pos' = pos
    BY <1>12 DEF Idles, vars, db, CallSame, PastSame, M, Matching
  <2>2. Behind(e)' = Behind(e) /\ Recipients(e)' = Recipients(e)
    BY <1>1, <2>1 DEF CallSame, PastSame, Seen, Recipients, LastPage, Bound, R
  <2> QED
    BY <2>1, <2>2 DEF CallSame, PastSame, Missing
<1>13. ASSUME NEW u \in User,
              Register(u) \/ Deactivate(u) \/ Reactivate(u) \/ ChangeGlobals(u)
       PROVE  Missing(e)'
  <2>1. /\ CallSame(e) /\ Seen(e)' = Seen(e) /\ Recipients(e)' = Recipients(e)
        /\ LastPage(e)' = LastPage(e) /\ Bound(e)' = Bound(e)
    BY <1>13, OtherService
    DEF call, CallSame, Seen, Recipients, LastPage, Bound
  <2>2. CASE ~Running(e)
    <3>1. PastSame(e)
      BY <1>13, <2>2 DEF TypeOK, PastSame, Register, Deactivate, Reactivate,
                         ChangeGlobals, past
    <3> QED
      BY <2>1, <2>2, <3>1 DEF CallSame, PastSame, Missing
  <2>3. CASE Running(e)
    <3>1. pc'[e] # "done"
      BY <2>1, <2>3 DEF CallSame
    <3>2. CASE Register(u)
      <4>1. /\ steady' = steady /\ drops' = drops /\ u \notin M
            /\ pos' = [pos EXCEPT ![u] = lastPos + 1] /\ lastPos + 1 \in Nat
            /\ M' \in {M, M \cup {u}}
            /\ \A w \in M : pos[w] < lastPos + 1
        <5>1. /\ pos[u] = 0 /\ lastPos \in Nat /\ UNCHANGED past
              /\ pos' = [pos EXCEPT ![u] = lastPos + 1]
              /\ active' = active \cup {u} /\ audience'[e] = audience[e]
          BY <2>1, <3>2 DEF Register, TypeOK, CallSame
        <5>2. u \notin M /\ M' \in {M, M \cup {u}}
          BY <5>1 DEF M, Matching, Places, Registered
        <5>3. \A w \in M : pos[w] \in Nat /\ pos[w] <= lastPos
          BY <1>1 DEF TypeOK, Places
        <5> QED
          BY <5>1, <5>2, <5>3 DEF past
      <4>2. \A w \in M : RankIn(pos', w, M') = R(w)
        <5>1. pos \in [User -> Nat] /\ pos' \in [User -> Nat]
          BY DEF TypeOK
        <5>2. /\ M \subseteq M' /\ M' \ M \subseteq {u}
              /\ \A w \in M : pos'[w] = pos[w] /\ pos'[w] <= pos'[u]
          BY <1>1, <4>1, <5>1
        <5> QED
          BY <1>1, <5>1, <5>2, RankAppend DEF R
      <4>3. Behind(e)' \subseteq Behind(e)
        BY <1>1, <1>4, <2>1, <2>3, <4>1, <4>2
      <4> QED
        BY <1>5, <2>3, <3>1, <4>1, <4>3
    <3>3. CASE Deactivate(u)
      <4>1. /\ steady'[e] = steady[e] \ {u} /\ drops'[e] = drops[e] + 1
            /\ pos' = pos /\ M' = M \ {u}
        BY <2>1, <2>3, <3>3 DEF Deactivate, TypeOK, M, Matching, CallSame
      <4>2. ASSUME u \in M, NEW w \in User
            PROVE  R(w) = RankIn(pos', w, M')
                            + (IF pos[u] < pos[w] THEN 1 ELSE 0)
        BY <1>1, <4>1, <4>2, RankRemove DEF TypeOK, R
      <4>3. ASSUME u \notin M PROVE M' = M
        BY <4>1, <4>3
      <4>4. ASSUME NEW w \in Behind(e)', w \notin Behind(e)
            PROVE  w \in M /\ R(w) = Bound(e)
        <5>1. /\ w \in steady[e] /\ w \notin Seen(e) /\ ~LastPage(e) /\ w \in M
              /\ RankIn(pos', w, M') < Bound(e) /\ ~(R(w) < Bound(e))
          BY <1>1, <1>4, <2>1, <2>3, <4>1, <4>4
        <5>2. Bound(e) \in Nat /\ R(w) \in Nat /\ RankIn(pos', w, M') \in Nat
          BY <1>1, <1>2, <1>3, <5>1 DEF Bound
        <5>3. R(w) <= RankIn(pos', w, M') + 1
          BY <1>1, <4>1, <4>2, <4>3, <5>1, <5>2 DEF R
        <5> QED
          BY <5>1, <5>2, <5>3
      <4>5. Ordered(pos, M)
        BY DEF M, Matching, Places, Ordered, Registered, TypeOK
      <4>6. \A a, b \in Behind(e)' \ Behind(e) : a = b
        BY <1>1, <4>4, <4>5, RankInjective DEF TypeOK, R
      <4>7. Cardinality(Behind(e)') <= Cardinality(Behind(e)) + 1
        BY <1>1, <4>6, OneMore
      <4>8. Cardinality(Behind(e)') \in Nat /\ Cardinality(Behind(e)) \in Nat
        BY <1>1, UserSubsets
      <4> QED
        BY <1>3, <2>3, <3>1, <4>1, <4>7, <4>8 DEF Missing
    <3>4. CASE Reactivate(u)
      <4>1. /\ steady' = steady /\ drops' = drops /\ pos' = pos
            /\ M \in SUBSET M'
        BY <2>1, <3>4 DEF Reactivate, M, Matching, CallSame
      <4>2. \A w \in User : R(w) <= RankIn(pos', w, M')
        BY <1>1, <4>1, RankMonotonic DEF TypeOK, R
      <4>3. Bound(e) \in Nat
        BY <1>3 DEF Bound
      <4>4. Behind(e)' \subseteq Behind(e)
        BY <1>1, <1>2, <2>1, <4>1, <4>2, <4>3
      <4> QED
        BY <1>5, <2>3, <3>1, <4>1, <4>4
    <3>5. CASE ChangeGlobals(u)
      <4>1. /\ steady'[e] \subseteq steady[e] /\ drops' = drops /\ pos' = pos
            /\ M' = M
        BY <2>1, <3>5 DEF ChangeGlobals, TypeOK, M, Matching, CallSame
      <4>2. Behind(e)' \subseteq Behind(e)
        BY <1>1, <2>1, <4>1 DEF R
      <4> QED
        BY <1>5, <2>3, <3>1, <4>1, <4>2
    <3> QED
      BY <1>13, <3>2, <3>3, <3>4, <3>5
  <2> QED
    BY <2>2, <2>3
<1> QED
  BY <1>6, <1>7, <1>8, <1>9, <1>10, <1>11, <1>12, <1>13, OtherCall
  DEF Next, Loop, Others

\* Storing records for the users S under one ordinal adds as many records.
LEMMA RecordsGrow ==
  ASSUME NEW T, IsFiniteSet(T), NEW S \in SUBSET User, NEW n
  PROVE  /\ Cardinality(T) \in Nat /\ Cardinality(S) \in Nat
         /\ Cardinality(T \cup (S \X {n})) \in Nat
         /\ Cardinality(T \cup (S \X {n})) <= Cardinality(T) + Cardinality(S)
<1>1. IsFiniteSet(S) /\ Cardinality(S) \in Nat /\ Cardinality(T) \in Nat
  BY UserSubsets, FS_CardinalityType
<1>2. IsFiniteSet({n}) /\ Cardinality({n}) = 1
  BY FS_Singleton
<1>3. IsFiniteSet(S \X {n}) /\ Cardinality(S \X {n}) = Cardinality(S)
  BY <1>1, <1>2, FS_Product
<1>4. /\ IsFiniteSet(T \cup (S \X {n}))
      /\ Cardinality(T \cup (S \X {n})) =
           Cardinality(T) + Cardinality(S \X {n}) - Cardinality(T \cap (S \X {n}))
  BY <1>3, FS_Union
<1>5. Cardinality(T \cap (S \X {n})) \in Nat
  BY <1>3, FS_Intersection, FS_CardinalityType
<1>6. Cardinality(T \cup (S \X {n})) \in Nat
  BY <1>4, FS_CardinalityType
<1> QED
  BY <1>1, <1>3, <1>4, <1>5, <1>6

\* Counting users in a union, and in a union of disjoint sets.
LEMMA UsersUnion ==
  ASSUME NEW S \in SUBSET User, NEW T \in SUBSET User
  PROVE  /\ Cardinality(S) \in Nat /\ Cardinality(T) \in Nat
         /\ Cardinality(S \cup T) \in Nat
         /\ Cardinality(S \cup T) <= Cardinality(S) + Cardinality(T)
         /\ S \cap T = {} =>
              Cardinality(S \cup T) = Cardinality(S) + Cardinality(T)
<1>1. /\ IsFiniteSet(S) /\ IsFiniteSet(T) /\ Cardinality(S \cap T) \in Nat
      /\ Cardinality(S) \in Nat /\ Cardinality(T) \in Nat
      /\ Cardinality(S \cup T) \in Nat
  <2>1. S \cap T \in SUBSET User /\ S \cup T \in SUBSET User
    OBVIOUS
  <2> QED
    BY <2>1, UserSubsets
<1>2. Cardinality(S \cup T) =
        Cardinality(S) + Cardinality(T) - Cardinality(S \cap T)
  BY <1>1, FS_Union
<1>3. S \cap T = {} => Cardinality(S \cap T) = 0
  BY FS_EmptySet
<1> QED
  BY <1>1, <1>2, <1>3

LEMMA RepeatingStep ==
  ASSUME CallInv, CallInv', [Next]_vars, NEW e \in Event, Repeating(e)
  PROVE  Repeating(e)'
<1> DEFINE M == Matching(audience[e])
           R(u) == RankIn(pos, u, M)
<1> USE DEF CallInv, Running, Awaiting
<1>1. /\ M \in SUBSET User /\ M' \in SUBSET User
      /\ Exposed(e) = {u \in M \cap Seen(e) : Bound(e) <= R(u)}
      /\ Exposed(e)' = {u \in M' \cap Seen(e)' : Bound(e)' <= RankIn(pos', u, M')}
  BY DEF TypeOK, Matching, Exposed, Rank, RankIn
<1>2. \A u \in User : R(u) \in Nat /\ RankIn(pos', u, M') \in Nat
  BY <1>1, RankType DEF TypeOK
<1>3. /\ skip[e] \in Nat /\ skip'[e] \in Nat /\ LIMIT \in Nat \ {0}
      /\ returns[e] \in Nat /\ returns'[e] \in Nat
      /\ Bound(e) \in Nat
  BY LimitAssumption DEF TypeOK, Bound
<1> HIDE DEF M, R
<1>4. /\ Recipients(e) \in SUBSET User /\ Seen(e) \in SUBSET User
      /\ page[e] \in SUBSET User /\ Exposed(e) \in SUBSET User
      /\ Seen(e) = Recipients(e) \cup page[e]
  <2>1. Seen(e) \in SUBSET User
    BY DEF Base, Witnessed, Registered
  <2> QED
    BY <1>1, <2>1 DEF Seen
<1>5. /\ Seen(e)' \in SUBSET User /\ Exposed(e)' \in SUBSET User
      /\ page'[e] \in SUBSET User
  BY <1>1 DEF Base, Witnessed, Registered, TypeOK
<1>6. /\ Cardinality(Recipients(e)) \in Nat /\ Cardinality(Seen(e)) \in Nat
      /\ Cardinality(page[e]) \in Nat /\ Cardinality(Exposed(e)) \in Nat
      /\ Cardinality(page'[e]) \in Nat /\ Cardinality(Exposed(e)') \in Nat
      /\ Cardinality(sent[e]) \in Nat
  BY <1>4, <1>5, UserSubsets, FS_CardinalityType DEF Base, Ledger
<1>7. ASSUME Running(e), Exposed(e)' \subseteq Exposed(e), sent'[e] = sent[e],
             page'[e] = page[e], returns'[e] = returns[e]
      PROVE  Repeating(e)'
  <2>1. Recipients(e)' = Recipients(e) /\ Seen(e)' = Seen(e)
    BY <1>7 DEF Recipients, Seen
  <2>2. Cardinality(Exposed(e)') <= Cardinality(Exposed(e))
    BY <1>4, <1>7, UserSubsets
  <2> QED
    BY <1>3, <1>6, <1>7, <2>1, <2>2 DEF Repeating
<1>8. ASSUME NEW t \in {"global", "student"}, Receive(e, t)
      PROVE  Repeating(e)'
  <2>1. /\ sent[e] = {} /\ sent'[e] = {} /\ page'[e] = {}
        /\ returns'[e] = returns[e]
    BY <1>8 DEF Receive, TypeOK, Base, Ledger
  <2>2. Seen(e)' = {} /\ Recipients(e)' = {} /\ Exposed(e)' = {}
    BY <2>1 DEF Seen, Recipients, Exposed
  <2> QED
    BY <1>3, <2>1, <2>2, FS_EmptySet DEF Repeating
<1>9. CASE ReadUsers(e) \/ ReadStudents(e)
  <2>1. /\ pc[e] = "read" /\ UNCHANGED <<audience, skip, sent, db, past>>
        /\ page' = [page EXCEPT ![e] =
                      PageOf(Matching(audience[e]), skip[e]) \ optOut]
        /\ pc' = [pc EXCEPT ![e] = "count"]
    BY <1>9, PageMatches
  <2>2. page[e] = {} /\ page'[e] = PageOf(M, skip[e]) \ optOut
    BY <2>1 DEF TypeOK, Base, Ledger, M
  <2>3. PageOf(M, skip[e]) = {u \in M : skip[e] <= R(u) /\ R(u) < skip[e] + LIMIT}
    BY DEF PageOf, R, Rank, RankIn
  <2>4. M' = M /\ pos' = pos
    BY <2>1 DEF M, Matching, db
  <2>5. /\ Seen(e) = Recipients(e) /\ Recipients(e)' = Recipients(e)
        /\ Seen(e)' = Recipients(e) \cup page'[e]
    BY <2>1, <2>2 DEF Seen, Recipients
  <2>6. Bound(e) = skip[e] /\ Bound(e)' = skip[e] + LIMIT
    BY <2>1 DEF Bound, TypeOK
  <2> DEFINE Again == page'[e] \cap Recipients(e)
             Fresh == page'[e] \ Recipients(e)
  <2>7. Exposed(e)' \subseteq Exposed(e)
    <3>1. SUFFICES ASSUME NEW u \in Exposed(e)' PROVE u \in Exposed(e)
      OBVIOUS
    <3>2. u \in M /\ u \in Seen(e)' /\ skip[e] + LIMIT <= R(u) /\ R(u) \in Nat
      BY <1>1, <1>2, <2>4, <2>6 DEF R
    <3>3. u \notin page'[e]
      BY <1>3, <2>2, <2>3, <3>2
    <3> QED
      BY <1>1, <1>3, <2>5, <2>6, <3>2, <3>3
  <2>8. Again \subseteq Exposed(e)
    BY <1>1, <1>4, <2>2, <2>3, <2>5, <2>6
  <2>9. Again \cap Exposed(e)' = {}
    <3>1. SUFFICES ASSUME NEW u \in Again, u \in Exposed(e)' PROVE FALSE
      OBVIOUS
    <3>2. R(u) < skip[e] + LIMIT /\ skip[e] + LIMIT <= R(u) /\ R(u) \in Nat
      BY <1>1, <1>2, <2>2, <2>3, <2>4, <2>6, <3>1 DEF R
    <3> QED
      BY <1>3, <3>2
  <2>10. /\ Again \in SUBSET User /\ Fresh \in SUBSET User
         /\ page'[e] = Again \cup Fresh /\ Again \cap Fresh = {}
         /\ Seen(e)' = Seen(e) \cup Fresh /\ Seen(e) \cap Fresh = {}
    BY <1>5, <2>5
  <2> HIDE DEF Again, Fresh
  <2>11. Cardinality(Again) + Cardinality(Exposed(e)') <= Cardinality(Exposed(e))
    <3>1. Again \cup Exposed(e)' \in SUBSET Exposed(e)
      BY <2>7, <2>8
    <3>2. Cardinality(Again \cup Exposed(e)') <= Cardinality(Exposed(e))
      BY <1>4, <3>1, UserSubsets
    <3> QED
      BY <1>5, <2>9, <2>10, <3>2, UsersUnion
  <2>12. /\ Cardinality(page'[e]) = Cardinality(Again) + Cardinality(Fresh)
         /\ Cardinality(Again) \in Nat /\ Cardinality(Fresh) \in Nat
    BY <2>10, UsersUnion
  <2>13. Cardinality(Seen(e)') = Cardinality(Seen(e)) + Cardinality(Fresh)
    BY <1>4, <2>10, UsersUnion
  <2>14. /\ sent'[e] = sent[e] /\ returns'[e] = returns[e]
         /\ Cardinality(page[e]) = 0
    BY <2>1, <2>2, FS_EmptySet DEF past
  <2>15. /\ Cardinality(sent[e]) + Cardinality(Exposed(e))
              <= Cardinality(Seen(e)) + returns[e]
         /\ Cardinality(sent[e]) <= Cardinality(Recipients(e)) + returns[e]
    BY <1>3, <1>6, <2>1, <2>14 DEF Repeating
  <2>16. Cardinality(sent[e]) + Cardinality(page'[e]) + Cardinality(Exposed(e)')
           <= Cardinality(Seen(e)') + returns[e]
    BY <1>3, <1>6, <2>11, <2>12, <2>13, <2>15
  <2> QED
    BY <2>5, <2>14, <2>15, <2>16 DEF Repeating
<1>10. CASE CountUsers(e) \/ InsertNotification(e)
  <2>1. /\ Running(e) /\ M' = M /\ pos' = pos /\ sent' = sent /\ page' = page
        /\ returns' = returns /\ Bound(e)' = Bound(e)
    BY <1>10 DEF CountUsers, InsertNotification, TypeOK, Bound, Matching, db,
                 past, M
  <2>2. Exposed(e)' \subseteq Exposed(e)
    BY <1>1, <2>1 DEF Seen, Recipients, R
  <2> QED
    BY <1>7, <2>1, <2>2
<1>11. ASSUME NEW S \in SUBSET page[e], pc[e] \in Awaiting,
              sent'[e] = sent[e] \cup (S \X {notifs[e]}), page'[e] = {},
              UNCHANGED past
       PROVE  /\ Recipients(e)' = Recipients(e) \cup S
              /\ Seen(e)' = Recipients(e) \cup S
              /\ Cardinality(sent'[e]) \in Nat
              /\ Cardinality(sent'[e]) + Cardinality(Exposed(e))
                   <= Cardinality(Recipients(e) \cup S) + returns[e]
              /\ returns'[e] = returns[e]
  <2>1. Recipients(e)' = Recipients(e) \cup S
    <3>1. {r[1] : r \in sent[e] \cup (S \X {notifs[e]})}
            = {r[1] : r \in sent[e]} \cup S
      BY ONLY RecipientsGrow
    <3> QED
      BY ONLY <1>11, <3>1 DEF Recipients
  <2>2. Seen(e)' = Recipients(e) \cup S
    BY <1>11, <2>1 DEF Seen
  <2>3. /\ Cardinality(sent'[e]) \in Nat /\ Cardinality(S) \in Nat
        /\ Cardinality(sent'[e]) <= Cardinality(sent[e]) + Cardinality(S)
    <3>1. IsFiniteSet(sent[e]) /\ S \in SUBSET User
      BY <1>4 DEF Base, Ledger
    <3> DEFINE T == sent[e] \cup (S \X {notifs[e]})
    <3>2. /\ Cardinality(T) \in Nat /\ Cardinality(S) \in Nat
          /\ Cardinality(T) <= Cardinality(sent[e]) + Cardinality(S)
      BY ONLY <3>1, RecordsGrow
    <3> QED
      BY <1>11, <3>2
  <2> DEFINE Rest == page[e] \ S
  <2>4. /\ Rest \in SUBSET User /\ S \in SUBSET User /\ page[e] = S \cup Rest
        /\ S \cap Rest = {} /\ Seen(e) = (Recipients(e) \cup S) \cup Rest
        /\ Recipients(e) \cup S \in SUBSET User
    BY <1>4
  <2> HIDE DEF Rest
  <2>5. /\ Cardinality(page[e]) = Cardinality(S) + Cardinality(Rest)
        /\ Cardinality(Rest) \in Nat
    BY <2>4, UsersUnion
  <2>6. /\ Cardinality(Seen(e))
             <= Cardinality(Recipients(e) \cup S) + Cardinality(Rest)
        /\ Cardinality(Recipients(e) \cup S) \in Nat
    BY <2>4, UsersUnion
  <2>7. Cardinality(sent[e]) + Cardinality(page[e]) + Cardinality(Exposed(e))
          <= Cardinality(Seen(e)) + returns[e]
    BY <1>11 DEF Repeating
  <2>8. Cardinality(sent'[e]) + Cardinality(Exposed(e))
          <= Cardinality(Recipients(e) \cup S) + returns[e]
    BY <1>3, <1>6, <2>3, <2>5, <2>6, <2>7
  <2> QED
    BY <1>11, <2>1, <2>2, <2>3, <2>8 DEF past
<1>12. CASE InsertRecords(e)
  <2>1. /\ pc[e] = "insert" /\ UNCHANGED <<audience, db, past>>
        /\ sent'[e] = sent[e] \cup (page[e] \X {notifs[e]})
        /\ page'[e] = {}
    BY <1>12 DEF InsertRecords, TypeOK
  <2>2. /\ Recipients(e)' = Seen(e) /\ Seen(e)' = Seen(e)
        /\ Cardinality(sent'[e]) \in Nat
        /\ Cardinality(sent'[e]) + Cardinality(Exposed(e))
             <= Cardinality(Seen(e)) + returns[e]
        /\ returns'[e] = returns[e]
    BY <1>4, <1>11, <2>1
  <2>3. ASSUME Running(e)' PROVE Exposed(e)' = Exposed(e)
    <3>1. pc'[e] = "read" /\ skip'[e] = skip[e] + LIMIT
      BY <1>12, <2>3 DEF InsertRecords, TypeOK
    <3>2. Bound(e)' = Bound(e)
      BY <2>1, <3>1 DEF Bound
    <3>3. M' = M /\ pos' = pos
      BY <2>1 DEF M, Matching, db
    <3> QED
      BY <1>1, <2>2, <3>2, <3>3 DEF R
  <2> QED
    BY <1>3, <1>6, <2>1, <2>2, <2>3, FS_EmptySet DEF Repeating
<1>13. CASE Fail(e)
  <2>1. /\ pc'[e] = "failed" /\ ~Running(e)' /\ pc[e] \in Awaiting
        /\ page'[e] = {} /\ UNCHANGED past
    BY <1>13 DEF Fail, TypeOK
  <2>2. CASE pc[e] = "insert"
    <3>1. PICK cut \in 0 .. lastPos :
            sent' = [sent EXCEPT ![e] = @ \cup ({u \in page[e] : pos[u] <= cut}
                                                  \X {notifs[e]})]
      BY <1>13, <2>2 DEF Fail
    <3> DEFINE S == {u \in page[e] : pos[u] <= cut}
    <3>2. S \in SUBSET page[e] /\ sent'[e] = sent[e] \cup (S \X {notifs[e]})
      BY <3>1 DEF TypeOK
    <3> HIDE DEF S
    <3>3. /\ Recipients(e)' = Recipients(e) \cup S
          /\ Cardinality(sent'[e]) \in Nat
          /\ Cardinality(sent'[e]) + Cardinality(Exposed(e))
               <= Cardinality(Recipients(e) \cup S) + returns[e]
          /\ returns'[e] = returns[e]
      BY <1>11, <2>1, <3>2
    <3>4. Cardinality(Recipients(e) \cup S) \in Nat
      BY <1>4, <3>2, UsersUnion
    <3> QED
      BY <1>3, <1>6, <2>1, <3>3, <3>4 DEF Repeating
  <2>3. CASE pc[e] # "insert"
    <3>1. sent' = sent /\ returns' = returns
      BY <1>13, <2>3 DEF Fail, past
    <3> QED
      BY <2>1, <3>1 DEF Repeating, Recipients
  <2> QED
    BY <2>2, <2>3
<1>14. CASE Idles(e) \/ UNCHANGED vars
  <2>1. CallSame(e) /\ PastSame(e) /\ M' = M /\ pos' = pos
    BY <1>14 DEF Idles, vars, db, CallSame, PastSame, M, Matching
  <2>2. /\ Seen(e)' = Seen(e) /\ Recipients(e)' = Recipients(e)
        /\ Exposed(e)' = Exposed(e)
    BY <1>1, <2>1 DEF CallSame, Seen, Recipients, Bound, R
  <2> QED
    BY <2>1, <2>2 DEF CallSame, PastSame, Repeating
<1>15. ASSUME NEW u \in User,
              Register(u) \/ Deactivate(u) \/ Reactivate(u) \/ ChangeGlobals(u)
       PROVE  Repeating(e)'
  <2>1. /\ CallSame(e) /\ Seen(e)' = Seen(e) /\ Recipients(e)' = Recipients(e)
        /\ Bound(e)' = Bound(e)
    BY <1>15, OtherService DEF call, CallSame, Seen, Recipients, Bound
  <2>2. CASE ~Running(e)
    <3>1. PastSame(e)
      BY <1>15, <2>2 DEF TypeOK, PastSame, Register, Deactivate, Reactivate,
                         ChangeGlobals, past
    <3> QED
      BY <2>1, <2>2, <3>1 DEF CallSame, PastSame, Repeating
  <2>3. CASE Running(e)
    <3>1. CASE Register(u)
      <4>1. /\ pos[u] = 0 /\ lastPos \in Nat /\ UNCHANGED past
            /\ pos' = [pos EXCEPT ![u] = lastPos + 1]
            /\ active' = active \cup {u} /\ audience'[e] = audience[e]
        BY <2>1, <3>1 DEF Register, TypeOK, CallSame
      <4>2. M \subseteq M' /\ M' \ M \subseteq {u} /\ u \notin M /\ u \notin Seen(e)
        BY <4>1 DEF M, Matching, Places, Registered, Base, Witnessed
      <4>3. /\ pos \in [User -> Nat] /\ pos' \in [User -> Nat]
            /\ \A w \in M : pos'[w] = pos[w] /\ pos'[w] <= pos'[u]
        BY <1>1, <4>1, <4>2 DEF TypeOK, Places
      <4>4. \A w \in M : RankIn(pos', w, M') = R(w)
        BY <1>1, <4>2, <4>3, RankAppend DEF R
      <4>5. Exposed(e)' \subseteq Exposed(e)
        BY <1>1, <2>1, <4>2, <4>4
      <4> QED
        BY <1>7, <2>1, <2>3, <4>1, <4>5 DEF CallSame, past
    <3>2. CASE Deactivate(u)
      <4>1. returns' = returns /\ pos' = pos /\ M' \in SUBSET M
        BY <2>1, <3>2 DEF Deactivate, M, Matching, CallSame
      <4>2. \A w \in User : RankIn(pos', w, M') <= R(w)
        BY <1>1, <4>1, RankMonotonic DEF TypeOK, R
      <4>3. Exposed(e)' \subseteq Exposed(e)
        BY <1>1, <1>2, <1>3, <2>1, <4>1, <4>2
      <4> QED
        BY <1>7, <2>1, <2>3, <4>1, <4>3 DEF CallSame
    <3>3. CASE Reactivate(u)
      <4>1. /\ returns'[e] = returns[e] + 1 /\ pos' = pos /\ u \notin M
            /\ M' \in {M, M \cup {u}}
        BY <2>1, <2>3, <3>3 DEF Reactivate, TypeOK, M, Matching, CallSame
      <4>2. ASSUME NEW w \in User, u \in M'
            PROVE  RankIn(pos', w, M') =
                     R(w) + (IF pos[u] < pos[w] THEN 1 ELSE 0)
        <5>1. M' \ {u} = M
          BY <4>1, <4>2
        <5> QED
          BY <1>1, <4>1, <4>2, <5>1, RankRemove DEF TypeOK, R
      <4>3. u \notin M' => M' = M
        BY <4>1
      <4>4. ASSUME NEW w \in Exposed(e)', w \notin Exposed(e)
            PROVE  /\ u \in M' /\ w \in M' /\ Bound(e) <= RankIn(pos', w, M')
                   /\ w # u => /\ w \in M /\ R(w) + 1 = Bound(e)
                               /\ RankIn(pos', w, M') = Bound(e)
                               /\ pos[u] < pos[w]
        <5>1. u \in M' /\ w \in M' /\ w \in Seen(e)
              /\ Bound(e) <= RankIn(pos', w, M')
          BY <1>1, <2>1, <4>1, <4>3, <4>4 DEF R
        <5>2. ASSUME w # u PROVE w \in M /\ R(w) < Bound(e)
          BY <1>1, <1>2, <1>3, <4>1, <4>4, <5>1, <5>2
        <5> QED
          BY <1>1, <1>2, <1>3, <4>2, <5>1, <5>2
      <4>5. Ordered(pos, M) /\ Ordered(pos, M')
        <5>1. M \subseteq Registered /\ M' \subseteq Registered
          BY <4>1, <3>3 DEF M, Matching, Places, Reactivate
        <5> QED
          BY <5>1 DEF Places, Ordered
      <4>6. \A a, b \in Exposed(e)' \ Exposed(e) : a = b
        <5>1. SUFFICES ASSUME NEW a \in Exposed(e)' \ Exposed(e),
                              NEW b \in Exposed(e)' \ Exposed(e)
                       PROVE  a = b
          OBVIOUS
        <5>2. CASE a # u /\ b # u
          <6>1. a \in M /\ b \in M /\ R(a) + 1 = Bound(e) /\ R(b) + 1 = Bound(e)
            BY <4>4, <5>2
          <6>2. RankIn(pos, a, M) = RankIn(pos, b, M)
            BY <1>1, <1>2, <1>3, <6>1 DEF R
          <6>3. pos \in [User -> Nat]
            BY DEF TypeOK
          <6> QED
            BY <1>1, <4>5, <6>1, <6>2, <6>3, RankInjective
        <5>3. ASSUME NEW c \in Exposed(e)' \ Exposed(e), c # u,
                     u \in Exposed(e)' \ Exposed(e)
              PROVE  FALSE
          <6>1. /\ u \in M' /\ c \in M' /\ pos[u] < pos[c]
                /\ RankIn(pos', c, M') = Bound(e)
                /\ Bound(e) <= RankIn(pos', u, M')
            BY <4>4, <5>3
          <6>2. RankIn(pos', u, M') < RankIn(pos', c, M')
            BY <1>1, <4>1, <6>1, RankOrder DEF TypeOK
          <6>3. RankIn(pos', u, M') \in Nat
            BY <1>1, <1>2, <6>1
          <6> QED
            BY <1>3, <6>1, <6>2, <6>3
        <5> QED
          BY <5>1, <5>2, <5>3
      <4>7. Cardinality(Exposed(e)') <= Cardinality(Exposed(e)) + 1
        BY <1>4, <1>5, <4>6, OneMore
      <4>8. sent'[e] = sent[e] /\ page'[e] = page[e]
        BY <2>1 DEF CallSame
      <4> QED
        BY <1>3, <1>6, <2>1, <2>3, <4>1, <4>7, <4>8 DEF Repeating
    <3>4. CASE ChangeGlobals(u)
      <4>1. returns' = returns /\ pos' = pos /\ M' = M
        BY <2>1, <3>4 DEF ChangeGlobals, M, Matching, CallSame
      <4>2. Exposed(e)' \subseteq Exposed(e)
        BY <1>1, <2>1, <4>1 DEF R
      <4> QED
        BY <1>7, <2>1, <2>3, <4>1, <4>2 DEF CallSame
    <3> QED
      BY <1>15, <3>1, <3>2, <3>3, <3>4
  <2> QED
    BY <2>2, <2>3
<1> QED
  BY <1>8, <1>9, <1>10, <1>12, <1>13, <1>14, <1>15, OtherCall
  DEF Next, Loop, Others

-----------------------------------------------------------------------------
(* The two theorems on the moving collection.                              *)

FanoutInv ==
  CallInv /\ \A e \in Event : Missing(e) /\ Repeating(e)

LEMMA FanoutInvariant == Spec => []FanoutInv
<1>1. Init => FanoutInv
  <2>1. ASSUME Init, NEW e \in Event PROVE Missing(e) /\ Repeating(e)
    BY <2>1, FS_EmptySet DEF Init, Missing, Repeating, Recipients, Running, Awaiting
  <2> QED
    BY <2>1, CallInvInit DEF FanoutInv
<1>2. FanoutInv /\ [Next]_vars => FanoutInv'
  BY CallInvStep, MissingStep, RepeatingStep DEF FanoutInv
<1> QED
  BY <1>1, <1>2, PTL DEF Spec

\* A loop that ends has missed at most one user for every document that left
\* status 1 under it: registrations and returns never hide anybody.
THEOREM MissedCorrect == Spec => []MissedAtMostDrops
<1>1. FanoutInv => MissedAtMostDrops
  BY DEF FanoutInv, Missing, MissedAtMostDrops
<1> QED
  BY <1>1, FanoutInvariant, PTL

\* A loop repeats at most one user for every document that came back to status
\* 1 under it: registrations and departures never notify anybody twice.
THEOREM RepeatsCorrect == Spec => []RepeatsAtMostReturns
<1>1. FanoutInv => RepeatsAtMostReturns
  BY DEF FanoutInv, Repeating, RepeatsAtMostReturns
<1> QED
  BY <1>1, FanoutInvariant, PTL

-----------------------------------------------------------------------------
(* The pages a loop opens.                                                 *)

\* The offset of a running call, and the next one once it has been announced,
\* is below the number of active users, but for those that left meanwhile.
Within(e) ==
  Running(e) => /\ skip[e] > 0 => skip[e] < Cardinality(active) + drops[e]
                /\ pc[e] \in {"notification", "insert"} /\ more[e] =>
                     skip[e] + LIMIT < Cardinality(active) + drops[e]

\* A call that has not begun is at the beginning of the collection.
AtStart(e) == pc[e] = "idle" => skip[e] = 0

LEMMA AtStartStep ==
  ASSUME TypeOK, [Next]_vars, NEW e \in Event, AtStart(e)
  PROVE  AtStart(e)'
<1> USE DEF TypeOK, AtStart
<1>1. ASSUME \/ \E t \in {"global", "student"} : Receive(e, t)
             \/ Loop(e) \/ Fail(e)
      PROVE  pc'[e] # "idle"
  BY <1>1 DEF Receive, Loop, ReadUsers, ReadStudents, ReadPage, CountUsers,
              InsertNotification, InsertRecords, Fail
<1>2. CASE Idles(e) \/ UNCHANGED call \/ UNCHANGED vars
  BY <1>2 DEF Idles, CallSame, call, vars
<1> QED
  BY <1>1, <1>2, OtherCall, OtherService DEF Next, Others

\* The count is compared with what it was; what leaves after it is a drop.
LEMMA WithinStep ==
  ASSUME TypeOK, [Next]_vars, NEW e \in Event, AtStart(e), Within(e)
  PROVE  Within(e)'
<1>1. /\ pc \in [Event -> {"idle", "done", "failed"} \cup Awaiting]
      /\ skip \in [Event -> Nat] /\ more \in [Event -> BOOLEAN]
      /\ drops \in [Event -> Nat] /\ LIMIT \in Nat
      /\ active \in SUBSET User /\ active' \in SUBSET User
  BY TypeStep, LimitAssumption DEF TypeOK
<1>2. /\ Cardinality(active) \in Nat /\ Cardinality(active') \in Nat
      /\ IsFiniteSet(active)
  BY <1>1, UserSubsets
<1> USE DEF Within, Running, Awaiting
<1>3. ASSUME NEW t \in {"global", "student"}, Receive(e, t)
      PROVE  Within(e)'
  BY <1>1, <1>3 DEF Receive, AtStart
<1>4. CASE ReadUsers(e) \/ ReadStudents(e)
  BY <1>1, <1>4 DEF ReadUsers, ReadStudents, ReadPage, db, past
<1>5. CASE CountUsers(e)
  <2>1. /\ pc[e] = "count" /\ UNCHANGED <<skip, drops, active>>
        /\ more'[e] => skip[e] + LIMIT < Cardinality(active)
    BY <1>1, <1>5 DEF CountUsers, HasMore, db, past
  <2> QED
    BY <1>1, <1>2, <2>1
<1>6. CASE InsertNotification(e)
  BY <1>1, <1>6 DEF InsertNotification, db, past
<1>7. CASE InsertRecords(e)
  <2>1. /\ pc[e] = "insert" /\ UNCHANGED <<drops, active>>
        /\ \/ more[e] /\ skip'[e] = skip[e] + LIMIT /\ pc'[e] = "read"
           \/ pc'[e] = "done"
    BY <1>1, <1>7 DEF InsertRecords, db, past
  <2> QED
    BY <1>1, <2>1
<1>8. CASE Fail(e)
  BY <1>1, <1>8 DEF Fail
<1>9. CASE Idles(e)
  BY <1>9 DEF Idles, CallSame, PastSame, db
<1>10. ASSUME UNCHANGED call, Cardinality(active) + drops[e] <= Cardinality(active') + drops'[e],
              drops' \in [Event -> Nat]
       PROVE  Within(e)'
  BY <1>1, <1>2, <1>10 DEF call
<1>11. ASSUME NEW u \in User, Register(u) \/ Reactivate(u) \/ ChangeGlobals(u)
       PROVE  Within(e)'
  <2>1. active \in SUBSET active' /\ drops' = drops
    BY <1>11 DEF Register, Reactivate, ChangeGlobals, past
  <2>2. Cardinality(active) <= Cardinality(active')
    BY <1>1, <2>1, UserSubsets
  <2> QED
    BY <1>1, <1>2, <1>10, <1>11, <2>1, <2>2, OtherService
<1>12. ASSUME NEW u \in User, Deactivate(u)
       PROVE  Within(e)'
  <2>1. /\ u \in active /\ active' = active \ {u}
        /\ Running(e) => drops'[e] = drops[e] + 1
        /\ drops' \in [Event -> Nat] /\ UNCHANGED call
    BY <1>1, <1>12, OtherService DEF Deactivate
  <2>2. Cardinality(active') = Cardinality(active) - 1
    BY <1>2, <2>1, FS_RemoveElement
  <2>3. CASE Running(e)
    BY <1>1, <1>2, <1>10, <2>1, <2>2, <2>3
  <2>4. CASE ~Running(e)
    BY <2>1, <2>4 DEF call
  <2> QED
    BY <2>3, <2>4
<1>13. CASE UNCHANGED vars
  BY <1>13 DEF vars
<1> QED
  BY <1>3, <1>4, <1>5, <1>6, <1>7, <1>8, <1>9, <1>11, <1>12, <1>13, OtherCall
  DEF Next, Loop, Others

\* However the number of active users moves between the count of one turn and
\* the page of the next, no loop opens a page beyond them, but for one place per
\* document that left status 1 under it.
THEOREM PagesCorrect == Spec => []NoPageBeyondActive
<1> DEFINE Inv == TypeOK /\ \A e \in Event : AtStart(e) /\ Within(e)
<1>1. Init => Inv
  BY BoundAssumption DEF Init, TypeOK, AtStart, Within, Running, Awaiting
<1>2. Inv /\ [Next]_vars => Inv'
  BY TypeStep, AtStartStep, WithinStep
<1>3. Inv => NoPageBeyondActive
  BY DEF NoPageBeyondActive, Within
<1> QED
  BY <1>1, <1>2, <1>3, PTL DEF Spec

-----------------------------------------------------------------------------
(* The loops end.                                                          *)

\* A page is read, and another one announced, only at an offset that some user
\* there may be lies beyond: the count never exceeds the users there are.
InSight(e) ==
  /\ skip[e] <= Cardinality(User)
  /\ pc[e] \in {"notification", "insert"} /\ more[e] =>
       skip[e] + LIMIT <= Cardinality(User)

InSightInv == TypeOK /\ \A e \in Event : InSight(e)

\* Offsets, counts and page sizes are numbers.
LEMMA CountBounds ==
  ASSUME TypeOK
  PROVE  /\ LIMIT \in Nat /\ LIMIT >= 1
         /\ Cardinality(User) \in Nat
         /\ Cardinality(active) \in Nat
         /\ Cardinality(active) <= Cardinality(User)
         /\ pc \in [Event -> {"idle", "done", "failed"} \cup Awaiting]
         /\ skip \in [Event -> Nat] /\ more \in [Event -> BOOLEAN]
BY UserSubsets, LimitAssumption DEF TypeOK

LEMMA InSightStep == InSightInv /\ [Next]_vars => InSightInv'
<1> SUFFICES ASSUME InSightInv, [Next]_vars PROVE InSightInv'
  OBVIOUS
<1>1. TypeOK /\ TypeOK'
  BY TypeStep DEF InSightInv
<1>2. ASSUME NEW e \in Event PROVE InSight(e)'
  <2>1. InSight(e)
    BY DEF InSightInv
  <2>2. CASE \E t \in {"global", "student"} : Receive(e, t)
    BY <1>1, <2>1, <2>2, CountBounds DEF Receive, InSight
  <2>3. CASE ReadUsers(e) \/ ReadStudents(e)
    BY <1>1, <2>1, <2>3, CountBounds DEF ReadUsers, ReadStudents, ReadPage, InSight
  <2>4. CASE CountUsers(e)
    <3>1. /\ skip'[e] = skip[e]
          /\ more'[e] => skip[e] + LIMIT < Cardinality(active)
      BY <1>1, <2>4, CountBounds DEF CountUsers, HasMore
    <3> QED
      BY <1>1, <2>1, <3>1, CountBounds DEF InSight
  <2>5. CASE InsertNotification(e)
    BY <1>1, <2>1, <2>5, CountBounds DEF InsertNotification, InSight
  <2>6. CASE InsertRecords(e)
    <3>1. /\ pc[e] = "insert"
          /\ \/ more[e] /\ skip'[e] = skip[e] + LIMIT /\ pc'[e] = "read"
             \/ skip'[e] = skip[e] /\ pc'[e] = "done"
      BY <1>1, <2>6, CountBounds DEF InsertRecords
    <3> QED
      BY <1>1, <2>1, <3>1, CountBounds DEF InSight
  <2>7. CASE Fail(e)
    BY <1>1, <2>1, <2>7, CountBounds DEF Fail, InSight
  <2>8. CASE Idles(e)
    BY <2>1, <2>8 DEF Idles, CallSame, InSight
  <2>9. CASE UNCHANGED vars \/ UNCHANGED call
    BY <2>1, <2>9 DEF vars, call, InSight
  <2> QED
    BY <1>1, <2>2, <2>3, <2>4, <2>5, <2>6, <2>7, <2>8, <2>9, OtherCall, OtherService
    DEF Next, Loop, Others
<1> QED
  BY <1>1, <1>2 DEF InSightInv

\* What every step does to the rank of a running call.
LEMMA RankFalls ==
  ASSUME InSightInv, InSightInv', [Next]_vars, NEW e \in Event, Running(e)
  PROVE  /\ StepsLeft(e)' \in 0 .. StepsLeft(e)
         /\ pc'[e] # pc[e] => StepsLeft(e)' < StepsLeft(e)
<1> DEFINE N == Cardinality(User)
           Left(at, n) == IF at \in Awaiting THEN 4 * (N - n) + AwaitsLeft[at] ELSE 0
           Nearer == /\ Left(pc'[e], skip'[e]) \in 0 .. Left(pc[e], skip[e])
                     /\ pc'[e] # pc[e] =>
                          Left(pc'[e], skip'[e]) < Left(pc[e], skip[e])
<1>1. /\ TypeOK /\ TypeOK'
      /\ N \in Nat /\ LIMIT \in Nat /\ LIMIT >= 1
      /\ pc[e] \in Awaiting /\ skip[e] \in Nat /\ skip'[e] \in Nat
      /\ skip[e] <= N /\ skip'[e] <= N
      /\ pc'[e] \in {"done", "failed"} \cup Awaiting \cup {"idle"}
  BY CountBounds DEF InSightInv, InSight, Running, TypeOK
<1>2. /\ StepsLeft(e) = Left(pc[e], skip[e])
      /\ StepsLeft(e)' = Left(pc'[e], skip'[e])
  BY DEF StepsLeft, Running
<1>3. \A n : /\ Left("read", n) = 4 * (N - n) + 4
             /\ Left("count", n) = 4 * (N - n) + 3
             /\ Left("notification", n) = 4 * (N - n) + 2
             /\ Left("insert", n) = 4 * (N - n) + 1
             /\ Left("done", n) = 0 /\ Left("failed", n) = 0
  BY DEF AwaitsLeft, Awaiting
<1> HIDE DEF N, Left
\* The call stays at its await and its offset.
<1>4. ASSUME pc'[e] = pc[e], skip'[e] = skip[e] PROVE Nearer
  <2>1. Left(pc[e], skip[e]) \in Nat
    BY <1>1, <1>3 DEF Awaiting
  <2> QED
    BY <1>4, <2>1
\* The next await of the same turn.
<1>5. ASSUME skip'[e] = skip[e],
             \/ pc[e] = "read" /\ pc'[e] = "count"
             \/ pc[e] = "count" /\ pc'[e] = "notification"
             \/ pc[e] = "notification" /\ pc'[e] = "insert"
      PROVE  Nearer
  BY <1>1, <1>3, <1>5
\* The next turn.
<1>6. ASSUME skip'[e] = skip[e] + LIMIT, pc[e] = "insert", pc'[e] = "read" PROVE Nearer
  BY <1>1, <1>3, <1>6
\* The end.
<1>7. ASSUME pc'[e] \in {"done", "failed"} PROVE Nearer
  <2>1. Left(pc[e], skip[e]) \in Nat /\ Left(pc[e], skip[e]) > 0
    BY <1>1, <1>3 DEF Awaiting
  <2>2. Left(pc'[e], skip'[e]) = 0
    BY <1>3, <1>7
  <2> QED
    BY <2>1, <2>2
<1> HIDE DEF Nearer
<1>8. ASSUME ReadUsers(e) \/ ReadStudents(e) \/ CountUsers(e) \/ InsertNotification(e)
      PROVE  Nearer
  BY <1>1, <1>5, <1>8, CountBounds
  DEF ReadUsers, ReadStudents, ReadPage, CountUsers, InsertNotification
<1>9. ASSUME InsertRecords(e) \/ Fail(e) PROVE Nearer
  <2>1. CASE InsertRecords(e)
    <3>1. /\ pc[e] = "insert"
          /\ \/ skip'[e] = skip[e] + LIMIT /\ pc'[e] = "read"
             \/ pc'[e] = "done"
      BY <1>1, <2>1, CountBounds DEF InsertRecords
    <3> QED
      BY <1>6, <1>7, <3>1
  <2>2. CASE Fail(e)
    BY <1>1, <1>7, <2>2, CountBounds DEF Fail
  <2> QED
    BY <1>9, <2>1, <2>2
<1>10. ASSUME Idles(e) \/ UNCHANGED vars \/ UNCHANGED call PROVE Nearer
  BY <1>4, <1>10 DEF Idles, CallSame, vars, call
<1>11. ASSUME NEW t \in {"global", "student"} PROVE ~Receive(e, t)
  BY <1>1 DEF Receive, Awaiting
<1>12. Nearer
  BY <1>1, <1>8, <1>9, <1>10, <1>11, OtherCall, OtherService DEF Next, Loop, Others
<1> QED
  BY <1>2, <1>12 DEF Nearer

\* Every await of saveNotificationGlobal and saveNotificationStudents that
\* settles takes the call nearer to its end, however many users come, go or
\* change under it, for every page size: the loops are finite.
THEOREM LoopCorrect == Spec => LoopAdvances
<1>1. Init => InSightInv
  <2>1. ASSUME Init, NEW e \in Event PROVE InSight(e)
    <3>1. Cardinality(User) \in Nat
      BY UserSubsets
    <3> QED
      BY <2>1, <3>1 DEF Init, InSight
  <2>2. Init => TypeOK
    BY BoundAssumption DEF Init, TypeOK, Awaiting
  <2> QED
    BY <2>1, <2>2 DEF InSightInv
<1> DEFINE Nearer ==
      \A e \in Event :
        Running(e) => /\ StepsLeft(e)' \in 0 .. StepsLeft(e)
                      /\ pc'[e] # pc[e] => StepsLeft(e)' < StepsLeft(e)
<1>2. InSightInv /\ InSightInv' /\ [Next]_vars => Nearer
  BY RankFalls
<1> HIDE DEF Nearer
<1>3. Spec => [][Nearer]_vars
  BY <1>1, <1>2, InSightStep, PTL DEF Spec
<1> QED
  BY <1>3 DEF LoopAdvances, Nearer
=============================================================================
