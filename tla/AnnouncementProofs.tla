-------------------------- MODULE AnnouncementProofs --------------------------
(***************************************************************************)
(* The paged loops of Fanout implement Announcement, for every set of      *)
(* users and events and every page size.  What Announcement promises of    *)
(* the end of a call, and of those who want nothing, are the theorems of   *)
(* FanoutProofs; what is left is that no step does anything else.          *)
(***************************************************************************)
EXTENDS FanoutProofs

\* What is known before and after a step.
Kept == TypeOK /\ MissedAtMostDrops /\ OptedOutGetNothing

LEMMA KeptInvariant == Spec => []Kept
<1>1. FanoutInv => Kept
  BY DEF FanoutInv, CallInv, Base, Witnessed, Seen, Missing, MissedAtMostDrops,
         OptedOutGetNothing, Kept
<1> QED
  BY <1>1, FanoutInvariant, PTL

LEMMA AnnouncementInit == Init => Promise!Init
<1> SUFFICES ASSUME Init PROVE Promise!Init
  OBVIOUS
<1>1. Phase = [e \in Event |-> "idle"]
  BY DEF Init, Phase, Running, Awaiting
<1>2. Told = [e \in Event |-> {}]
  BY DEF Init, Told, Recipients
<1> QED
  BY <1>1, <1>2 DEF Init, Promise!Init

\* The awaits of a running call are one phase.
LEMMA PhaseIs ==
  ASSUME TypeOK, NEW e \in Event
  PROVE  /\ Phase[e] = "open" <=> pc[e] \in Awaiting
         /\ pc[e] \notin Awaiting => Phase[e] = pc[e]
BY DEF TypeOK, Phase, Running, Awaiting

\* A step that stays at an await of call e, or leaves every call where it is.
LEMMA PhaseStays ==
  ASSUME TypeOK, TypeOK', NEW e \in Event, pc[e] \in Awaiting,
         \E at \in Awaiting : pc' = [pc EXCEPT ![e] = at]
  PROVE  Phase' = Phase
<1>1. \A d \in Event : Running(d)' = Running(d) /\ (pc'[d] = pc[d] \/ Running(d))
  BY DEF TypeOK, Running
<1> QED
  BY <1>1 DEF Phase

\* A step that takes call e to an await or to its end.
LEMMA PhaseMoves ==
  ASSUME TypeOK, NEW e \in Event, NEW next \in {"open", "done", "failed"},
         pc[e] \in Awaiting \cup {"idle"},
         NEW at \in Awaiting \cup {"done", "failed"},
         pc' = [pc EXCEPT ![e] = at],
         next = IF at \in Awaiting THEN "open" ELSE at
  PROVE  Phase' = [Phase EXCEPT ![e] = next]
<1>1. \A d \in Event : pc'[d] = IF d = e THEN at ELSE pc[d]
  BY DEF TypeOK
<1>2. \A d \in Event : Running(d)' = IF d = e THEN at \in Awaiting ELSE Running(d)
  BY <1>1 DEF Running
<1> QED
  BY <1>1, <1>2 DEF Phase

\* Announcement counts as FiniteSets does.
LEMMA SameCount == \A S : Promise!Cardinality(S) = Cardinality(S)
BY DEF Promise!Cardinality, Cardinality

-----------------------------------------------------------------------------
\* Receive begins the announcement, with those entitled to it at that time.
LEMMA ReceiveBegins ==
  ASSUME Kept, NEW e \in Event, NEW t \in {"global", "student"}, Receive(e, t)
  PROVE  Promise!Begin(e)
<1> USE DEF Kept
<1>1. Phase[e] = "idle"
  BY PhaseIs DEF Receive, Awaiting
<1>2. Phase' = [Phase EXCEPT ![e] = "open"]
  BY PhaseMoves DEF Receive, Awaiting
<1>3. Matching(t) \ optOut \in SUBSET User /\ optOut \in SUBSET User
  BY DEF TypeOK, Matching
<1>4. (Matching(t) \ optOut) \cap optOut = {}
  OBVIOUS
<1>5. Told' = Told /\ drops' = drops
  BY DEF Receive, Told, Recipients
<1> QED
  BY <1>1, <1>2, <1>3, <1>4, <1>5 DEF Receive, Promise!Begin

\* Records of some users of the page tell them, and nobody else.
LEMMA RecordsTell ==
  ASSUME Kept, Kept', NEW e \in Event, NEW S \in SUBSET page[e],
         NEW at \in {"read", "done", "failed"},
         pc[e] \in Awaiting, pc' = [pc EXCEPT ![e] = at],
         sent' = [sent EXCEPT ![e] = @ \cup (S \X {notifs[e]})],
         UNCHANGED past
  PROVE  \E next \in {"open", "done", "failed"} : Promise!Tell(e, next)
<1> USE DEF Kept
<1> DEFINE next == IF at \in Awaiting THEN "open" ELSE at
<1>1. next \in {"open", "done", "failed"} /\ (next = "done" <=> at = "done")
  BY DEF Awaiting
<1> HIDE DEF next
<1>2. Phase[e] = "open"
  BY PhaseIs
<1>3. Phase' = [Phase EXCEPT ![e] = next]
  BY <1>1, PhaseMoves DEF Awaiting, next
<1>4. Recipients(e)' = Recipients(e) \cup S
  <2>1. sent'[e] = sent[e] \cup (S \X {notifs[e]})
    BY DEF TypeOK
  <2>2. Recipients(e)' = {r[1] : r \in sent[e] \cup (S \X {notifs[e]})}
    BY <2>1 DEF Recipients
  <2>3. {r[1] : r \in sent[e] \cup (S \X {notifs[e]})} = {r[1] : r \in sent[e]} \cup S
    BY RecipientsGrow
  <2> QED
    BY <2>2, <2>3 DEF Recipients
<1>5. Told' = [Told EXCEPT ![e] = @ \cup S]
  <2>1. \A d \in Event \ {e} : Recipients(d)' = Recipients(d)
    BY DEF TypeOK, Recipients
  <2> QED
    BY <1>4, <2>1 DEF Told
<1>6. S \in SUBSET (User \ silent[e])
  <2>1. silent[e] \cap Recipients(e)' = {}
    BY DEF OptedOutGetNothing, past
  <2>2. S \in SUBSET User
    BY DEF TypeOK
  <2> QED
    BY <1>4, <2>1, <2>2
<1>7. next = "done" => Cardinality(steady[e] \ Told'[e]) <= drops[e]
  <2>1. Told'[e] = Recipients(e)'
    BY DEF Told
  <2>2. next = "done" => pc'[e] = "done"
    BY <1>1 DEF TypeOK
  <2> QED
    BY <2>1, <2>2 DEF MissedAtMostDrops, past
<1>8. Promise!Tell(e, next)
  BY <1>2, <1>3, <1>5, <1>6, <1>7, SameCount DEF Promise!Tell, past
<1> QED
  BY <1>1, <1>8

\* InsertRecords tells the page; Fail, a prefix of it or nobody.
LEMMA EndOfTurnTells ==
  ASSUME Kept, Kept', NEW e \in Event, InsertRecords(e) \/ Fail(e)
  PROVE  \E next \in {"open", "done", "failed"} : Promise!Tell(e, next)
<1> USE DEF Kept
<1>1. CASE InsertRecords(e)
  <2>1. \E at \in {"read", "done"} : pc' = [pc EXCEPT ![e] = at]
    BY <1>1 DEF InsertRecords
  <2> QED
    BY <1>1, <2>1, RecordsTell DEF InsertRecords, Awaiting
<1>2. CASE Fail(e)
  <2>1. PICK S \in SUBSET page[e] :
          sent' = [sent EXCEPT ![e] = @ \cup (S \X {notifs[e]})]
    <3>1. CASE pc[e] = "insert"
      <4>1. PICK cut \in 0 .. lastPos :
              sent' = [sent EXCEPT ![e] = @ \cup ({u \in page[e] : pos[u] <= cut}
                                                    \X {notifs[e]})]
        BY <1>2, <3>1 DEF Fail
      <4>2. {u \in page[e] : pos[u] <= cut} \in SUBSET page[e]
        OBVIOUS
      <4> QED
        BY <4>1, <4>2
    <3>2. CASE pc[e] # "insert"
      <4>1. sent' = sent
        BY <1>2, <3>2 DEF Fail
      <4>2. sent[e] \cup ({} \X {notifs[e]}) = sent[e]
        OBVIOUS
      <4>3. sent' = [sent EXCEPT ![e] = @ \cup ({} \X {notifs[e]})]
        BY <4>1, <4>2 DEF TypeOK
      <4> QED
        BY <4>3
    <3> QED
      BY <3>1, <3>2
  <2>2. pc[e] \in Awaiting /\ pc' = [pc EXCEPT ![e] = "failed"] /\ UNCHANGED past
    BY <1>2 DEF Fail, Awaiting
  <2> QED
    BY <2>1, <2>2, RecordsTell
<1> QED
  BY <1>1, <1>2

\* A change of the database excuses the calls under way, and only those.
LEMMA ChangesExcuse ==
  ASSUME Kept, NEW u \in User, Deactivate(u) \/ ChangeGlobals(u)
  PROVE  \E left \in {0, 1} : Promise!Change(u, left, Promise!Open)
<1> USE DEF Kept
<1>1. Phase' = Phase /\ Told' = Told
  BY DEF Deactivate, ChangeGlobals, call, Phase, Running, Told, Recipients
<1>2. \A e \in Event : e \in Promise!Open <=> Running(e)
  BY PhaseIs DEF Running, Promise!Open
<1>3. CASE Deactivate(u)
  <2>1. /\ steady' = [e \in Event |->
                        IF e \in Promise!Open THEN steady[e] \ {u} ELSE steady[e]]
        /\ drops' = [e \in Event |->
                       IF e \in Promise!Open THEN drops[e] + 1 ELSE drops[e]]
        /\ silent' = silent
    BY <1>2, <1>3 DEF Deactivate
  <2>2. Promise!Change(u, 1, Promise!Open)
    BY <1>1, <2>1 DEF Promise!Change
  <2> QED
    BY <2>2
<1>4. CASE ChangeGlobals(u)
  <2>1. drops' = [e \in Event |-> IF e \in Promise!Open THEN drops[e] + 0 ELSE drops[e]]
    BY <1>4 DEF ChangeGlobals, TypeOK
  <2>2. /\ steady' \in {steady, [e \in Event |->
             IF e \in Promise!Open THEN steady[e] \ {u} ELSE steady[e]]}
        /\ silent' \in {silent, [e \in Event |->
             IF e \in Promise!Open THEN silent[e] \ {u} ELSE silent[e]]}
    BY <1>2, <1>4 DEF ChangeGlobals
  <2>3. Promise!Change(u, 0, Promise!Open)
    BY <1>1, <2>1, <2>2 DEF Promise!Change
  <2> QED
    BY <2>3
<1> QED
  BY <1>3, <1>4

\* Reading, counting, saving the Notification of a page, and users who come or
\* come back tell nobody and excuse nothing.
LEMMA OthersStutter ==
  ASSUME Kept, Kept',
         \/ \E e \in Event : \/ ReadUsers(e) \/ ReadStudents(e)
                             \/ CountUsers(e) \/ InsertNotification(e)
         \/ \E u \in User : Register(u) \/ Reactivate(u)
         \/ UNCHANGED vars
  PROVE  UNCHANGED Promise!vars
<1> USE DEF Kept
<1>1. CASE \E e \in Event : \/ ReadUsers(e) \/ ReadStudents(e)
                            \/ CountUsers(e) \/ InsertNotification(e)
  <2>1. PICK e \in Event : \/ ReadUsers(e) \/ ReadStudents(e)
                           \/ CountUsers(e) \/ InsertNotification(e)
    BY <1>1
  <2>2. Phase' = Phase
    BY <2>1, PhaseStays
    DEF ReadUsers, ReadStudents, ReadPage, CountUsers, InsertNotification, Awaiting
  <2>3. sent' = sent /\ UNCHANGED past
    BY <2>1
    DEF ReadUsers, ReadStudents, ReadPage, CountUsers, InsertNotification, past
  <2> QED
    BY <2>2, <2>3 DEF Promise!vars, Told, Recipients, past
<1>2. CASE (\E u \in User : Register(u) \/ Reactivate(u)) \/ UNCHANGED vars
  <2>1. pc' = pc /\ sent' = sent /\ UNCHANGED <<steady, silent, drops>>
    BY <1>2 DEF Register, Reactivate, call, past, vars
  <2> QED
    BY <2>1 DEF Promise!vars, Phase, Running, Told, Recipients
<1> QED
  BY <1>1, <1>2

\* Every step of the loops, and of the system around them, is a step of
\* Announcement or none.
LEMMA AnnouncementStep == Kept /\ Kept' /\ [Next]_vars => [Promise!Next]_(Promise!vars)
<1> SUFFICES ASSUME Kept, Kept', [Next]_vars PROVE [Promise!Next]_(Promise!vars)
  OBVIOUS
<1>1. CASE \E e \in Event : \E t \in {"global", "student"} : Receive(e, t)
  BY <1>1, ReceiveBegins DEF Promise!Next
<1>2. CASE \E e \in Event : InsertRecords(e) \/ Fail(e)
  BY <1>2, EndOfTurnTells DEF Promise!Next
<1>3. CASE \E u \in User : Deactivate(u) \/ ChangeGlobals(u)
  BY <1>3, ChangesExcuse DEF Promise!Next
<1> QED
  BY <1>1, <1>2, <1>3, OthersStutter DEF Next, Loop, Others

\* However the pages fall and the collection moves, saveNotificationGlobal and
\* saveNotificationStudents do what Announcement says: they only add records,
\* tell nobody unwilling, and end well only when what they miss is excused.
THEOREM AnnouncementImplemented == Spec => ImplementsAnnouncement
<1>1. Spec => Init /\ [][Next]_vars
  BY DEF Spec
<1> QED
  BY <1>1, AnnouncementInit, AnnouncementStep, KeptInvariant, PTL
  DEF ImplementsAnnouncement, Promise!Spec
=============================================================================
