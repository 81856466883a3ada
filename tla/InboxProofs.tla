----------------------------- MODULE InboxProofs ------------------------------
(***************************************************************************)
(* What Inbox promises, for any number of users, saves, listings and       *)
(* deletions and any page size.  Every record is followed from the save    *)
(* that stores it to the write that marks or deletes it.                   *)
(***************************************************************************)
EXTENDS Inbox, FiniteSetTheorems, TLAPS

-----------------------------------------------------------------------------
(* Sets of records.                                                        *)

\* There are finitely many records.
LEMMA RecordSets ==
  ASSUME NEW S \in SUBSET Record
  PROVE  IsFiniteSet(S) /\ Cardinality(S) \in Nat
<1>1. IsFiniteSet(Record)
  BY UserAssumption, SaveAssumption, FS_Product DEF Record
<1> QED
  BY <1>1, FS_Subset, FS_CardinalityType

\* Two disjoint sets of records in a third.
LEMMA DisjointSets ==
  ASSUME NEW S \in SUBSET Record, NEW A \in SUBSET S, NEW B \in SUBSET S, A \cap B = {}
  PROVE  Cardinality(A) + Cardinality(B) <= Cardinality(S)
<1>1. /\ IsFiniteSet(A) /\ IsFiniteSet(B) /\ IsFiniteSet(S)
      /\ Cardinality(A) \in Nat /\ Cardinality(B) \in Nat /\ Cardinality(S) \in Nat
  BY RecordSets
<1>2. Cardinality(A \cup B) = Cardinality(A) + Cardinality(B) - Cardinality(A \cap B)
  BY <1>1, FS_Union
<1>3. Cardinality(A \cap B) = 0
  BY FS_EmptySet
<1>4. Cardinality(A \cup B) <= Cardinality(S)
  BY <1>1, FS_Subset
<1>5. Cardinality(A \cup B) = Cardinality(A) + Cardinality(B)
  BY <1>1, <1>2, <1>3
<1> QED
  BY <1>4, <1>5

\* What is left of a set of records.
LEMMA RestOfSet ==
  ASSUME NEW S \in SUBSET Record, NEW old \in SUBSET Record
  PROVE  /\ Cardinality(S) <= Cardinality(S \ old) + Cardinality(old \cap S)
         /\ Cardinality(S \ old) \in Nat /\ Cardinality(old \cap S) \in Nat
<1>1. S \ old \in SUBSET Record /\ old \cap S \in SUBSET Record
  OBVIOUS
<1>2. /\ IsFiniteSet(S \ old) /\ IsFiniteSet(old \cap S)
      /\ Cardinality(S \ old) \in Nat /\ Cardinality(old \cap S) \in Nat
  BY <1>1, RecordSets
<1>3. Cardinality((S \ old) \cup (old \cap S)) =
        Cardinality(S \ old) + Cardinality(old \cap S)
          - Cardinality((S \ old) \cap (old \cap S))
  BY <1>2, FS_Union
<1>4. (S \ old) \cup (old \cap S) = S /\ (S \ old) \cap (old \cap S) = {}
  OBVIOUS
<1>5. Cardinality({}) = 0
  BY FS_EmptySet
<1>6. Cardinality(S) = Cardinality(S \ old) + Cardinality(old \cap S) - 0
  BY ONLY <1>3, <1>4, <1>5
<1> QED
  BY <1>2, <1>6

-----------------------------------------------------------------------------
(* The writes of the calls.                                                *)

\* The end of a save: some of its records are stored.
Stores(s) ==
  /\ saving[s] = "records"
  /\ \E end \in {"done", "failed"} : saving' = [saving EXCEPT ![s] = end]
  /\ \E users \in SUBSET audience[s] : Inserted(s, users \X {s})

\* One unawaited updateMany.
Marks(c) ==
  /\ marking[c] = "pending"
  /\ \/ /\ marking' = [marking EXCEPT ![c] = "done"]
        /\ readed' = readed \cup Unread(reader[c])
     \/ /\ marking' = [marking EXCEPT ![c] = "failed"]
        /\ \E some \in SUBSET Unread(reader[c]) : readed' = readed \cup some
  /\ UNCHANGED <<notifications, records, listing, reader, skip, found, total>>
  /\ UNCHANGED <<saves, removals, deletes, past>>

\* A delete call, or the deleteMany of a Notification.
Removes ==
  \E old \in SUBSET Record :
    /\ Deleted(old)
    /\ \/ \E d \in Deletion :
            /\ deleting[d] = "deleteOne" /\ old \subseteq {target[d]}
            /\ \/ deleting' = [deleting EXCEPT ![d] = "deleted"] /\ old = {target[d]}
               \/ deleting' = [deleting EXCEPT ![d] = "failed"]
            /\ UNCHANGED <<caller, target, removals>>
       \/ \E s \in Save :
            /\ dropRecords[s] = "pending" /\ old \subseteq {r \in records : r[2] = s}
            /\ \/ /\ dropRecords' = [dropRecords EXCEPT ![s] = "done"]
                  /\ old = {r \in records : r[2] = s}
               \/ dropRecords' = [dropRecords EXCEPT ![s] = "failed"]
            /\ UNCHANGED <<dropNotification, deletes>>

\* Everything else leaves the records as they are.
Prepares(s) ==
  \/ \E users \in SUBSET User : GetUsers(s, users)
  \/ StoreNotification(s)
  \/ SaveFails(s) /\ saving[s] # "records"
  \/ DeleteAll(s)
  \/ DropNotification(s)
  \/ DropFails(s) /\ dropNotification[s] = "pending" /\ dropRecords' = dropRecords

\* The code of a listing between its find and its answer.
Answers(c) ==
  \E next \in {"images", "total", "answered", "failed"} :
    /\ Open(c) /\ Proceed(c, next)
    /\ \/ total' = total
       \/ /\ next = "answered"
          /\ total' = [total EXCEPT ![c] = Cardinality(RecordsOf(reader[c]))]

\* These are all the steps.
LEMMA Steps ==
  ASSUME TypeOK, [Next]_vars
  PROVE  \/ \E s \in Save : Stores(s) \/ Prepares(s)
         \/ \E c \in Listing : FindPage(c) \/ Answers(c) \/ Marks(c)
         \/ \E d \in Deletion : FindRecord(d)
         \/ Removes \/ Tick \/ UNCHANGED vars
<1>1. ASSUME NEW s \in Save, Saving(s)
      PROVE  Stores(s) \/ Prepares(s)
  <2>1. ASSUME StoreRecords(s) PROVE Stores(s)
    BY <2>1 DEF StoreRecords, Stores
  <2>2. ASSUME SaveFails(s), saving[s] = "records" PROVE Stores(s)
    BY <2>2 DEF SaveFails, Stores
  <2> QED
    BY <1>1, <2>1, <2>2 DEF Saving, Prepares
<1>2. ASSUME NEW s \in Save, Removing(s)
      PROVE  Prepares(s) \/ Removes
  <2>1. ASSUME DropRecords(s) PROVE Removes
    <3>1. {r \in records : r[2] = s} \in SUBSET Record
      BY DEF TypeOK
    <3> QED
      BY <2>1, <3>1 DEF DropRecords, Removes
  <2>2. ASSUME DropFails(s) PROVE Prepares(s) \/ Removes
    <3>1. CASE dropNotification[s] = "pending" /\ dropRecords' = dropRecords
      BY <2>2, <3>1 DEF Prepares
    <3>2. CASE /\ dropRecords[s] = "pending"
               /\ dropRecords' = [dropRecords EXCEPT ![s] = "failed"]
               /\ \E some \in SUBSET {r \in records : r[2] = s} : Deleted(some)
               /\ UNCHANGED <<dropNotification, deletes>>
      <4>1. PICK some \in SUBSET {r \in records : r[2] = s} : Deleted(some)
        BY <3>2
      <4>2. some \in SUBSET Record
        BY DEF TypeOK
      <4> QED
        BY <3>2, <4>1, <4>2 DEF Removes
    <3> QED
      BY <2>2, <3>1, <3>2 DEF DropFails
  <2> QED
    BY <1>2, <2>1, <2>2 DEF Removing, Prepares
<1>3. ASSUME NEW c \in Listing, MarkReaded(c) \/ MarkFails(c)
      PROVE  Marks(c)
  BY <1>3 DEF MarkReaded, MarkFails, Marks
<1>4. ASSUME NEW d \in Deletion, DeleteOne(d) \/ DeleteFails(d)
      PROVE  Removes
  <2>1. target[d] \in Record
    BY DEF TypeOK
  <2>2. CASE DeleteOne(d)
    BY <2>1, <2>2 DEF DeleteOne, Removes
  <2>3. CASE DeleteFails(d)
    <3>1. PICK some \in SUBSET {target[d]} : Deleted(some)
      BY <2>3 DEF DeleteFails
    <3>2. some \in SUBSET Record
      BY <2>1
    <3> QED
      BY <2>3, <3>1, <3>2 DEF DeleteFails, Removes
  <2> QED
    BY <1>4, <2>2, <2>3
<1>5. ASSUME NEW c \in Listing, Populate(c) \/ GetImages(c) \/ CountTotal(c) \/ ListFails(c)
      PROVE  Answers(c)
  BY <1>5 DEF Populate, GetImages, CountTotal, ListFails, Open, Answers
<1> QED
  BY <1>1, <1>2, <1>3, <1>4, <1>5 DEF Next, Answering, Deleting

\* Steps that leave the records and the listings alone.
LEMMA Quiet ==
  ASSUME TypeOK,
         \/ \E s \in Save : Prepares(s)
         \/ \E d \in Deletion : FindRecord(d)
         \/ Tick \/ UNCHANGED vars
  PROVE  UNCHANGED <<records, readed, listings, past>>
<1>1. ASSUME NEW s \in Save, dropNotification[s] = "pending", DropFails(s),
             dropRecords' = dropRecords
      PROVE  UNCHANGED <<records, readed, listings, past>>
  <2>1. dropRecords[s] = "pending" => dropRecords # [dropRecords EXCEPT ![s] = "failed"]
    BY DEF TypeOK
  <2> QED
    BY <1>1, <2>1 DEF DropFails
<1>2. ASSUME NEW s \in Save, Prepares(s) PROVE UNCHANGED <<records, readed, listings, past>>
  BY <1>1, <1>2
  DEF Prepares, GetUsers, StoreNotification, SaveFails, DeleteAll, DropNotification, store
<1> QED
  BY <1>2 DEF FindRecord, Tick, vars, store
-----------------------------------------------------------------------------
(* The types.                                                              *)

\* What a step leaves of the calls that it does not touch.
LEMMA InsertedType ==
  ASSUME TypeOK, NEW s \in Save, NEW new \in SUBSET Record, Inserted(s, new)
  PROVE  /\ records' \subseteq Record /\ readed' \subseteq records'
         /\ late' \subseteq Record /\ overtaken' \subseteq Record
         /\ since' \in [Listing -> SUBSET Record]
<1>1. /\ records' = records \cup new /\ readed' = readed
      /\ late' \subseteq late \cup new
      /\ since' = [c \in Listing |->
           IF marking[c] = "done" THEN since[c] \cup new ELSE since[c]]
      /\ overtaken' \subseteq overtaken \cup new
  BY DEF Inserted
<1> QED
  BY <1>1 DEF TypeOK

LEMMA DeletedType ==
  ASSUME TypeOK, NEW old \in SUBSET Record, Deleted(old)
  PROVE  /\ records' \subseteq records /\ readed' \subseteq records'
         /\ gone' \in [Listing -> Nat]
         /\ \A c \in Listing : gone'[c] >= gone[c]
<1>1. records' = records \ old /\ readed' = readed \ old
  BY DEF Deleted
<1>2. \A c \in Listing : Cardinality(old \cap RecordsOf(reader[c])) \in Nat
  <2>1. \A c \in Listing : old \cap RecordsOf(reader[c]) \in SUBSET Record
    OBVIOUS
  <2> QED
    BY <2>1, RecordSets
<1>3. gone' = [c \in Listing |->
        IF Open(c) THEN gone[c] + Cardinality(old \cap RecordsOf(reader[c])) ELSE gone[c]]
  BY DEF Deleted
<1>4. gone' \in [Listing -> Nat] /\ \A c \in Listing : gone'[c] >= gone[c]
  BY <1>2, <1>3 DEF TypeOK
<1> QED
  BY <1>1, <1>4 DEF TypeOK

LEMMA TypeInit == Init => TypeOK
BY ClockAssumption DEF Init, TypeOK, Settled

LEMMA TypeStep == TypeOK /\ [Next]_vars => TypeOK'
<1> SUFFICES ASSUME TypeOK, [Next]_vars PROVE TypeOK'
  OBVIOUS
<1>1. CASE \E s \in Save : Stores(s)
  <2>1. PICK s \in Save : Stores(s)
    BY <1>1
  <2>2. PICK users \in SUBSET audience[s] : Inserted(s, users \X {s})
    BY <2>1 DEF Stores
  <2>3. users \X {s} \in SUBSET Record
    BY DEF TypeOK, Record
  <2>4. saving' \in [Save -> {"idle", "notification", "records", "done", "failed"}]
    BY <2>1 DEF Stores, TypeOK
  <2> QED
    BY <2>2, <2>3, <2>4, InsertedType
    DEF TypeOK, Inserted, removals, listings, deletes
<1>2. CASE \E s \in Save : Prepares(s)
  <2>1. PICK s \in Save : Prepares(s)
    BY <1>2
  <2>2. CASE \E users \in SUBSET User : GetUsers(s, users)
    BY <2>2 DEF GetUsers, TypeOK, store, removals, listings, deletes, past
  <2>3. CASE StoreNotification(s)
    BY <2>3 DEF StoreNotification, TypeOK, removals, listings, deletes, past
  <2>4. CASE SaveFails(s) /\ saving[s] # "records"
    BY <2>4 DEF SaveFails, TypeOK, removals, listings, deletes, past
  <2>5. CASE DeleteAll(s)
    BY <2>5 DEF DeleteAll, TypeOK, Settled, store, saves, listings, deletes, past
  <2>6. CASE DropNotification(s)
    BY <2>6 DEF DropNotification, TypeOK, Settled, saves, listings, deletes, past
  <2>7. CASE DropFails(s) /\ dropNotification[s] = "pending" /\ dropRecords' = dropRecords
    <3>1. dropRecords[s] = "pending" => dropRecords # [dropRecords EXCEPT ![s] = "failed"]
      BY DEF TypeOK
    <3> QED
      BY <2>7, <3>1 DEF DropFails, TypeOK, Settled, saves, listings, deletes, past
  <2> QED
    BY <2>1, <2>2, <2>3, <2>4, <2>5, <2>6, <2>7 DEF Prepares
<1>3. CASE \E c \in Listing : FindPage(c) \/ Answers(c)
  <2>1. PICK c \in Listing : FindPage(c) \/ Answers(c)
    BY <1>3
  <2>2. RecordsOf(reader[c]) \in SUBSET Record /\ Unread(reader[c]) \in SUBSET Record
    BY DEF TypeOK, RecordsOf, Unread
  <2>3. CASE FindPage(c)
    <3>1. PICK page \in SUBSET RecordsOf(reader[c]) :
            /\ found' = [found EXCEPT ![c] = page]
            /\ listing' = [listing EXCEPT ![c] = IF page = {} THEN "answered" ELSE "populate"]
            /\ deep' = deep \cup (Unread(reader[c]) \ page)
      BY <2>3 DEF FindPage
    <3> QED
      BY <2>2, <2>3, <3>1 DEF FindPage, TypeOK, store, saves, removals, deletes
  <2>4. CASE Answers(c)
    <3>1. Cardinality(RecordsOf(reader[c])) \in Nat
      BY <2>2, RecordSets
    <3>2. total' \in [Listing -> Nat]
      BY <2>4, <3>1 DEF Answers, TypeOK
    <3>3. PICK next \in {"images", "total", "answered", "failed"} : Proceed(c, next)
      BY <2>4 DEF Answers
    <3>4. /\ shown' \subseteq Record
          /\ marking' \in [Listing -> Settled]
          /\ listing' \in [Listing -> {"idle", "populate", "images", "total", "answered", "failed"}]
      BY <3>3 DEF Proceed, TypeOK, Settled
    <3> QED
      BY <3>2, <3>3, <3>4 DEF Proceed, TypeOK, store, saves, removals, deletes
  <2> QED
    BY <2>1, <2>3, <2>4
<1>4. CASE \E c \in Listing : Marks(c)
  BY <1>4 DEF Marks, TypeOK, Settled, Unread, RecordsOf, saves, removals, deletes, past
<1>5. CASE \E d \in Deletion : FindRecord(d)
  BY <1>5 DEF FindRecord, TypeOK, store, saves, removals, listings, past
<1>6. CASE Removes
  <2>1. PICK old \in SUBSET Record :
          /\ Deleted(old)
          /\ \/ \E d \in Deletion :
                  /\ \/ deleting' = [deleting EXCEPT ![d] = "deleted"]
                     \/ deleting' = [deleting EXCEPT ![d] = "failed"]
                  /\ UNCHANGED <<caller, target, removals>>
             \/ \E s \in Save :
                  /\ \/ dropRecords' = [dropRecords EXCEPT ![s] = "done"]
                     \/ dropRecords' = [dropRecords EXCEPT ![s] = "failed"]
                  /\ UNCHANGED <<dropNotification, deletes>>
    BY <1>6 DEF Removes
  <2>2. /\ deleting' \in [Deletion -> {"idle", "deleteOne", "deleted", "refused", "failed"}]
        /\ dropRecords' \in [Save -> Settled]
        /\ UNCHANGED <<caller, target, dropNotification>>
    BY <2>1 DEF TypeOK, Settled, removals, deletes
  <2> QED
    BY <2>1, <2>2, DeletedType DEF Deleted, TypeOK, saves, listings
<1>7. CASE Tick \/ UNCHANGED vars
  BY <1>7, ClockAssumption DEF Tick, TypeOK, vars, store, saves, removals, listings, deletes, past
<1> QED
  BY <1>1, <1>2, <1>3, <1>4, <1>5, <1>6, <1>7, Steps

\* The variables always have the types of the documents and of the calls.
THEOREM InboxTypeCorrect == Spec => []TypeOK
BY TypeInit, TypeStep, PTL DEF Spec
-----------------------------------------------------------------------------
(* What is read has been seen, and what is unread is new.                  *)

\* An unread record is on its way to its user, or known to be passed over.
SeenInv ==
  /\ ReadUnseenExplained
  /\ \A c \in Listing : Open(c) => Unread(reader[c]) \subseteq found[c] \cup deep \cup late
  /\ \A c \in Listing :
       marking[c] = "pending" => Unread(reader[c]) \subseteq shown \cup deep \cup late

LEMMA SeenStep ==
  ASSUME TypeOK, SeenInv, [Next]_vars
  PROVE  SeenInv'
<1> USE DEF SeenInv, ReadUnseenExplained, Unread, RecordsOf, Open
<1>1. CASE \E s \in Save : Stores(s)
  <2>1. PICK s, new : s \in Save /\ Inserted(s, new)
    BY <1>1 DEF Stores
  <2>2. /\ records' = records \cup new
        /\ UNCHANGED <<readed, shown, deep, listing, reader, found, marking>>
        /\ late \subseteq late'
        /\ \A c \in Listing, r \in new :
             reader[c] = r[1] /\ (Open(c) \/ marking[c] = "pending") => r \in late'
    BY <2>1 DEF Inserted, listings
  <2> QED
    BY <2>2
<1>2. CASE \E c \in Listing : FindPage(c)
  <2>1. PICK c \in Listing : FindPage(c)
    BY <1>2
  <2>2. PICK page \in SUBSET RecordsOf(reader[c]) :
          /\ found' = [found EXCEPT ![c] = page]
          /\ listing' = [listing EXCEPT ![c] = IF page = {} THEN "answered" ELSE "populate"]
          /\ deep' = deep \cup (Unread(reader[c]) \ page)
    BY <2>1 DEF FindPage
  <2>3. UNCHANGED <<records, readed, reader, marking, shown, late>>
    BY <2>1 DEF FindPage, store
  <2> QED
    BY <2>2, <2>3 DEF TypeOK
<1>3. CASE \E c \in Listing : Answers(c)
  <2>1. PICK c \in Listing, next \in {"images", "total", "answered", "failed"} :
          Open(c) /\ Proceed(c, next)
    BY <1>3 DEF Answers
  <2>2. /\ listing' = [listing EXCEPT ![c] = next]
        /\ IF next = "answered"
             THEN /\ shown' = shown \cup found[c]
                  /\ marking' = [marking EXCEPT ![c] = "pending"]
             ELSE UNCHANGED <<shown, marking>>
        /\ UNCHANGED <<records, readed, reader, found, deep, late>>
    BY <2>1 DEF Proceed, store
  <2> QED
    BY <2>1, <2>2 DEF TypeOK
<1>4. CASE \E c \in Listing : Marks(c)
  <2>1. PICK c \in Listing : Marks(c)
    BY <1>4
  <2>2. /\ marking[c] = "pending"
        /\ readed \subseteq readed' /\ readed' \subseteq readed \cup Unread(reader[c])
        /\ \A b \in Listing : marking'[b] = "pending" => marking[b] = "pending"
        /\ UNCHANGED <<records, listing, reader, found, shown, deep, late>>
    BY <2>1 DEF Marks, past, TypeOK
  <2> QED
    BY <2>2
<1>5. CASE Removes
  <2>1. PICK old : Deleted(old)
    BY <1>5 DEF Removes
  <2>2. /\ records' = records \ old /\ readed' = readed \ old
        /\ UNCHANGED <<listing, reader, found, marking, shown, deep, late>>
    BY <2>1 DEF Deleted, listings
  <2> QED
    BY <2>2
<1>6. CASE UNCHANGED <<records, readed, listings, past>>
  BY <1>6 DEF listings, past
<1> QED
  BY <1>1, <1>2, <1>3, <1>4, <1>5, <1>6, Steps, Quiet

\* Whatever is read was returned to its user, was outside a page that a find
\* answered, or was stored while a listing was under way.
THEOREM ReadUnseenCorrect == Spec => []ReadUnseenExplained
<1>1. Init => SeenInv
  BY DEF Init, SeenInv, ReadUnseenExplained, Open
<1>2. TypeOK /\ SeenInv /\ [Next]_vars => SeenInv'
  BY SeenStep
<1>3. SeenInv => ReadUnseenExplained
  BY DEF SeenInv
<1> QED
  BY <1>1, <1>2, <1>3, InboxTypeCorrect, PTL DEF Spec

\* After the updateMany of a listing, the unread records of its user are those
\* stored since.
THEOREM UnreadIsNewCorrect == Spec => []UnreadIsNew
<1>1. Init => UnreadIsNew
  BY DEF Init, UnreadIsNew
<1>2. ASSUME TypeOK, UnreadIsNew, [Next]_vars PROVE UnreadIsNew'
  <2> USE DEF UnreadIsNew, Unread, RecordsOf
  <2>1. CASE \E s \in Save : Stores(s)
    <3>1. PICK s, new : s \in Save /\ Inserted(s, new)
      BY <2>1 DEF Stores
    <3> QED
      BY <1>2, <3>1 DEF Inserted, listings, TypeOK
  <2>2. CASE \E c \in Listing : FindPage(c)
    BY <1>2, <2>2 DEF FindPage, store
  <2>3. CASE \E c \in Listing : Answers(c)
    BY <1>2, <2>3 DEF Answers, Proceed, store, TypeOK
  <2>4. CASE \E c \in Listing : Marks(c)
    <3>1. PICK c \in Listing : Marks(c)
      BY <2>4
    <3>2. /\ readed \subseteq readed'
          /\ \A b \in Listing : marking'[b] = "done" =>
               marking[b] = "done" \/ (b = c /\ Unread(reader[c]) \subseteq readed')
          /\ UNCHANGED <<records, reader, since>>
      <4>1. CASE /\ marking' = [marking EXCEPT ![c] = "done"]
                 /\ readed' = readed \cup Unread(reader[c])
        BY <3>1, <4>1 DEF Marks, past, TypeOK
      <4>2. CASE /\ marking' = [marking EXCEPT ![c] = "failed"]
                 /\ \E some \in SUBSET Unread(reader[c]) : readed' = readed \cup some
        BY <3>1, <4>2 DEF Marks, past, TypeOK
      <4> QED
        BY <3>1, <4>1, <4>2 DEF Marks
    <3> QED
      BY <1>2, <3>2
  <2>5. CASE Removes
    <3>1. PICK old : Deleted(old)
      BY <2>5 DEF Removes
    <3> QED
      BY <1>2, <3>1 DEF Deleted, listings
  <2>6. CASE UNCHANGED <<records, readed, listings, past>>
    BY <1>2, <2>6 DEF listings, past
  <2> QED
    BY <1>2, <2>1, <2>2, <2>3, <2>4, <2>5, <2>6, Steps, Quiet
<1> QED
  BY <1>1, <1>2, InboxTypeCorrect, PTL DEF Spec
-----------------------------------------------------------------------------
(* Records, their saves and their Notifications.                           *)

\* Records come from saves that have ended, and outlive their Notification for
\* one of three reasons.
DropInv ==
  /\ \A r \in records : saving[r[2]] \in {"done", "failed"}
  /\ \A s \in Save : dropRecords[s] # "none" <=> dropNotification[s] # "none"
  /\ \A s \in Save : dropRecords[s] # "none" => s \in Removed
  /\ \A s \in Save :
       saving[s] = "records" => s \in notifications \/ dropNotification[s] # "none"
  /\ \A r \in records : r[2] \in notifications \/ dropNotification[r[2]] # "none"
  /\ \A r \in records : dropRecords[r[2]] = "done" => r \in overtaken

LEMMA DropStep ==
  ASSUME TypeOK, DropInv, [Next]_vars
  PROVE  DropInv'
<1> USE DEF DropInv
<1>1. ASSUME NEW s \in Save, Stores(s) PROVE DropInv'
  <2>1. PICK users : Inserted(s, users \X {s})
    BY <1>1 DEF Stores
  <2>2. \E end \in {"done", "failed"} : saving' = [saving EXCEPT ![s] = end]
    BY <1>1 DEF Stores
  <2>3. \A r \in users \X {s} : r[2] = s
    OBVIOUS
  <2>4. /\ records' = records \cup (users \X {s})
        /\ overtaken' = IF dropRecords[s] = "done"
             THEN overtaken \cup (users \X {s}) ELSE overtaken
        /\ UNCHANGED <<notifications, dropRecords, dropNotification>>
    BY <2>1 DEF Inserted, removals
  <2> QED
    BY <1>1, <2>2, <2>3, <2>4 DEF Stores, TypeOK, Record
<1>2. ASSUME NEW s \in Save, Prepares(s) PROVE DropInv'
  <2>1. UNCHANGED <<records, readed, listings, past>>
    BY <1>2, Quiet
  <2>2. \A r \in records : r[2] \in Save
    BY DEF TypeOK, Record
  <2>3. CASE (\E users \in SUBSET User : GetUsers(s, users)) \/ StoreNotification(s)
    BY <2>1, <2>2, <2>3 DEF GetUsers, StoreNotification, TypeOK, store, removals, past
  <2>4. CASE SaveFails(s) /\ saving[s] # "records"
    BY <2>1, <2>2, <2>4 DEF SaveFails, TypeOK, removals, past
  <2>5. CASE DeleteAll(s)
    BY <2>1, <2>2, <2>5 DEF DeleteAll, TypeOK, store, saves, past
  <2>6. CASE DropNotification(s)
    BY <2>1, <2>2, <2>6 DEF DropNotification, TypeOK, saves, past
  <2>7. CASE DropFails(s) /\ dropNotification[s] = "pending" /\ dropRecords' = dropRecords
    <3>1. dropRecords[s] = "pending" => dropRecords # [dropRecords EXCEPT ![s] = "failed"]
      BY DEF TypeOK
    <3> QED
      BY <2>1, <2>2, <2>7, <3>1 DEF DropFails, TypeOK, saves, past
  <2> QED
    BY <1>2, <2>3, <2>4, <2>5, <2>6, <2>7 DEF Prepares
<1>3. ASSUME UNCHANGED <<records, notifications, saving, removals, overtaken>>
      PROVE  DropInv'
  BY <1>3 DEF removals
<1>4. ASSUME NEW c \in Listing, FindPage(c) \/ Answers(c) \/ Marks(c)
      PROVE  DropInv'
  BY <1>3, <1>4 DEF FindPage, Answers, Proceed, Marks, store, saves, past
<1>5. CASE Removes
  <2>1. PICK old \in SUBSET Record :
          /\ Deleted(old)
          /\ \/ UNCHANGED removals
             \/ \E s \in Save :
                  /\ dropRecords[s] = "pending"
                  /\ \/ /\ dropRecords' = [dropRecords EXCEPT ![s] = "done"]
                        /\ old = {r \in records : r[2] = s}
                     \/ dropRecords' = [dropRecords EXCEPT ![s] = "failed"]
                  /\ UNCHANGED dropNotification
    BY <1>5 DEF Removes
  <2>2. records' = records \ old /\ UNCHANGED <<notifications, saving, overtaken>>
    BY <2>1 DEF Deleted, saves
  <2>3. CASE UNCHANGED removals
    BY <2>2, <2>3 DEF removals
  <2>4. CASE \E s \in Save :
               /\ dropRecords[s] = "pending"
               /\ \/ /\ dropRecords' = [dropRecords EXCEPT ![s] = "done"]
                     /\ old = {r \in records : r[2] = s}
                  \/ dropRecords' = [dropRecords EXCEPT ![s] = "failed"]
               /\ UNCHANGED dropNotification
    BY <2>2, <2>4 DEF TypeOK, Record
  <2> QED
    BY <2>1, <2>3, <2>4
<1>6. CASE (\E d \in Deletion : FindRecord(d)) \/ Tick \/ UNCHANGED vars
  BY <1>3, <1>6 DEF FindRecord, Tick, vars, store, saves, past
<1> QED
  BY <1>1, <1>2, <1>4, <1>5, <1>6, Steps

LEMMA DropInvariant == Spec => []DropInv
<1>1. Init => DropInv
  BY DEF Init, DropInv
<1>2. TypeOK /\ DropInv /\ [Next]_vars => DropInv'
  BY DropStep
<1> QED
  BY <1>1, <1>2, InboxTypeCorrect, PTL DEF Spec

\* A record outlives its Notification only while the deleteMany is under way,
\* when it failed, or when it ran before the record was stored.
THEOREM DanglingCorrect == Spec => []DanglingExplained
<1>1. TypeOK /\ DropInv => DanglingExplained
  BY DEF TypeOK, DropInv, DanglingExplained, Settled, Record
<1> QED
  BY <1>1, DropInvariant, InboxTypeCorrect, PTL

\* A delete call that goes on to delete names its caller's record, of a save
\* that has ended.
DeleteInv ==
  /\ \A d \in Deletion : deleting[d] = "deleteOne" => target[d][1] = caller[d]
  /\ \A d \in Deletion : deleting[d] \in {"deleteOne", "deleted"} =>
       saving[target[d][2]] \in {"done", "failed"}
  /\ DeletedStaysDeleted

LEMMA DeleteStep ==
  ASSUME TypeOK, DropInv, DeleteInv, [Next]_vars
  PROVE  DeleteInv'
<1> USE DEF DeleteInv, DeletedStaysDeleted
<1>1. ASSUME NEW s \in Save, Stores(s) PROVE DeleteInv'
  <2>1. PICK users : Inserted(s, users \X {s})
    BY <1>1 DEF Stores
  <2>2. \E end \in {"done", "failed"} : saving' = [saving EXCEPT ![s] = end]
    BY <1>1 DEF Stores
  <2>3. \A d \in Deletion : target[d] \in users \X {s} => target[d][2] = s
    OBVIOUS
  <2>4. records' = records \cup (users \X {s}) /\ UNCHANGED deletes
    BY <2>1 DEF Inserted
  <2> QED
    BY <1>1, <2>2, <2>3, <2>4 DEF Stores, TypeOK, Record, deletes
<1>2. ASSUME NEW s \in Save, Prepares(s) PROVE DeleteInv'
  <2>1. UNCHANGED <<records, deletes>>
    <3>1. ASSUME DropFails(s), dropNotification[s] = "pending", dropRecords' = dropRecords
          PROVE  UNCHANGED <<records, deletes>>
      <4>1. dropRecords[s] = "pending" => dropRecords # [dropRecords EXCEPT ![s] = "failed"]
        BY DEF TypeOK
      <4> QED
        BY <3>1, <4>1 DEF DropFails
    <3> QED
      BY <1>2, <3>1
      DEF Prepares, GetUsers, StoreNotification, SaveFails, DeleteAll, DropNotification, store
  <2>2. \A t \in Save : saving[t] \in {"done", "failed"} => saving'[t] \in {"done", "failed"}
    <3>1. \/ \E at \in {"notification", "records"} :
               saving[s] \in {"idle", "notification"} /\ saving' = [saving EXCEPT ![s] = at]
          \/ saving' = [saving EXCEPT ![s] = "failed"]
          \/ saving' = saving
      <4>1. ASSUME DropFails(s), dropNotification[s] = "pending", dropRecords' = dropRecords
            PROVE  saving' = saving
        BY <4>1 DEF DropFails, Deleted, saves
      <4> QED
        BY <1>2, <4>1
        DEF Prepares, GetUsers, StoreNotification, SaveFails, DeleteAll, DropNotification, saves
    <3> QED
      BY <3>1 DEF TypeOK
  <2> QED
    BY <2>1, <2>2 DEF TypeOK, Record, deletes
<1>3. ASSUME UNCHANGED <<records, saving, deletes>> PROVE DeleteInv'
  BY <1>3 DEF deletes
<1>4. ASSUME NEW c \in Listing, FindPage(c) \/ Answers(c) \/ Marks(c)
      PROVE  DeleteInv'
  BY <1>3, <1>4 DEF FindPage, Answers, Proceed, Marks, store, saves
<1>5. CASE \E d \in Deletion : FindRecord(d)
  BY <1>5 DEF FindRecord, DropInv, TypeOK, store, saves
<1>6. CASE Removes
  <2>1. PICK old \in SUBSET Record :
          /\ Deleted(old)
          /\ \/ \E d \in Deletion :
                  /\ deleting[d] = "deleteOne"
                  /\ \/ deleting' = [deleting EXCEPT ![d] = "deleted"] /\ old = {target[d]}
                     \/ deleting' = [deleting EXCEPT ![d] = "failed"]
                  /\ UNCHANGED <<caller, target>>
             \/ UNCHANGED deletes
    BY <1>6 DEF Removes
  <2>2. records' = records \ old /\ saving' = saving
    BY <2>1 DEF Deleted, saves
  <2>3. CASE UNCHANGED deletes
    BY <2>2, <2>3 DEF deletes
  <2>4. CASE \E d \in Deletion :
               /\ deleting[d] = "deleteOne"
               /\ \/ deleting' = [deleting EXCEPT ![d] = "deleted"] /\ old = {target[d]}
                  \/ deleting' = [deleting EXCEPT ![d] = "failed"]
               /\ UNCHANGED <<caller, target>>
    BY <2>2, <2>4 DEF TypeOK
  <2> QED
    BY <2>1, <2>3, <2>4
<1>7. CASE Tick \/ UNCHANGED vars
  BY <1>3, <1>7 DEF Tick, vars, store, saves
<1> QED
  BY <1>1, <1>2, <1>4, <1>5, <1>6, <1>7, Steps

LEMMA DeleteInvariant == Spec => []DeleteInv
<1>1. Init => DeleteInv
  BY DEF Init, DeleteInv, DeletedStaysDeleted
<1>2. TypeOK /\ DropInv /\ DeleteInv /\ [Next]_vars => DeleteInv'
  BY DeleteStep
<1> QED
  BY <1>1, <1>2, DropInvariant, InboxTypeCorrect, PTL DEF Spec

\* What a delete call has deleted never comes back: the save that could still
\* have stored it had ended before the call found it.
THEOREM DeletedStaysCorrect == Spec => []DeletedStaysDeleted
<1>1. DeleteInv => DeletedStaysDeleted
  BY DEF DeleteInv
<1> QED
  BY <1>1, DeleteInvariant, PTL

\* Only a delete call of its own user, or the deleteMany of its Notification,
\* takes a record away.
THEOREM OnlyOwnersCorrect == Spec => OnlyOwnersDelete
<1> DEFINE Allowed ==
      \A r \in records \ records' :
        \/ dropRecords[r[2]] = "pending" /\ dropRecords'[r[2]] # "pending"
        \/ \E d \in Deletion : /\ target[d] = r /\ caller[d] = r[1]
                               /\ deleting[d] = "deleteOne"
                               /\ deleting'[d] # "deleteOne"
<1>1. ASSUME TypeOK, DeleteInv, [Next]_vars PROVE [Allowed]_vars
  <2>1. CASE Removes
    <3>1. PICK old \in SUBSET Record :
            /\ Deleted(old)
            /\ \/ \E d \in Deletion :
                    /\ deleting[d] = "deleteOne" /\ old \subseteq {target[d]}
                    /\ \/ deleting' = [deleting EXCEPT ![d] = "deleted"]
                       \/ deleting' = [deleting EXCEPT ![d] = "failed"]
               \/ \E s \in Save :
                    /\ dropRecords[s] = "pending" /\ old \subseteq {r \in records : r[2] = s}
                    /\ \/ dropRecords' = [dropRecords EXCEPT ![s] = "done"]
                       \/ dropRecords' = [dropRecords EXCEPT ![s] = "failed"]
      BY <2>1 DEF Removes
    <3>2. records \ records' \subseteq old
      BY <3>1 DEF Deleted
    <3>3. CASE \E d \in Deletion :
                 /\ deleting[d] = "deleteOne" /\ old \subseteq {target[d]}
                 /\ \/ deleting' = [deleting EXCEPT ![d] = "deleted"]
                    \/ deleting' = [deleting EXCEPT ![d] = "failed"]
      BY <1>1, <3>2, <3>3 DEF TypeOK, DeleteInv
    <3>4. CASE \E s \in Save :
                 /\ dropRecords[s] = "pending" /\ old \subseteq {r \in records : r[2] = s}
                 /\ \/ dropRecords' = [dropRecords EXCEPT ![s] = "done"]
                    \/ dropRecords' = [dropRecords EXCEPT ![s] = "failed"]
      BY <1>1, <3>2, <3>4 DEF TypeOK
    <3> QED
      BY <3>1, <3>3, <3>4
  <2>2. CASE records \subseteq records'
    BY <2>2
  <2>3. ASSUME NEW s \in Save, Stores(s) PROVE records \subseteq records'
    BY <2>3 DEF Stores, Inserted
  <2>4. ASSUME NEW c \in Listing, FindPage(c) \/ Answers(c) \/ Marks(c)
        PROVE  records \subseteq records'
    BY <2>4 DEF FindPage, Answers, Proceed, Marks, store
  <2> QED
    BY <1>1, <2>1, <2>2, <2>3, <2>4, Steps, Quiet
<1>2. TypeOK /\ DeleteInv /\ [Next]_vars => [Allowed]_vars
  BY <1>1
<1> QED
  BY <1>2, DeleteInvariant, InboxTypeCorrect, PTL DEF Spec, OnlyOwnersDelete
-----------------------------------------------------------------------------
(* What a total counts.                                                    *)

\* The records of the page, and those before it, are there or gone.
TotalInv ==
  /\ \A c \in Listing : listing[c] # "answered" => total[c] = 0
  /\ \A c \in Listing : Open(c) =>
       skip[c] + Cardinality(found[c]) <= Cardinality(RecordsOf(reader[c])) + gone[c]
  /\ TotalCoversPage

\* The cardinalities that the invariant adds up are numbers.
LEMMA Sizes ==
  ASSUME TypeOK, NEW c \in Listing
  PROVE  /\ skip[c] \in Nat /\ total[c] \in Nat /\ gone[c] \in Nat
         /\ RecordsOf(reader[c]) \in SUBSET Record
         /\ Cardinality(found[c]) \in Nat
         /\ Cardinality(RecordsOf(reader[c])) \in Nat
<1>1. RecordsOf(reader[c]) \in SUBSET Record /\ found[c] \in SUBSET Record
  BY DEF TypeOK, RecordsOf
<1>2. skip[c] \in Nat /\ total[c] \in Nat /\ gone[c] \in Nat
  BY SkipsAssumption DEF TypeOK
<1> QED
  BY <1>1, <1>2, RecordSets

\* A page that is not empty has skip records before it.
LEMMA PageFits ==
  ASSUME TypeOK, NEW c \in Listing, NEW page \in SUBSET RecordsOf(reader[c]),
         IsPage(reader[c], skip[c], page), page # {}
  PROVE  skip[c] + Cardinality(page) <= Cardinality(RecordsOf(reader[c]))
<1>1. PICK before \in SUBSET RecordsOf(reader[c]) :
        before \cap page = {} /\ Cardinality(before) = skip[c]
  BY DEF IsPage
<1>2. RecordsOf(reader[c]) \in SUBSET Record
  BY Sizes
<1>3. Cardinality(before) + Cardinality(page) <= Cardinality(RecordsOf(reader[c]))
  BY <1>1, <1>2, DisjointSets
<1> QED
  BY <1>1, <1>3

LEMMA TotalStep ==
  ASSUME TypeOK, TypeOK', TotalInv, [Next]_vars
  PROVE  TotalInv'
<1> USE DEF TotalInv, TotalCoversPage
<1>1. CASE \E s \in Save : Stores(s)
  <2>1. PICK s, new : s \in Save /\ Inserted(s, new)
    BY <1>1 DEF Stores
  <2>2. records \subseteq records' /\ gone' = gone /\ UNCHANGED listings
    BY <2>1 DEF Inserted
  <2>3. ASSUME NEW c \in Listing
        PROVE  Cardinality(RecordsOf(reader[c])) <= Cardinality(RecordsOf(reader[c])')
    <3>1. RecordsOf(reader[c]) \subseteq RecordsOf(reader[c])'
      BY <2>2 DEF RecordsOf, listings
    <3>2. RecordsOf(reader[c])' \in SUBSET Record
      BY DEF TypeOK, RecordsOf
    <3> QED
      BY <3>1, <3>2, RecordSets, FS_Subset
  <2>4. ASSUME NEW c \in Listing PROVE Cardinality(RecordsOf(reader[c])') \in Nat
    <3>1. RecordsOf(reader[c])' \in SUBSET Record
      BY DEF TypeOK, RecordsOf
    <3> QED
      BY <3>1, RecordSets
  <2> QED
    BY <2>2, <2>3, <2>4, Sizes DEF listings, Open
<1>2. CASE \E c \in Listing : FindPage(c)
  <2>1. PICK c \in Listing : FindPage(c)
    BY <1>2
  <2>2. PICK page \in SUBSET RecordsOf(reader[c]) :
          /\ IsPage(reader[c], skip[c], page)
          /\ found' = [found EXCEPT ![c] = page]
          /\ listing' = [listing EXCEPT ![c] = IF page = {} THEN "answered" ELSE "populate"]
    BY <2>1 DEF FindPage
  <2>3. /\ listing[c] = "idle"
        /\ UNCHANGED <<records, reader, skip, total, gone>>
    BY <2>1 DEF FindPage, store
  <2>4. \A u : RecordsOf(u)' = RecordsOf(u)
    BY <2>3 DEF RecordsOf
  <2>5. total[c] = 0
    BY <2>3
  <2>6. page # {} => skip[c] + Cardinality(page) <= Cardinality(RecordsOf(reader[c])) + gone[c]
    <3>1. Cardinality(page) \in Nat
      BY RecordSets, Sizes
    <3> QED
      BY <2>2, <3>1, PageFits, Sizes
  <2> QED
    BY <2>2, <2>3, <2>4, <2>5, <2>6 DEF Open, TypeOK
<1>3. CASE \E c \in Listing : Answers(c)
  <2>1. PICK c \in Listing, next \in {"images", "total", "answered", "failed"} :
          /\ Open(c) /\ Proceed(c, next)
          /\ \/ total' = total
             \/ /\ next = "answered"
                /\ total' = [total EXCEPT ![c] = Cardinality(RecordsOf(reader[c]))]
    BY <1>3 DEF Answers
  <2>2. /\ listing' = [listing EXCEPT ![c] = next]
        /\ UNCHANGED <<records, reader, skip, found, gone>>
    BY <2>1 DEF Proceed, store
  <2>3. \A u : RecordsOf(u)' = RecordsOf(u)
    BY <2>2 DEF RecordsOf
  <2>4. total[c] = 0
    BY <2>1 DEF Open
  <2> QED
    BY <2>1, <2>2, <2>3, <2>4 DEF Open, TypeOK
<1>4. CASE \E c \in Listing : Marks(c)
  BY <1>4 DEF Marks, RecordsOf, Open, past
<1>5. CASE Removes
  <2>1. PICK old \in SUBSET Record : Deleted(old)
    BY <1>5 DEF Removes
  <2>2. /\ records' = records \ old
        /\ gone' = [c \in Listing |-> IF Open(c)
             THEN gone[c] + Cardinality(old \cap RecordsOf(reader[c])) ELSE gone[c]]
        /\ UNCHANGED listings
    BY <2>1 DEF Deleted
  <2>3. ASSUME NEW c \in Listing
        PROVE  /\ Cardinality(RecordsOf(reader[c])) <=
                    Cardinality(RecordsOf(reader[c])')
                      + Cardinality(old \cap RecordsOf(reader[c]))
               /\ Cardinality(RecordsOf(reader[c])') \in Nat
               /\ Cardinality(old \cap RecordsOf(reader[c])) \in Nat
    <3>1. RecordsOf(reader[c])' = RecordsOf(reader[c]) \ old
      BY <2>2 DEF RecordsOf, listings
    <3> QED
      BY <3>1, RestOfSet, Sizes
  <2>4. ASSUME NEW c \in Listing, Open(c)
        PROVE  skip[c] + Cardinality(found[c]) <=
                 Cardinality(RecordsOf(reader[c])') + gone'[c]
    <3>1. gone'[c] = gone[c] + Cardinality(old \cap RecordsOf(reader[c]))
      BY <2>2, <2>4
    <3> QED
      BY <2>3, <2>4, <3>1, Sizes
  <2>5. \A c \in Listing : ~Open(c) => gone'[c] = gone[c]
    BY <2>2
  <2> QED
    BY <2>2, <2>4, <2>5 DEF listings, Open
<1>6. CASE UNCHANGED <<records, readed, listings, past>>
  BY <1>6 DEF listings, past, RecordsOf, Open
<1> QED
  BY <1>1, <1>2, <1>3, <1>4, <1>5, <1>6, Steps, Quiet

\* A total covers the page and what comes before it, but for what the reader
\* lost while the call ran.
THEOREM TotalCorrect == Spec => []TotalCoversPage
<1>1. Init => TotalInv
  BY DEF Init, TotalInv, TotalCoversPage, Open
<1>2. TypeOK /\ TypeOK' /\ TotalInv /\ [Next]_vars => TotalInv'
  BY TotalStep
<1>3. TotalInv => TotalCoversPage
  BY DEF TotalInv
<1> QED
  BY <1>1, <1>2, <1>3, InboxTypeCorrect, PTL DEF Spec

-----------------------------------------------------------------------------
(* The calls implement Mailbox.                                            *)

\* Every step is a write of the mailbox or none: the end of a save stores, an
\* updateMany marks, a delete removes.
LEMMA MailboxStep ==
  ASSUME TypeOK, DropInv, [Next]_vars
  PROVE  [Promise!Next]_(Promise!vars)
<1>1. ASSUME NEW s \in Save, Stores(s) PROVE Promise!Next
  <2>1. PICK users \in SUBSET audience[s] : Inserted(s, users \X {s})
    BY <1>1 DEF Stores
  <2>2. users \in SUBSET User
    BY DEF TypeOK
  <2>3. s \notin Stored /\ Stored' = Stored \cup {s}
    BY <1>1 DEF Stores, Stored, TypeOK
  <2>4. records' = records \cup (users \X {s}) /\ readed' = readed
    BY <2>1 DEF Inserted
  <2>5. readed \cap (users \X {s}) = {}
    <3>1. \A r \in readed : saving[r[2]] \in {"done", "failed"}
      BY DEF TypeOK, DropInv
    <3>2. \A r \in users \X {s} : r[2] = s
      OBVIOUS
    <3> QED
      BY <1>1, <3>1, <3>2 DEF Stores
  <2>6. Promise!Store(s, users)
    BY <2>3, <2>4, <2>5 DEF Promise!Store
  <2> QED
    BY <2>2, <2>6 DEF Promise!Next
<1>2. ASSUME NEW s \in Save, SaveFails(s), saving[s] # "records" PROVE Promise!Next
  <2>1. s \notin Stored /\ Stored' = Stored \cup {s}
    BY <1>2 DEF SaveFails, Stored, TypeOK
  <2>2. UNCHANGED <<records, readed>>
    BY <1>2, Quiet DEF Prepares
  <2>3. Promise!Store(s, {})
    BY <2>1, <2>2 DEF Promise!Store
  <2>4. {} \in SUBSET User
    OBVIOUS
  <2> QED
    BY <2>3, <2>4 DEF Promise!Next
<1>3. ASSUME NEW c \in Listing, Marks(c) PROVE Promise!Next
  <2>1. PICK some \in SUBSET Unread(reader[c]) : readed' = readed \cup some
    BY <1>3 DEF Marks
  <2>2. records' = records /\ Stored' = Stored
    BY <1>3 DEF Marks, saves, Stored
  <2>3. some \in SUBSET {r \in records \ readed : r[1] = reader[c]}
    BY DEF Unread, RecordsOf
  <2>4. Promise!Mark(reader[c])
    BY <2>1, <2>2, <2>3 DEF Promise!Mark
  <2>5. reader[c] \in User
    BY DEF TypeOK
  <2> QED
    BY <2>4, <2>5 DEF Promise!Next
<1>4. CASE Removes
  <2>1. PICK old \in SUBSET Record :
          /\ Deleted(old)
          /\ \/ \E d \in Deletion : old \subseteq {target[d]}
             \/ \E s \in Save :
                  dropRecords[s] = "pending" /\ old \subseteq {r \in records : r[2] = s}
    BY <1>4 DEF Removes
  <2>2. Promise!Remove(old)
    BY <2>1 DEF Deleted, saves, Stored, Promise!Remove
  <2>3. CASE old = {}
    BY <2>2, <2>3 DEF Promise!Remove, Promise!vars
  <2>4. CASE old # {} /\ \E d \in Deletion : old \subseteq {target[d]}
    <3>1. PICK d \in Deletion : old = {target[d]}
      BY <2>4
    <3>2. PICK u \in User, s \in Save : target[d] = <<u, s>>
      BY DEF TypeOK, Record
    <3> QED
      BY <2>2, <3>1, <3>2 DEF Promise!Next
  <2>5. CASE \E s \in Save :
               dropRecords[s] = "pending" /\ old \subseteq {r \in records : r[2] = s}
    <3>1. PICK s \in Save : dropRecords[s] = "pending" /\ old \subseteq {r \in records : r[2] = s}
      BY <2>5
    <3> DEFINE users == {u \in User : <<u, s>> \in old}
    <3>2. old = users \X {s}
      <4>1. \A r \in old : r \in User \X Save /\ r[2] = s
        BY <3>1 DEF Record
      <4> QED
        BY <4>1
    <3>3. s \in Removed
      BY <3>1 DEF DropInv
    <3>4. users \in SUBSET User
      OBVIOUS
    <3> HIDE DEF users
    <3> QED
      BY <2>2, <3>2, <3>3, <3>4 DEF Promise!Next
  <2> QED
    BY <2>1, <2>3, <2>4, <2>5
<1>5. ASSUME UNCHANGED <<records, readed, saving>> PROVE UNCHANGED Promise!vars
  BY <1>5 DEF Promise!vars, Stored
<1>6. ASSUME NEW s \in Save, Prepares(s), ~SaveFails(s)
      PROVE  [Promise!Next]_(Promise!vars)
  <2>1. CASE (\E users \in SUBSET User : GetUsers(s, users)) \/ StoreNotification(s)
    <3>1. Stored' = Stored
      BY <2>1 DEF GetUsers, StoreNotification, Stored, TypeOK
    <3> QED
      BY <1>6, <3>1, Quiet DEF Promise!vars
  <2>2. CASE DeleteAll(s) \/ DropNotification(s)
    BY <1>5, <2>2 DEF DeleteAll, DropNotification, store, saves
  <2>3. CASE DropFails(s) /\ dropNotification[s] = "pending" /\ dropRecords' = dropRecords
    <3>1. saving' = saving
      BY <2>3 DEF DropFails, Deleted, saves
    <3> QED
      BY <1>5, <1>6, <3>1, Quiet
  <2> QED
    BY <1>6, <2>1, <2>2, <2>3 DEF Prepares
<1>7. ASSUME NEW s \in Save, Prepares(s), SaveFails(s)
      PROVE  [Promise!Next]_(Promise!vars)
  <2>1. CASE saving[s] # "records"
    BY <1>2, <1>7, <2>1
  <2>2. CASE saving[s] = "records"
    <3>1. Stores(s)
      BY <1>7, <2>2 DEF SaveFails, Stores
    <3> QED
      BY <1>1, <3>1
  <2> QED
    BY <2>1, <2>2
<1>8. CASE \E c \in Listing : FindPage(c) \/ Answers(c)
  BY <1>5, <1>8 DEF FindPage, Answers, Proceed, store, saves
<1>9. CASE (\E d \in Deletion : FindRecord(d)) \/ Tick \/ UNCHANGED vars
  BY <1>5, <1>9 DEF FindRecord, Tick, vars, store, saves
<1> QED
  BY <1>1, <1>3, <1>4, <1>6, <1>7, <1>8, <1>9, Steps

\* However the awaits of the calls fall, and whatever fails, the collections of
\* records are a mailbox.
THEOREM MailboxImplemented == Spec => ImplementsMailbox
<1>1. Init => Promise!Init
  BY DEF Init, Promise!Init, Stored
<1>2. TypeOK /\ DropInv /\ [Next]_vars => [Promise!Next]_(Promise!vars)
  BY MailboxStep
<1> QED
  BY <1>1, <1>2, InboxTypeCorrect, DropInvariant, PTL DEF Spec, ImplementsMailbox, Promise!Spec
=============================================================================
