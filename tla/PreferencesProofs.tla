--------------------------- MODULE PreferencesProofs ---------------------------
(***************************************************************************)
(* For every set of users, changes and values: what an acknowledged change *)
(* is worth, when documents multiply, and that the calls implement         *)
(* PreferenceStore in spite of it.                                         *)
(***************************************************************************)
EXTENDS Preferences, SequenceTheorems, TLAPS

-----------------------------------------------------------------------------
(* What a call knows about the others.                                     *)

\* Two calls of one user that run together have both been noted.
Noted ==
  \A c, d \in Change :
    c # d /\ Running(c) /\ Running(d) /\ by[c] = by[d] => c \in overlapped

\* A call that met no other saves the first document.
Fresh ==
  \A c \in Change :
    pc[c] = "save" /\ c \notin overlapped => docs[by[c]] = <<>>

\* A call updates a document that exists.
Found == \A c \in Change : pc[c] = "update" => docs[by[c]] # <<>>

\* After a quiet change nothing of its user runs until the next one begins.
Quiet ==
  \A c, d \in Change :
    /\ pc[c] = "done" /\ c \notin overlapped /\ latest[by[c]] = {c}
    /\ by[d] = by[c]
    => ~Running(d)

PreferencesInv ==
  /\ TypeOK
  /\ Noted /\ Fresh /\ Found /\ Quiet
  /\ QuietChangeHolds
  /\ DuplicatesExplained

-----------------------------------------------------------------------------
(* The sequences of documents.                                             *)

\* A save appends: the first document changes only if it was the first.
LEMMA AppendDoc ==
  ASSUME NEW s \in Seq(Value), NEW v \in Value
  PROVE  /\ Append(s, v) \in Seq(Value)
         /\ Append(s, v) # <<>>
         /\ Len(Append(s, v)) > 1 => s # <<>>
         /\ s = <<>> => Head(Append(s, v)) = v
         /\ s # <<>> => Head(Append(s, v)) = Head(s)
<1>1. Append(s, v) \in Seq(Value) /\ Append(s, v) # <<>>
  BY AppendProperties
<1>2. Len(Append(s, v)) = Len(s) + 1 /\ Len(s) \in Nat
  BY AppendProperties, LenProperties
<1>3. Head(Append(s, v)) = Append(s, v)[1]
  BY <1>1, HeadTailProperties
<1>4. CASE s = <<>>
  <2>1. Len(s) = 0
    BY <1>4, EmptySeq
  <2> QED
    BY <1>1, <1>2, <1>3, <1>4, <2>1, AppendProperties
<1>5. CASE s # <<>>
  <2>1. Len(s) > 0 /\ Head(s) = s[1]
    BY <1>2, <1>5, EmptySeq, HeadTailProperties
  <2>2. Append(s, v)[1] = s[1]
    BY <1>2, <2>1, AppendProperties
  <2> QED
    BY <1>1, <1>3, <1>5, <2>1, <2>2
<1> QED
  BY <1>4, <1>5

\* An update replaces the first of the documents.
LEMMA ReplaceDoc ==
  ASSUME NEW s \in Seq(Value), s # <<>>, NEW v \in Value
  PROVE  /\ <<v>> \o Tail(s) \in Seq(Value)
         /\ <<v>> \o Tail(s) # <<>>
         /\ Len(<<v>> \o Tail(s)) = Len(s)
         /\ Head(<<v>> \o Tail(s)) = v
<1>1. /\ Tail(s) \in Seq(Value)
      /\ Len(Tail(s)) = Len(s) - 1
      /\ Len(s) \in Nat
  BY HeadTailProperties, LenProperties
<1>2. <<v>> \in Seq(Value) /\ Len(<<v>>) = 1 /\ <<v>>[1] = v
  BY SMT
<1>3. /\ <<v>> \o Tail(s) \in Seq(Value)
      /\ Len(<<v>> \o Tail(s)) = Len(s)
      /\ (<<v>> \o Tail(s))[1] = v
  BY <1>1, <1>2, ConcatProperties
<1>4. Len(s) > 0
  BY <1>1, EmptySeq
<1>5. <<v>> \o Tail(s) # <<>>
  BY <1>3, <1>4, EmptySeq
<1> QED
  BY <1>3, <1>5, HeadTailProperties

-----------------------------------------------------------------------------
(* The invariant is inductive.                                             *)

LEMMA InvInit == Init => PreferencesInv
<1> SUFFICES ASSUME Init PROVE PreferencesInv
  OBVIOUS
<1>1. TypeOK
  BY DEF Init, TypeOK
<1>2. Noted /\ Fresh /\ Found /\ Quiet
  BY DEF Init, Noted, Fresh, Found, Quiet, Running
<1>3. QuietChangeHolds
  BY DEF Init, QuietChangeHolds
<1>4. DuplicatesExplained
  <2>1. Len(<<>>) = 0
    OBVIOUS
  <2> QED
    BY <2>1 DEF Init, DuplicatesExplained
<1> QED
  BY <1>1, <1>2, <1>3, <1>4 DEF PreferencesInv

\* What Save and Update do to the documents, in terms of Preferences.
LEMMA Saved ==
  ASSUME TypeOK, NEW c \in Change, Save(c)
  PROVE  /\ docs' \in [User -> Seq(Value)]
         /\ docs'[by[c]] # <<>>
         /\ Len(docs'[by[c]]) > 1 => docs[by[c]] # <<>>
         /\ Preferences(by[c])' =
              IF docs[by[c]] = <<>> THEN wish[c] ELSE Preferences(by[c])
         /\ \A u \in User \ {by[c]} : docs'[u] = docs[u]
<1>1. by[c] \in User /\ wish[c] \in Value /\ docs[by[c]] \in Seq(Value)
  BY DEF TypeOK
<1>2. docs'[by[c]] = Append(docs[by[c]], wish[c]) /\ by' = by /\ wish' = wish
  BY <1>1 DEF TypeOK, Save, Ends
<1>3. \A u \in User \ {by[c]} : docs'[u] = docs[u]
  BY DEF TypeOK, Save
<1>4. docs' \in [User -> Seq(Value)]
  BY <1>1, AppendDoc DEF TypeOK, Save
<1>5. /\ docs'[by[c]] # <<>>
      /\ Len(docs'[by[c]]) > 1 => docs[by[c]] # <<>>
      /\ docs[by[c]] = <<>> => Head(docs'[by[c]]) = wish[c]
      /\ docs[by[c]] # <<>> => Head(docs'[by[c]]) = Head(docs[by[c]])
  BY <1>1, <1>2, AppendDoc
<1> QED
  BY <1>2, <1>3, <1>4, <1>5 DEF Preferences

LEMMA Updated ==
  ASSUME TypeOK, Found, NEW c \in Change, Update(c)
  PROVE  /\ docs' \in [User -> Seq(Value)]
         /\ docs[by[c]] # <<>> /\ docs'[by[c]] # <<>>
         /\ Len(docs'[by[c]]) = Len(docs[by[c]])
         /\ Preferences(by[c])' = wish[c]
         /\ \A u \in User \ {by[c]} : docs'[u] = docs[u]
<1>1. /\ by[c] \in User /\ wish[c] \in Value /\ docs[by[c]] \in Seq(Value)
      /\ docs[by[c]] # <<>>
  BY DEF TypeOK, Found, Update
<1>2. docs'[by[c]] = <<wish[c]>> \o Tail(docs[by[c]]) /\ by' = by
  BY <1>1 DEF TypeOK, Update, Ends
<1>3. \A u \in User \ {by[c]} : docs'[u] = docs[u]
  BY DEF TypeOK, Update
<1>4. docs' \in [User -> Seq(Value)]
  BY <1>1, ReplaceDoc DEF TypeOK, Update
<1>5. /\ docs'[by[c]] # <<>>
      /\ Len(docs'[by[c]]) = Len(docs[by[c]])
      /\ Head(docs'[by[c]]) = wish[c]
  BY <1>1, <1>2, ReplaceDoc
<1> QED
  BY <1>1, <1>2, <1>3, <1>4, <1>5 DEF Preferences

LEMMA TypeStep == TypeOK /\ Found /\ [Next]_vars => TypeOK'
<1> SUFFICES ASSUME TypeOK, Found, [Next]_vars PROVE TypeOK'
  OBVIOUS
<1>1. ASSUME NEW c \in Change, Begin(c) PROVE TypeOK'
  BY <1>1 DEF TypeOK, Begin, Running
<1>2. ASSUME NEW c \in Change, Find(c) PROVE TypeOK'
  BY <1>2 DEF TypeOK, Find
<1>3. ASSUME NEW c \in Change, Save(c) PROVE TypeOK'
  BY <1>3, Saved DEF TypeOK, Save, Ends
<1>4. ASSUME NEW c \in Change, Update(c) PROVE TypeOK'
  <2>1. docs' \in [User -> Seq(Value)]
    BY <1>4, Updated
  <2>2. Ends(c)
    BY <1>4 DEF Update
  <2> QED
    BY <2>1, <2>2 DEF TypeOK, Ends
<1>5. ASSUME NEW c \in Change, Fail(c) PROVE TypeOK'
  BY <1>5 DEF TypeOK, Fail
<1>6. CASE UNCHANGED vars
  BY <1>6 DEF TypeOK, vars
<1> QED
  BY <1>1, <1>2, <1>3, <1>4, <1>5, <1>6 DEF Next

\* Calls are noted when the later one begins.
LEMMA NotedStep == TypeOK /\ Noted /\ [Next]_vars => Noted'
<1> SUFFICES ASSUME TypeOK, Noted, [Next]_vars PROVE Noted'
  OBVIOUS
<1>1. ASSUME NEW c \in Change, Begin(c) PROVE Noted'
  <2>1. SUFFICES ASSUME NEW a \in Change, NEW d \in Change, a # d,
                        Running(a)', Running(d)', by[a] = by[d]
                 PROVE  a \in overlapped'
    BY <1>1 DEF Noted, Begin
  <2>2. \A x \in Change \ {c} : Running(x)' => Running(x)
    BY <1>1 DEF Begin, Running, TypeOK
  <2>3. overlapped \subseteq overlapped'
    BY <1>1 DEF Begin
  <2>4. CASE a # c /\ d # c
    BY <2>1, <2>2, <2>3, <2>4 DEF Noted
  <2>5. CASE a = c \/ d = c
    <3>1. PICK x \in {a, d} : x # c /\ by[x] = by[c]
      BY <2>1, <2>5
    <3>2. x \in {y \in Change : Running(y) /\ by[y] = by[c]}
      BY <2>1, <2>2, <3>1
    <3>3. {c, x} \subseteq overlapped'
      BY <1>1, <3>2 DEF Begin
    <3> QED
      BY <2>1, <2>5, <3>1, <3>3
  <2> QED
    BY <2>4, <2>5
<1>2. ASSUME NEW c \in Change, Find(c) \/ Save(c) \/ Update(c) \/ Fail(c)
      PROVE  Noted'
  <2>1. by' = by /\ overlapped' = overlapped
    BY <1>2 DEF Find, Save, Update, Fail, Ends
  <2>2. \A x \in Change : Running(x)' => Running(x)
    BY <1>2 DEF Find, Save, Update, Fail, Ends, Running, TypeOK
  <2> QED
    BY <2>1, <2>2 DEF Noted
<1>3. CASE UNCHANGED vars
  BY <1>3 DEF Noted, Running, vars
<1> QED
  BY <1>1, <1>2, <1>3 DEF Next

\* A call without company finds what it needs when it writes.
LEMMA FreshStep == PreferencesInv /\ [Next]_vars => Fresh' /\ Found'
<1> SUFFICES ASSUME PreferencesInv, [Next]_vars PROVE Fresh' /\ Found'
  OBVIOUS
<1> USE DEF PreferencesInv
<1>1. ASSUME NEW c \in Change, Begin(c) PROVE Fresh' /\ Found'
  <2>1. by' = by /\ docs' = docs /\ overlapped \subseteq overlapped'
    BY <1>1 DEF Begin
  <2>2. \A d \in Change : pc'[d] \in {"save", "update"} => pc'[d] = pc[d]
    BY <1>1 DEF Begin, TypeOK
  <2> QED
    BY <2>1, <2>2 DEF Fresh, Found
<1>2. ASSUME NEW c \in Change, Find(c) PROVE Fresh' /\ Found'
  BY <1>2 DEF Find, Fresh, Found, TypeOK
<1>3. ASSUME NEW c \in Change, Save(c) PROVE Fresh' /\ Found'
  <2>1. by' = by /\ overlapped' = overlapped
    BY <1>3 DEF Save, Ends
  <2>2. \A d \in Change \ {c} : pc'[d] = pc[d]
    BY <1>3 DEF Save, Ends, TypeOK
  <2>3. pc[c] = "save" /\ pc'[c] \in {"done", "failed"}
    BY <1>3 DEF Save, Ends, TypeOK
  <2>4. \A u \in User : docs[u] # <<>> => docs'[u] # <<>>
    BY <1>3, Saved
  <2>5. Found'
    BY <2>1, <2>2, <2>3, <2>4 DEF Found, TypeOK
  <2>6. ASSUME NEW d \in Change, pc'[d] = "save", d \notin overlapped
        PROVE  docs'[by[d]] = <<>>
    <3>1. d # c /\ pc[d] = "save"
      BY <2>2, <2>3, <2>6
    <3>2. by[d] # by[c]
      BY <2>3, <2>6, <3>1 DEF Noted, Running
    <3>3. docs'[by[d]] = docs[by[d]]
      BY <1>3, <3>2, Saved DEF TypeOK
    <3> QED
      BY <2>6, <3>1, <3>3 DEF Fresh
  <2> QED
    BY <2>1, <2>5, <2>6 DEF Fresh
<1>4. ASSUME NEW c \in Change, Update(c) PROVE Fresh' /\ Found'
  <2>1. by' = by /\ overlapped' = overlapped
    BY <1>4 DEF Update, Ends
  <2>2. \A d \in Change \ {c} : pc'[d] = pc[d]
    BY <1>4 DEF Update, Ends, TypeOK
  <2>3. pc'[c] \in {"done", "failed"}
    BY <1>4 DEF Update, Ends, TypeOK
  <2>4. \A u \in User : docs'[u] = <<>> <=> docs[u] = <<>>
    BY <1>4, Updated
  <2> QED
    BY <2>1, <2>2, <2>3, <2>4 DEF Fresh, Found, TypeOK
<1>5. ASSUME NEW c \in Change, Fail(c) PROVE Fresh' /\ Found'
  BY <1>5 DEF Fail, Fresh, Found, TypeOK
<1>6. CASE UNCHANGED vars
  BY <1>6 DEF vars, Fresh, Found
<1> QED
  BY <1>1, <1>2, <1>3, <1>4, <1>5, <1>6 DEF Next

\* A second document is stored by a call that had company.
LEMMA DuplicatesStep == PreferencesInv /\ [Next]_vars => DuplicatesExplained'
<1> SUFFICES ASSUME PreferencesInv, [Next]_vars PROVE DuplicatesExplained'
  OBVIOUS
<1> USE DEF PreferencesInv
<1>1. by' = by /\ overlapped \subseteq overlapped'
  BY DEF Next, vars, Begin, Find, Save, Update, Fail, Ends
<1>2. ASSUME NEW u \in User, Len(docs'[u]) > 1
      PROVE  Len(docs[u]) > 1 \/ \E c \in overlapped : by[c] = u
  <2>1. CASE docs' = docs
    BY <1>2, <2>1
  <2>2. ASSUME NEW c \in Change, Update(c)
        PROVE  Len(docs[u]) > 1
    BY <1>2, <2>2, Updated DEF TypeOK
  <2>3. ASSUME NEW c \in Change, Save(c)
        PROVE  Len(docs[u]) > 1 \/ \E d \in overlapped : by[d] = u
    <3>1. CASE by[c] # u
      BY <1>2, <2>3, <3>1, Saved
    <3>2. CASE by[c] = u
      <4>1. docs[by[c]] # <<>>
        BY <1>2, <2>3, <3>2, Saved
      <4>2. c \in overlapped
        BY <2>3, <4>1 DEF Fresh, Save
      <4> QED
        BY <3>2, <4>2
    <3> QED
      BY <3>1, <3>2
  <2> QED
    BY <2>1, <2>2, <2>3 DEF Next, vars, Begin, Find, Fail
<1> QED
  BY <1>1, <1>2 DEF DuplicatesExplained

\* A quiet change ends alone, and the next one to run begins after it.
LEMMA QuietStep == PreferencesInv /\ [Next]_vars => Quiet' /\ QuietChangeHolds'
<1> SUFFICES ASSUME PreferencesInv, [Next]_vars PROVE Quiet' /\ QuietChangeHolds'
  OBVIOUS
<1> USE DEF PreferencesInv
<1> DEFINE QuietCall(c) ==
      pc[c] = "done" /\ c \notin overlapped /\ latest[by[c]] = {c}
<1>1. SUFFICES ASSUME NEW a \in Change, pc'[a] = "done", a \notin overlapped',
                      latest'[by'[a]] = {a}
               PROVE  /\ \A d \in Change : by'[d] = by'[a] => ~Running(d)'
                      /\ Preferences(by[a])' = wish'[a]
  BY DEF Quiet, QuietChangeHolds, Next, vars, Begin, Find, Save, Update, Fail, Ends
<1>2. ASSUME NEW c \in Change, Begin(c)
      PROVE  /\ \A d \in Change : by'[d] = by'[a] => ~Running(d)'
             /\ Preferences(by[a])' = wish'[a]
  <2>1. a # c /\ by' = by /\ wish' = wish /\ docs' = docs
    BY <1>1, <1>2 DEF Begin, TypeOK
  <2>2. by[c] # by[a]
    BY <1>1, <1>2, <2>1 DEF Begin, TypeOK
  <2>3. QuietCall(a)
    BY <1>1, <1>2, <2>1, <2>2 DEF Begin, TypeOK
  <2>4. \A d \in Change \ {c} : pc'[d] = pc[d]
    BY <1>2 DEF Begin, TypeOK
  <2>5. \A d \in Change : by[d] = by[a] => ~Running(d)
    BY <2>3 DEF Quiet
  <2>6. Preferences(by[a]) = wish[a]
    BY <2>3 DEF QuietChangeHolds
  <2> QED
    BY <2>1, <2>2, <2>4, <2>5, <2>6 DEF Running, Preferences
<1>3. ASSUME NEW c \in Change, Find(c) \/ Fail(c)
      PROVE  /\ \A d \in Change : by'[d] = by'[a] => ~Running(d)'
             /\ Preferences(by[a])' = wish'[a]
  <2>1. by' = by /\ wish' = wish /\ docs' = docs /\ QuietCall(a)
    BY <1>1, <1>3 DEF Find, Fail, TypeOK
  <2>2. \A d \in Change : Running(d)' => Running(d)
    BY <1>3 DEF Find, Fail, Running, TypeOK
  <2> QED
    BY <2>1, <2>2 DEF Quiet, QuietChangeHolds, Preferences
<1>4. ASSUME NEW c \in Change, Save(c) \/ Update(c)
      PROVE  /\ \A d \in Change : by'[d] = by'[a] => ~Running(d)'
             /\ Preferences(by[a])' = wish'[a]
  <2>1. /\ by' = by /\ wish' = wish /\ latest' = latest /\ overlapped' = overlapped
        /\ Running(c) /\ ~Running(c)'
        /\ \A d \in Change \ {c} : pc'[d] = pc[d]
    BY <1>4 DEF Save, Update, Ends, Running, TypeOK
  <2>2. CASE a = c
    <3>1. \A d \in Change \ {c} : by[d] = by[c] => ~Running(d)
      BY <1>1, <2>1, <2>2 DEF Noted
    <3>2. Preferences(by[c])' = wish[c]
      BY <1>1, <1>4, <2>1, <2>2, Saved, Updated DEF Fresh, Save
    <3> QED
      BY <2>1, <2>2, <3>1, <3>2 DEF Running
  <2>3. CASE a # c
    <3>1. QuietCall(a)
      BY <1>1, <2>1, <2>3
    <3>2. by[c] # by[a]
      BY <2>1, <3>1 DEF Quiet
    <3>3. docs'[by[a]] = docs[by[a]]
      BY <1>4, <3>2, Saved, Updated DEF TypeOK
    <3>4. Preferences(by[a])' = wish[a]
      BY <2>1, <3>1, <3>3 DEF QuietChangeHolds, Preferences
    <3>5. \A d \in Change : by[d] = by[a] => ~Running(d)'
      BY <2>1, <3>1 DEF Quiet, Running
    <3> QED
      BY <2>1, <3>4, <3>5
  <2> QED
    BY <2>2, <2>3
<1>5. CASE UNCHANGED vars
  BY <1>1, <1>5 DEF vars, Quiet, QuietChangeHolds, Running, Preferences
<1> QED
  BY <1>2, <1>3, <1>4, <1>5 DEF Next

LEMMA PreferencesInvariant == Spec => []PreferencesInv
<1>1. PreferencesInv /\ [Next]_vars => PreferencesInv'
  BY TypeStep, NotedStep, FreshStep, QuietStep, DuplicatesStep DEF PreferencesInv
<1> QED
  BY <1>1, InvInit, PTL DEF Spec

\* Documents and calls keep their types, however the calls interleave.
THEOREM TypeCorrect == Spec => []TypeOK
<1>1. PreferencesInv => TypeOK
  BY DEF PreferencesInv
<1> QED
  BY <1>1, PreferencesInvariant, PTL

\* An acknowledged change that met no other of its user is what
\* getPreferences and the fan-out see until the next change begins.
THEOREM QuietChangeCorrect == Spec => []QuietChangeHolds
<1>1. PreferencesInv => QuietChangeHolds
  BY DEF PreferencesInv
<1> QED
  BY <1>1, PreferencesInvariant, PTL

\* Only overlapping calls of changePreferences leave a second document.
THEOREM DuplicatesCorrect == Spec => []DuplicatesExplained
<1>1. PreferencesInv => DuplicatesExplained
  BY DEF PreferencesInv
<1> QED
  BY <1>1, PreferencesInvariant, PTL

-----------------------------------------------------------------------------
(* The calls implement the store.                                          *)

\* The preferences as the store sees them.
Values == [u \in User |-> Preferences(u)]

\* Steps that store nothing leave the values alone.
LEMMA SameValues == ASSUME docs' = docs PROVE Values' = Values
BY DEF Values, Preferences

LEMMA StoreInit == Init => Store!Init
BY DEF Init, Store!Init, Status, Preferences

\* A save of the first document takes effect together with, and after, those
\* that are going to save behind it; a later one took effect before.
LEMMA SaveStores ==
  ASSUME PreferencesInv, NEW c \in Change, Save(c)
  PROVE  [Store!Next]_(Store!vars)
<1> USE DEF PreferencesInv
<1>1. /\ by' = by /\ wish' = wish /\ pc[c] = "save"
      /\ by \in [Change -> User]
      /\ \A d \in Change \ {c} : pc'[d] = pc[d]
  BY DEF Save, Ends, TypeOK
<1>2. PICK answer \in {"done", "failed"} : pc'[c] = answer
  BY DEF Save, Ends, TypeOK
<1>3. \A d \in Change : by[d] # by[c] => docs'[by[d]] = docs[by[d]]
  BY <1>1, Saved
<1>4. docs'[by[c]] # <<>>
  BY Saved
<1>5. \A d \in Change \ {c} :
        Status'[d] = IF /\ pc[d] = "save" /\ by[d] = by[c]
                       THEN "applied" ELSE Status[d]
  BY <1>1, <1>3, <1>4 DEF Status
<1>6. Status'[c] = answer
  BY <1>2 DEF Status
<1>7. \A u \in User \ {by[c]} : Values'[u] = Values[u]
  BY Saved DEF Values, Preferences
<1>8. CASE docs[by[c]] = <<>>
  <2> DEFINE together == {d \in Change : pc[d] = "save" /\ by[d] = by[c]}
  <2>1. \A d \in together : Status[d] = "waiting" /\ by[d] = by[c]
    BY <1>8 DEF Status
  <2>2. Values'[by[c]] = wish[c]
    BY <1>1, <1>8, Saved DEF Values
  <2>3. Values' = [Values EXCEPT ![by[c]] = wish[c]]
    BY <1>7, <2>2 DEF Values
  <2>4. Status' = [d \in Change |-> IF d = c THEN answer
                                   ELSE IF d \in together THEN "applied" ELSE Status[d]]
    BY <1>5, <1>6 DEF Status
  <2>5. Store!Write(together, c, answer)
    BY <1>1, <2>1, <2>3, <2>4 DEF Store!Write, Values
  <2> QED
    BY <1>2, <2>5 DEF Store!Next
<1>9. CASE docs[by[c]] # <<>>
  <2>1. Status[c] = "applied"
    BY <1>1, <1>9 DEF Status
  <2>2. \A d \in Change \ {c} : Status'[d] = Status[d]
    BY <1>5, <1>9 DEF Status
  <2>3. Status' = [Status EXCEPT ![c] = answer]
    BY <1>6, <2>2 DEF Status
  <2>4. Values'[by[c]] = Values[by[c]]
    BY <1>1, <1>9, Saved DEF Values
  <2>5. Values' = Values
    BY <1>7, <2>4 DEF Values
  <2>6. Store!Answer(c, answer)
    BY <1>1, <2>1, <2>3, <2>5 DEF Store!Answer, Values
  <2> QED
    BY <1>2, <2>6 DEF Store!Next
<1> QED
  BY <1>8, <1>9

\* An update takes effect when it is answered.
LEMMA UpdateStores ==
  ASSUME PreferencesInv, NEW c \in Change, Update(c)
  PROVE  [Store!Next]_(Store!vars)
<1> USE DEF PreferencesInv
<1>1. /\ by' = by /\ wish' = wish /\ pc[c] = "update"
      /\ by \in [Change -> User]
      /\ \A d \in Change \ {c} : pc'[d] = pc[d]
  BY DEF Update, Ends, TypeOK
<1>2. PICK answer \in {"done", "failed"} : pc'[c] = answer
  BY DEF Update, Ends, TypeOK
<1>3. \A d \in Change : docs'[by[d]] = <<>> <=> docs[by[d]] = <<>>
  BY <1>1, Updated
<1>4. \A d \in Change \ {c} : Status'[d] = Status[d]
  BY <1>1, <1>3 DEF Status
<1>5. Status' = [d \in Change |-> IF d = c THEN answer
                                 ELSE IF d \in {c} THEN "applied" ELSE Status[d]]
  BY <1>2, <1>4 DEF Status
<1>6. \A u \in User \ {by[c]} : Values'[u] = Values[u]
  BY Updated DEF Values, Preferences
<1>7. Values'[by[c]] = wish[c]
  BY <1>1, Updated DEF Values
<1>8. Values' = [Values EXCEPT ![by[c]] = wish[c]]
  BY <1>6, <1>7 DEF Values
<1>9. Status[c] = "waiting"
  BY <1>1 DEF Status
<1>10. Store!Write({c}, c, answer)
  BY <1>1, <1>5, <1>8, <1>9 DEF Store!Write, Values
<1> QED
  BY <1>2, <1>10 DEF Store!Next

LEMMA StoreStep == PreferencesInv /\ [Next]_vars => [Store!Next]_(Store!vars)
<1> SUFFICES ASSUME PreferencesInv, [Next]_vars PROVE [Store!Next]_(Store!vars)
  OBVIOUS
<1> USE DEF PreferencesInv
<1>1. ASSUME NEW c \in Change, Begin(c) PROVE Store!Begin(c)
  <2>1. docs' = docs /\ by' = by /\ wish' = wish
        /\ pc[c] = "idle" /\ pc'[c] = "find"
        /\ \A d \in Change \ {c} : pc'[d] = pc[d]
    BY <1>1 DEF Begin, TypeOK
  <2>2. Status[c] = "idle" /\ Status' = [Status EXCEPT ![c] = "waiting"]
    BY <2>1 DEF Status
  <2> QED
    BY <2>1, <2>2, SameValues DEF Store!Begin, Values
<1>2. ASSUME NEW c \in Change, Find(c) PROVE UNCHANGED Store!vars
  <2>1. docs' = docs /\ by' = by /\ wish' = wish
        /\ pc[c] = "find"
        /\ pc'[c] = (IF docs[by[c]] = <<>> THEN "save" ELSE "update")
        /\ \A d \in Change \ {c} : pc'[d] = pc[d]
    BY <1>2 DEF Find, TypeOK
  <2>2. Status' = Status
    BY <2>1 DEF Status
  <2> QED
    BY <2>1, <2>2, SameValues DEF Store!vars, Values
<1>3. ASSUME NEW c \in Change, Fail(c)
      PROVE  Store!Fail(c) \/ Store!Answer(c, "failed")
  <2>1. docs' = docs /\ by' = by /\ wish' = wish
        /\ Running(c) /\ pc'[c] = "failed"
        /\ \A d \in Change \ {c} : pc'[d] = pc[d]
    BY <1>3 DEF Fail, TypeOK
  <2>2. Status[c] \in {"waiting", "applied"}
    BY <2>1 DEF Status, Running
  <2>3. Status' = [Status EXCEPT ![c] = "failed"]
    BY <2>1 DEF Status
  <2> QED
    BY <2>1, <2>2, <2>3, SameValues DEF Store!Fail, Store!Answer, Values
<1>4. CASE UNCHANGED vars
  <2>1. docs' = docs /\ by' = by /\ wish' = wish /\ Status' = Status
    BY <1>4 DEF vars, Status
  <2> QED
    BY <2>1, SameValues DEF Store!vars, Values
<1> QED
  BY <1>1, <1>2, <1>3, <1>4, SaveStores, UpdateStores DEF Next, Store!Next

\* changePreferences and getPreferences behave like atomic changes and reads
\* of one preference per user, with any number of calls overlapping and
\* failing, and with any number of documents.
THEOREM StoreImplemented == Spec => ImplementsStore
<1>1. PreferencesInv /\ [Next]_vars => [Store!Next]_(Store!vars)
  BY StoreStep
<1> QED
  BY <1>1, StoreInit, PreferencesInvariant, PTL
  DEF Spec, ImplementsStore, Store!Spec
=============================================================================
