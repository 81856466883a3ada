------------------------------ MODULE MailProofs ------------------------------
(***************************************************************************)
(* What Mail promises, for any number of events, users and addresses.      *)
(***************************************************************************)
EXTENDS Mail, TLAPS

-----------------------------------------------------------------------------
\* What is known of a mail: it is accepted at most once, and that at the await
\* of sendMail; its recipient is nobody or an address of its addressee, and an
\* addressee who is still to be asked for has only addresses that are noted.
Traced(m) ==
  /\ pc[m] \in {"reply", "sent"} => delivered[m] = 1
  /\ pc[m] \in {"new", "user", "smtp"} => delivered[m] = 0
  /\ delivered[m] <= 1
  /\ delivered[m] = 1 => recipient[m] # None
  /\ pc[m] = "smtp" \/ delivered[m] = 1 => recipient[m] \in had[m] \cup {None}
  /\ pc[m] = "user" => to[m] \in User /\ address[to[m]] \in had[m]

MailInv == TypeOK /\ \A m \in Mail : Traced(m)

\* The variables that the other mails read stay as they are for them.
Others(m) ==
  /\ UNCHANGED <<address, changes, event>>
  /\ \A n \in Mail \ {m} :
       /\ pc'[n] = pc[n] /\ recipient'[n] = recipient[n]
       /\ delivered'[n] = delivered[n] /\ had'[n] = had[n]

LEMMA OthersKept ==
  ASSUME MailInv, NEW m \in Mail, Others(m), NEW n \in Mail \ {m}
  PROVE  Traced(n)'
BY DEF MailInv, Others, Traced, event

\* One mail, at its recipient.
LEMMA ComposeIs ==
  ASSUME MailInv, NEW m \in Mail, NEW a \in Address \cup {None}, Compose(m, a)
  PROVE  /\ pc' \in [Mail -> {"new", "sent", "error", "lost"} \cup Awaiting]
         /\ recipient' \in [Mail -> Address \cup {None}]
         /\ \A n \in Mail \ {m} : pc'[n] = pc[n] /\ recipient'[n] = recipient[n]
         /\ \/ pc'[m] = "smtp" /\ recipient'[m] = a
            \/ pc'[m] = "lost" /\ recipient'[m] = recipient[m]
<1> USE DEF MailInv, TypeOK, Awaiting
<1>1. CASE TemplateFails(m)
  BY <1>1 DEF TemplateFails, Ends
<1>2. CASE /\ pc' = [pc EXCEPT ![m] = "smtp"]
           /\ recipient' = [recipient EXCEPT ![m] = a]
  BY <1>2
<1> QED
  BY ONLY Compose(m, a), <1>1, <1>2 DEF Compose

LEMMA SendEmailStep ==
  ASSUME MailInv, NEW m \in Mail, SendEmail(m)
  PROVE  MailInv'
<1> DEFINE first == IF to[m] \in User THEN address[to[m]] ELSE to[m]
<1>1. /\ pc[m] = "new" /\ had' = [had EXCEPT ![m] = {first}]
      /\ UNCHANGED <<address, changes, event, delivered>>
  BY DEF SendEmail
<1>2. /\ to[m] \in User \cup Address /\ first \in Address \cup {None}
      /\ delivered[m] = 0 /\ had'[m] = {first}
  BY <1>1 DEF MailInv, TypeOK, Traced
<1>3. CASE \E how \in {"lost", "user"} : Ends(m, how) /\ (how = "user" => to[m] \in User)
  <2>1. PICK how \in {"lost", "user"} : Ends(m, how) /\ (how = "user" => to[m] \in User)
    BY <1>3
  <2>2. /\ pc' = [pc EXCEPT ![m] = how]
        /\ UNCHANGED recipient
    BY <2>1 DEF Ends
  <2>3. TypeOK'
    BY <1>1, <1>2, <2>2 DEF MailInv, TypeOK, Awaiting, event
  <2>4. Others(m)
    BY <1>1, <2>2 DEF MailInv, TypeOK, Others, event
  <2>5. Traced(m)'
    BY <1>1, <1>2, <2>1, <2>2 DEF MailInv, TypeOK, Traced, event
  <2> QED
    BY <2>3, <2>4, <2>5, OthersKept DEF MailInv
<1>4. CASE to[m] \in Address /\ Compose(m, to[m])
  <2>1. first = to[m] /\ to[m] # None
    BY <1>4, KindAssumption, NoneAssumption
  <2>2. TypeOK'
    BY <1>1, <1>2, <1>4, ComposeIs DEF MailInv, TypeOK, event
  <2>3. Others(m)
    BY <1>1, <1>2, <1>4, ComposeIs DEF MailInv, TypeOK, Others, event
  <2>4. Traced(m)'
    BY <1>1, <1>2, <1>4, <2>1, ComposeIs DEF MailInv, TypeOK, Traced, event
  <2> QED
    BY <2>2, <2>3, <2>4, OthersKept DEF MailInv
<1> QED
  BY <1>3, <1>4 DEF SendEmail

LEMMA GetUserStep ==
  ASSUME MailInv, NEW m \in Mail, GetUser(m)
  PROVE  MailInv'
<1>1. PICK a \in {address[to[m]], None} : Compose(m, a)
  BY DEF GetUser
<1>2. /\ pc[m] = "user" /\ to[m] \in User /\ address[to[m]] \in had[m]
      /\ a \in Address \cup {None} /\ a \in had[m] \cup {None} /\ delivered[m] = 0
      /\ UNCHANGED <<address, changes, event, delivered, had>>
  BY DEF GetUser, MailInv, TypeOK, Traced
<1>3. TypeOK'
  BY <1>1, <1>2, ComposeIs DEF MailInv, TypeOK, event
<1>4. Others(m)
  BY <1>1, <1>2, ComposeIs DEF MailInv, TypeOK, Others, event
<1>5. Traced(m)'
  BY <1>1, <1>2, ComposeIs DEF MailInv, TypeOK, Traced, event
<1> QED
  BY <1>3, <1>4, <1>5, OthersKept DEF MailInv

\* The steps after which the message is as it was.
LEMMA EndStep ==
  ASSUME MailInv, NEW m \in Mail,
         GetUserFails(m) \/ Accept(m) \/ Sent(m) \/ SendFails(m)
  PROVE  MailInv'
<1>1. /\ UNCHANGED <<address, changes, event, had, recipient>>
      /\ \/ /\ pc[m] \in {"user", "smtp", "reply"} /\ delivered' = delivered
            /\ pc' = [pc EXCEPT ![m] = "lost"] \/ pc' = [pc EXCEPT ![m] = "error"]
         \/ /\ pc[m] = "smtp" /\ recipient[m] # None
            /\ delivered' = [delivered EXCEPT ![m] = @ + 1]
            /\ pc' = [pc EXCEPT ![m] = "reply"]
         \/ /\ pc[m] = "reply" /\ delivered' = delivered
            /\ pc' = [pc EXCEPT ![m] = "sent"]
  BY DEF GetUserFails, Accept, Sent, SendFails, Ends
<1>2. TypeOK'
  BY <1>1 DEF MailInv, TypeOK, Awaiting, event
<1>3. Others(m)
  BY <1>1 DEF MailInv, TypeOK, Others, event
<1>4. Traced(m)'
  BY <1>1 DEF MailInv, TypeOK, Traced, event
<1> QED
  BY <1>2, <1>3, <1>4, OthersKept DEF MailInv

LEMMA StopStep == MailInv /\ Stop => MailInv'
<1> SUFFICES ASSUME MailInv, Stop PROVE MailInv'
  OBVIOUS
<1>1. TypeOK'
  BY DEF MailInv, TypeOK, Stop, Awaiting, event
<1>2. ASSUME NEW m \in Mail PROVE Traced(m)'
  BY DEF MailInv, TypeOK, Stop, Awaiting, Traced, event
<1> QED
  BY <1>1, <1>2 DEF MailInv

LEMMA ChangeAddressStep ==
  ASSUME MailInv, NEW u \in User, NEW a \in Address \cup {None}, ChangeAddress(u, a)
  PROVE  MailInv'
<1>1. TypeOK'
  BY ChangesAssumption DEF MailInv, TypeOK, ChangeAddress, event
<1>2. ASSUME NEW m \in Mail PROVE Traced(m)'
  BY DEF MailInv, TypeOK, ChangeAddress, Traced, event
<1> QED
  BY <1>1, <1>2 DEF MailInv

LEMMA MailInvariant == Spec => []MailInv
<1>1. Init => MailInv
  BY ChangesAssumption DEF Init, MailInv, TypeOK, Traced, Awaiting
<1>2. MailInv /\ [Next]_vars => MailInv'
  <2>1. MailInv /\ UNCHANGED vars => MailInv'
    BY DEF MailInv, TypeOK, Traced, vars, event
  <2> QED
    BY <2>1, SendEmailStep, GetUserStep, EndStep, StopStep, ChangeAddressStep DEF Next
<1> QED
  BY <1>1, <1>2, PTL DEF Spec

-----------------------------------------------------------------------------
\* Calls of sendEmail are well typed, and what is sent has an addressee.
THEOREM MailTypeCorrect == Spec => []TypeOK
<1>1. MailInv => TypeOK
  BY DEF MailInv
<1> QED
  BY <1>1, MailInvariant, PTL

\* Whatever fails or stops, no mail is accepted twice, and none is logged as
\* sent that was not accepted.
THEOREM SentOnceCorrect == Spec => []SentOnce
<1>1. MailInv => SentOnce
  BY DEF MailInv, TypeOK, Traced, SentOnce
<1> QED
  BY <1>1, MailInvariant, PTL

\* However often addresses change, a mail goes to one that its addressee has
\* had since the event.
THEOREM AddresseeCorrect == Spec => []OnlyToTheAddressee
<1>1. MailInv => OnlyToTheAddressee
  BY DEF MailInv, TypeOK, Traced, OnlyToTheAddressee
<1> QED
  BY <1>1, MailInvariant, PTL
=============================================================================
