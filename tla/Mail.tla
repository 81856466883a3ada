-------------------------------- MODULE Mail ----------------------------------
(***************************************************************************)
(* The imail/send events: NatsController.sendEmail and MailService.        *)
(*                                                                         *)
(* The handler adds two properties to those of the event and starts        *)
(* sendEmail, which nobody awaits: it asks another service for the address *)
(* when the event names a user, composes the message, from a template if   *)
(* one is named, and hands it to the SMTP server, once.  Only an error of  *)
(* that last step is caught.  Which text the message has is left out.      *)
(***************************************************************************)
EXTENDS Naturals

CONSTANTS
  Mail,        \* the events
  User,        \* the users
  Address,     \* the e-mail addresses
  None,        \* no address
  MaxChanges   \* bound on the changes of addresses

ASSUME NoneAssumption == None \notin Address
ASSUME KindAssumption == User \cap Address = {}
ASSUME ChangesAssumption == MaxChanges \in Nat

VARIABLES
  address,     \* User.email, in the other service
  changes,     \* changes of addresses so far (bounded)
  \* Events (fixed).
  to,          \* the addressee: a user if isIdUser, an address if not
  template,    \* does it name a template?
  props,       \* does it have templateProps?
  \* Calls of sendEmail.
  pc,          \* the await it is at, or how it ended
  recipient,   \* mailOptions.to
  \* The SMTP server.
  delivered,   \* how often it has accepted the message
  \* History, read by the properties only.
  had          \* the addresses of the addressee since the event was taken

event == <<to, template, props>>
vars  == <<address, changes, event, pc, recipient, delivered, had>>

-----------------------------------------------------------------------------
Awaiting == {"user", "smtp", "reply"}

Init ==
  /\ address \in [User -> Address \cup {None}]
  /\ changes = 0
  /\ to \in [Mail -> User \cup Address]
  /\ template \in [Mail -> BOOLEAN]
  /\ props \in [Mail -> BOOLEAN]
  /\ pc = [m \in Mail |-> "new"]
  /\ recipient = [m \in Mail |-> None]
  /\ delivered = [m \in Mail |-> 0]
  /\ had = [m \in Mail |-> {}]

-----------------------------------------------------------------------------
Ends(m, how) ==
  /\ pc' = [pc EXCEPT ![m] = how]
  /\ UNCHANGED recipient

\* convertTemplateToText throws: the file of the template cannot be read.
TemplateFails(m) == template[m] /\ Ends(m, "lost")

\* The message to a is made and sendMail begins.
Compose(m, a) ==
  \/ /\ pc' = [pc EXCEPT ![m] = "smtp"]
     /\ recipient' = [recipient EXCEPT ![m] = a]
  \/ TemplateFails(m)

\* The handler runs, and sendEmail up to its first await.  Without
\* templateProps the handler throws.
SendEmail(m) ==
  /\ pc[m] = "new"
  /\ \/ ~props[m] /\ Ends(m, "lost")
     \/ props[m] /\ to[m] \in User /\ Ends(m, "user")
     \/ props[m] /\ to[m] \in Address /\ Compose(m, to[m])
  /\ had' = [had EXCEPT ![m] = {IF to[m] \in User THEN address[to[m]] ELSE to[m]}]
  /\ UNCHANGED <<address, changes, event, delivered>>

\* (Slip: another user's answer.)
SlipGetUser(m) ==
  /\ pc[m] = "user"
  /\ \E u \in User : Compose(m, address[u])
  /\ UNCHANGED <<address, changes, event, delivered, had>>

\* get_user_by_id answers.  If there is no such user, or no address, this is
\* logged and the message is made without one.
GetUser(m) ==
  /\ pc[m] = "user"
  /\ \E a \in {address[to[m]], None} : Compose(m, a)
  /\ UNCHANGED <<address, changes, event, delivered, had>>

\* It rejects, and nobody catches it.
GetUserFails(m) ==
  /\ pc[m] = "user"
  /\ Ends(m, "lost")
  /\ UNCHANGED <<address, changes, event, delivered, had>>

\* The server accepts the message; a message to nobody is not sent to it.
Accept(m) ==
  /\ pc[m] = "smtp" /\ recipient[m] # None
  /\ delivered' = [delivered EXCEPT ![m] = @ + 1]
  /\ Ends(m, "reply")
  /\ UNCHANGED <<address, changes, event, had>>

\* sendMail resolves, and the message is logged as sent.
Sent(m) ==
  /\ pc[m] = "reply"
  /\ Ends(m, "sent")
  /\ UNCHANGED <<address, changes, event, delivered, had>>

\* (Slips: tried again; the error not told from success.)
SlipSendFails(m, how) ==
  /\ pc[m] \in {"smtp", "reply"}
  /\ Ends(m, how)
  /\ UNCHANGED <<address, changes, event, delivered, had>>
SlipRetry(m)   == delivered[m] < 2 /\ SlipSendFails(m, "smtp")
SlipSwallow(m) == SlipSendFails(m, "sent")

\* sendMail rejects, before the server has accepted or for want of its reply:
\* the error is logged.
SendFails(m) ==
  /\ pc[m] \in {"smtp", "reply"}
  /\ Ends(m, "error")
  /\ UNCHANGED <<address, changes, event, delivered, had>>

\* The process stops, with all its calls.
Stop ==
  /\ pc' = [m \in Mail |-> IF pc[m] \in Awaiting THEN "lost" ELSE pc[m]]
  /\ UNCHANGED <<address, changes, event, recipient, delivered, had>>

\* A user gets another address, or none, in the other service.
ChangeAddress(u, a) ==
  /\ changes < MaxChanges
  /\ changes' = changes + 1
  /\ address' = [address EXCEPT ![u] = a]
  /\ had' = [m \in Mail |-> IF to[m] = u /\ pc[m] # "new" THEN had[m] \cup {a} ELSE had[m]]
  /\ UNCHANGED <<event, pc, recipient, delivered>>

Next ==
  \/ \E m \in Mail :
       \/ SendEmail(m) \/ GetUser(m) \/ GetUserFails(m)
       \/ Accept(m) \/ Sent(m) \/ SendFails(m)
  \/ Stop
  \/ \E u \in User, a \in Address \cup {None} : ChangeAddress(u, a)

Spec == Init /\ [][Next]_vars

-----------------------------------------------------------------------------
(* Properties.                                                             *)

\* The variables have the types of the events and of the calls; a mail that
\* was sent, or may have been, has an addressee.
TypeOK ==
  /\ address \in [User -> Address \cup {None}]
  /\ changes \in 0 .. MaxChanges
  /\ to \in [Mail -> User \cup Address]
  /\ template \in [Mail -> BOOLEAN]
  /\ props \in [Mail -> BOOLEAN]
  /\ pc \in [Mail -> {"new", "sent", "error", "lost"} \cup Awaiting]
  /\ recipient \in [Mail -> Address \cup {None}]
  /\ delivered \in [Mail -> Nat]
  /\ had \in [Mail -> SUBSET (Address \cup {None})]
  /\ \A m \in Mail : pc[m] \in {"reply", "sent"} => recipient[m] # None

\* What is logged as sent was accepted by the server exactly once; whatever
\* else happens to a mail, an error after the server has accepted it or a stop
\* of the process included, it is not accepted twice.
SentOnce ==
  \A m \in Mail : delivered[m] <= 1 /\ (pc[m] = "sent" => delivered[m] = 1)

\* A message goes to an address that its addressee has had since the event,
\* though the address is asked for later and may change meanwhile; a mail
\* whose addressee cannot be found goes to nobody.
OnlyToTheAddressee ==
  \A m \in Mail : delivered[m] > 0 => recipient[m] \in had[m] \ {None}

\* (Refuted.)  In email.model.ts template and templateProps are optional: a
\* mail that names no template is not dropped by the handler.
PlainMailIsTried ==
  [][\A m \in Mail : pc[m] = "new" /\ ~template[m] => pc'[m] # "lost"]_vars
=============================================================================
