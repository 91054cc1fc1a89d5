----------------------------- MODULE Escalation -----------------------------
(***************************************************************************)
(* Handing a question over to the tenant's support team:                   *)
(* complete_escalation and generate_sr_number of app/services/escalation.py*)
(* behind POST /api/chat/{message_id}/escalate.                            *)
(*                                                                         *)
(* An attempt looks whether the message has a service request, draws a     *)
(* number from the tenant's counter of the day, mails it to the company    *)
(* and to the visitor, and stores the service request last: each of these  *)
(* is a transaction or an SMTP session of its own.                         *)
(***************************************************************************)
EXTENDS Naturals, FiniteSets

CONSTANTS
  Attempts,   \* escalate calls; each arrives at most once
  Messages,   \* assistant messages that signalled an escalation
  Tenants,
  TenantOf,   \* the tenant of each message
  LastDay,    \* bound: the calendar days of a behaviour are 0 .. LastDay
  NoMessage, NoNumber

ASSUME EscalationAssumption ==
  /\ TenantOf \in [Messages -> Tenants]
  /\ LastDay \in Nat
  /\ NoMessage \notin Messages

VARIABLES
  today,
  counter,    \* sr_sequence.next_seq by tenant and day; 0 for no row
  requests,   \* service_request rows
  mails,      \* history: the e-mails that left
  pc,
  message,    \* the message of each attempt
  day,        \* date.today() as it has read it
  number      \* the SR number it has drawn

vars == <<today, counter, requests, mails, pc, message, day, number>>

\* SR-{day}-{sequence}, unique per tenant.
Number == [day : 0 .. LastDay, seq : Nat]
\* The attempt is history: which call stored the row, or sent the mail.
Request == [message : Messages, number : Number, attempt : Attempts]
Mail == [to : {"company", "visitor"}, attempt : Attempts,
         message : Messages, number : Number]

AttemptPc == {"idle", "existing", "today", "draw", "company", "visitor", "insert",
              "refused", "done", "raised"}

ASSUME NoNumberAssumption == NoNumber \notin Number

TypeOK ==
  /\ today \in 0 .. LastDay
  /\ counter \in [Tenants -> [0 .. LastDay -> Nat]]
  /\ requests \subseteq Request
  /\ mails \subseteq Mail
  /\ pc \in [Attempts -> AttemptPc]
  /\ message \in [Attempts -> Messages \cup {NoMessage}]
  /\ day \in [Attempts -> 0 .. LastDay]
  /\ number \in [Attempts -> Number \cup {NoNumber}]

Init ==
  /\ today = 0
  /\ counter = [t \in Tenants |-> [d \in 0 .. LastDay |-> 0]]
  /\ requests = {} /\ mails = {}
  /\ pc = [a \in Attempts |-> "idle"]
  /\ message = [a \in Attempts |-> NoMessage]
  /\ day = [a \in Attempts |-> 0]
  /\ number = [a \in Attempts |-> NoNumber]

-----------------------------------------------------------------------------
Goto(a, to) == pc' = [pc EXCEPT ![a] = to]

Escalated(m) == \E r \in requests : r.message = m

\* The checks of the e-mail address and of the message; a request that fails
\* them is a 400 or 404 and changes nothing.
CheckMessage(a) ==
  /\ pc[a] = "idle"
  /\ \E m \in Messages : message' = [message EXCEPT ![a] = m]
  /\ Goto(a, "existing")
  /\ UNCHANGED <<today, counter, requests, mails, day, number>>

\* SELECT id FROM service_request: a message that has one is refused (409),
\* and so is any (400) when the tenant has no support inbox.
CheckExisting(a) ==
  /\ pc[a] = "existing"
  /\ IF Escalated(message[a]) THEN Goto(a, "refused")
                              ELSE Goto(a, "today") \/ Goto(a, "refused")
  /\ UNCHANGED <<today, counter, requests, mails, message, day, number>>

\* Mutated form: COUNT(*) + 1 over the requests of the tenant and day.
GenerateNumberByCount(a) ==
  /\ pc[a] = "draw"
  /\ number' = [number EXCEPT ![a] =
       [day |-> day[a],
        seq |-> 1 + Cardinality({r \in requests : r.number.day = day[a]
                                   /\ TenantOf[r.message] = TenantOf[message[a]]})]]
  /\ Goto(a, "company")
  /\ UNCHANGED <<today, counter, requests, mails, message, day>>

\* generate_sr_number reads the date before it has the row's lock.
ReadDay(a) ==
  /\ pc[a] = "today"
  /\ day' = [day EXCEPT ![a] = today]
  /\ Goto(a, "draw")
  /\ UNCHANGED <<today, counter, requests, mails, message, number>>

\* generate_sr_number: increment and read back under the row's lock, commit.
GenerateNumber(a) ==
  LET t == TenantOf[message[a]] IN
  /\ pc[a] = "draw"
  /\ counter' = [counter EXCEPT ![t][day[a]] = @ + 1]
  /\ number' = [number EXCEPT ![a] = [day |-> day[a], seq |-> counter[t][day[a]] + 1]]
  /\ Goto(a, "company")
  /\ UNCHANGED <<today, requests, mails, message, day>>

\* _send_email: the SMTP session delivers the mail, or fails before or after
\* the relay has taken it.
SendMail(a, to, next) ==
  /\ \/ /\ mails' = mails \cup {[to |-> to, attempt |-> a,
                                 message |-> message[a], number |-> number[a]]}
        /\ Goto(a, next) \/ Goto(a, "raised")
     \/ Goto(a, "raised") /\ UNCHANGED mails
  /\ UNCHANGED <<today, counter, requests, message, day, number>>

MailCompany(a) == pc[a] = "company" /\ SendMail(a, "company", "visitor")

\* Mutated form: a mail to the visitor that fails is ignored.
MailVisitorUnchecked(a) ==
  /\ pc[a] = "visitor"
  /\ Goto(a, "insert")
  /\ UNCHANGED <<today, counter, requests, mails, message, day, number>>

MailVisitor(a) == pc[a] = "visitor" /\ SendMail(a, "visitor", "insert")

\* Mutated form: no unique key on service_request.message_id.
InsertRequestAgain(a) ==
  /\ pc[a] = "insert"
  /\ requests' = requests \cup
       {[message |-> message[a], number |-> number[a], attempt |-> a]}
  /\ Goto(a, "done")
  /\ UNCHANGED <<today, counter, mails, message, day, number>>

\* INSERT INTO service_request, commit.  The unique keys refuse a message
\* that has a request by now: an IntegrityError, which nothing catches.
InsertRequest(a) ==
  /\ pc[a] = "insert"
  /\ IF Escalated(message[a])
        \/ \E r \in requests : r.number = number[a]
                               /\ TenantOf[r.message] = TenantOf[message[a]]
     THEN Goto(a, "raised") /\ UNCHANGED requests
     ELSE /\ requests' = requests \cup
               {[message |-> message[a], number |-> number[a], attempt |-> a]}
          /\ Goto(a, "done")
  /\ UNCHANGED <<today, counter, mails, message, day, number>>

NextDay ==
  /\ today < LastDay
  /\ today' = today + 1
  /\ UNCHANGED <<counter, requests, mails, pc, message, day, number>>

\* The server process dies; committed rows and sent mails stay.
Crash ==
  /\ \E a \in Attempts : pc[a] \notin {"idle", "refused", "done", "raised"}
  /\ pc' = [a \in Attempts |-> IF pc[a] \in {"idle", "refused", "done"}
                               THEN pc[a] ELSE "raised"]
  /\ UNCHANGED <<today, counter, requests, mails, message, day, number>>

-----------------------------------------------------------------------------
Step(a) ==
  \/ CheckMessage(a) \/ CheckExisting(a) \/ ReadDay(a)
  \/ GenerateNumber(a) \/ MailCompany(a) \/ MailVisitor(a) \/ InsertRequest(a)

\* No attempt is running.
Quiet ==
  /\ \A a \in Attempts : pc[a] \in {"idle", "refused", "done", "raised"}
  /\ UNCHANGED vars

Running == Quiet \/ NextDay \/ \E a \in Attempts : Step(a)

Next == Running \/ Crash

Spec == Init /\ [][Next]_vars
RunningSpec == Init /\ [][Running]_vars
-----------------------------------------------------------------------------
(* Properties.                                                             *)

\* "safe under concurrent escalations for the same tenant on the same day":
\* two attempts of a tenant never mail out the same SR number, neither when
\* they overlap nor when the first failed or died before storing it.
NumbersDistinct ==
  \A m, n \in mails :
    m.number = n.number /\ TenantOf[m.message] = TenantOf[n.message]
      => m.attempt = n.attempt

\* "only persist after a successful send": a service request is on record
\* only with the number that both its company and its visitor were mailed,
\* whatever failed before and wherever the server died.
RequestsAnnounced ==
  \A r \in requests : \A who \in {"company", "visitor"} :
    [to |-> who, attempt |-> r.attempt,
     message |-> r.message, number |-> r.number] \in mails

\* Overlapping attempts for one message end in one service request at most,
\* although each found none when it looked.
OneRequestPerMessage ==
  \A r, s \in requests : r.message = s.message => r = s

\* EscalationError is "raised for any user-facing failure - ... already
\* escalated ...": an attempt that finds the message escalated is refused, it
\* does not end in an unhandled error.
AlreadyEscalatedIsRefused ==
  [][\A a \in Attempts :
       pc[a] = "insert" /\ Escalated(message[a]) /\ pc'[a] # pc[a] => pc'[a] = "refused"]_vars
=============================================================================
