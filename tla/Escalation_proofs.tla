-------------------------- MODULE Escalation_proofs --------------------------
(***************************************************************************)
(* Proofs about Escalation for every set of attempts, messages and tenants *)
(* and every number of days.  That numbers are not mailed out twice is not *)
(* inductive by itself: it rests on the counter bounding every number that *)
(* was drawn (NumberOK), and that a request was announced on each mail     *)
(* being in the relay before the attempt moves on (SentOK).                *)
(***************************************************************************)
EXTENDS Escalation, TLAPS

\* An attempt that has read its message works on one; it has a number from
\* the draw on, and that number is within the counter of its tenant and day.
NumberOK ==
  \A a \in Attempts :
    /\ pc[a] \in {"existing", "today", "draw", "company", "visitor", "insert"} => message[a] \in Messages
    /\ pc[a] \in {"idle", "existing", "today", "draw"} => number[a] = NoNumber
    /\ pc[a] \in {"company", "visitor", "insert"} => number[a] # NoNumber
    /\ number[a] # NoNumber =>
         /\ message[a] \in Messages
         /\ number[a].seq <= counter[TenantOf[message[a]]][number[a].day]

\* Two attempts of a tenant have drawn different numbers.
DrawnDistinct ==
  \A a, b \in Attempts :
    /\ number[a] # NoNumber /\ number[a] = number[b]
    /\ TenantOf[message[a]] = TenantOf[message[b]]
    => a = b

\* A mail names the message and the number its attempt still holds.
MailsOwn ==
  \A m \in mails : m.message = message[m.attempt] /\ m.number = number[m.attempt]

MailOf(a, who) ==
  [to |-> who, attempt |-> a, message |-> message[a], number |-> number[a]]

\* An attempt past a mail has sent it.
SentOK ==
  \A a \in Attempts :
    /\ pc[a] \in {"visitor", "insert"} => MailOf(a, "company") \in mails
    /\ pc[a] = "insert" => MailOf(a, "visitor") \in mails

IInv ==
  /\ TypeOK /\ NumberOK /\ DrawnDistinct /\ MailsOwn /\ SentOK
  /\ RequestsAnnounced /\ OneRequestPerMessage

USE EscalationAssumption, NoNumberAssumption

LEMMA InitIInv == Init => IInv
<1> SUFFICES ASSUME Init PROVE IInv
  OBVIOUS
<1>1. TypeOK
  BY DEF Init, TypeOK, AttemptPc
<1>2. NumberOK /\ DrawnDistinct /\ SentOK
  BY DEF Init, NumberOK, DrawnDistinct, SentOK
<1>3. MailsOwn /\ RequestsAnnounced /\ OneRequestPerMessage
  BY DEF Init, MailsOwn, RequestsAnnounced, OneRequestPerMessage
<1> QED BY <1>1, <1>2, <1>3 DEF IInv

\* The mails that left and the requests on record name numbers of their own
\* attempts, so distinct draws are distinct mails.
LEMMA IInvNumbersDistinct == IInv => NumbersDistinct
<1> SUFFICES ASSUME IInv, NEW m \in mails, NEW n \in mails, m.number = n.number,
                    TenantOf[m.message] = TenantOf[n.message]
             PROVE  m.attempt = n.attempt
  BY DEF NumbersDistinct
<1>1. /\ m.attempt \in Attempts /\ n.attempt \in Attempts
      /\ m.number \in Number /\ m.number # NoNumber
  BY DEF IInv, TypeOK, Mail
<1>2. /\ m.message = message[m.attempt] /\ m.number = number[m.attempt]
      /\ n.message = message[n.attempt] /\ n.number = number[n.attempt]
  BY DEF IInv, MailsOwn
<1> QED BY <1>1, <1>2 DEF IInv, DrawnDistinct
-----------------------------------------------------------------------------
(* Steps of an attempt.                                                    *)

LEMMA CheckMessageStep ==
  ASSUME IInv, NEW a \in Attempts, CheckMessage(a) PROVE IInv'
<1> PICK m \in Messages : message' = [message EXCEPT ![a] = m]
  BY DEF CheckMessage
<1>1. /\ pc[a] = "idle" /\ pc' = [pc EXCEPT ![a] = "existing"]
      /\ UNCHANGED <<today, counter, requests, mails, day, number>>
  BY DEF CheckMessage, Goto
<1>2. number[a] = NoNumber
  BY <1>1 DEF IInv, NumberOK
<1>3. TypeOK'
  BY <1>1 DEF IInv, TypeOK, AttemptPc
<1>4. NumberOK'
  BY <1>1, <1>2 DEF IInv, TypeOK, NumberOK
<1>5. DrawnDistinct'
  BY <1>1, <1>2 DEF IInv, TypeOK, DrawnDistinct
\* No mail is from a, which holds no number.
<1>6. MailsOwn'
  <2> SUFFICES ASSUME NEW n \in mails
               PROVE  n.message = message'[n.attempt] /\ n.number = number[n.attempt]
    BY <1>1 DEF MailsOwn
  <2>1. n.number \in Number /\ n.attempt \in Attempts
    BY DEF IInv, TypeOK, Mail
  <2>2. n.message = message[n.attempt] /\ n.number = number[n.attempt]
    BY DEF IInv, MailsOwn
  <2>3. n.attempt # a
    BY <1>2, <2>1, <2>2
  <2> QED BY <2>1, <2>2, <2>3 DEF IInv, TypeOK
<1>7. SentOK'
  BY <1>1 DEF IInv, TypeOK, SentOK, MailOf
<1>8. RequestsAnnounced' /\ OneRequestPerMessage'
  BY <1>1 DEF IInv, RequestsAnnounced, OneRequestPerMessage
<1> QED BY <1>3, <1>4, <1>5, <1>6, <1>7, <1>8 DEF IInv

\* A step that only moves attempts to where they need nothing new.
LEMMA Moves ==
  ASSUME IInv, UNCHANGED <<counter, requests, mails, message, number>>,
         today' \in 0 .. LastDay, day' \in [Attempts -> 0 .. LastDay],
         pc' \in [Attempts -> AttemptPc],
         \A a \in Attempts :
           \/ pc'[a] = pc[a]
           \/ pc'[a] = "today" /\ pc[a] = "existing"
           \/ pc'[a] = "draw" /\ pc[a] = "today"
           \/ pc'[a] \in {"refused", "raised", "done"}
  PROVE  IInv'
<1>1. TypeOK'
  BY DEF IInv, TypeOK
<1>2. NumberOK'
  BY DEF IInv, NumberOK
<1>3. DrawnDistinct' /\ MailsOwn'
  BY DEF IInv, DrawnDistinct, MailsOwn
<1>4. SentOK'
  BY DEF IInv, SentOK, MailOf
<1>5. RequestsAnnounced' /\ OneRequestPerMessage'
  BY DEF IInv, RequestsAnnounced, OneRequestPerMessage
<1> QED BY <1>1, <1>2, <1>3, <1>4, <1>5 DEF IInv

LEMMA CheckExistingStep ==
  ASSUME IInv, NEW a \in Attempts, CheckExisting(a) PROVE IInv'
BY Moves DEF CheckExisting, Goto, IInv, TypeOK, AttemptPc

LEMMA ReadDayStep ==
  ASSUME IInv, NEW a \in Attempts, ReadDay(a) PROVE IInv'
BY Moves DEF ReadDay, Goto, IInv, TypeOK, AttemptPc

LEMMA GenerateNumberStep ==
  ASSUME IInv, NEW a \in Attempts, GenerateNumber(a) PROVE IInv'
<1> DEFINE t == TenantOf[message[a]]
           x == [day |-> day[a], seq |-> counter[t][day[a]] + 1]
<1>1. /\ pc[a] = "draw" /\ pc' = [pc EXCEPT ![a] = "company"]
      /\ counter' = [counter EXCEPT ![t][day[a]] = @ + 1]
      /\ number' = [number EXCEPT ![a] = x]
      /\ UNCHANGED <<today, requests, mails, message, day>>
  BY DEF GenerateNumber, Goto
<1>2. message[a] \in Messages /\ number[a] = NoNumber
  BY <1>1 DEF IInv, NumberOK
<1>3. t \in Tenants /\ day[a] \in 0 .. LastDay /\ counter[t][day[a]] \in Nat
  BY <1>2 DEF IInv, TypeOK
<1>4. x \in Number /\ x # NoNumber
  BY <1>3 DEF Number
<1>5. counter' \in [Tenants -> [0 .. LastDay -> Nat]]
  BY <1>1, <1>3 DEF IInv, TypeOK
<1>6. TypeOK'
  <2>1. number' \in [Attempts -> Number \cup {NoNumber}]
    BY <1>1, <1>4 DEF IInv, TypeOK
  <2>2. pc' \in [Attempts -> AttemptPc]
    BY <1>1 DEF IInv, TypeOK, AttemptPc
  <2> QED BY <1>1, <1>5, <2>1, <2>2 DEF IInv, TypeOK
\* Counters only grow, and a's reaches its new number.
<1>7. \A u \in Tenants, d \in 0 .. LastDay : counter[u][d] <= counter'[u][d]
  BY <1>1, <1>3 DEF IInv, TypeOK
<1>8. counter'[t][day[a]] = counter[t][day[a]] + 1
  BY <1>1, <1>3 DEF IInv, TypeOK
<1>9. ASSUME NEW b \in Attempts, number[b] # NoNumber
      PROVE  /\ number[b] \in Number /\ number[b].day \in 0 .. LastDay
             /\ number[b].seq \in Nat
             /\ message[b] \in Messages /\ TenantOf[message[b]] \in Tenants
             /\ number[b].seq <= counter[TenantOf[message[b]]][number[b].day]
  <2>1. number[b] \in Number
    BY <1>9 DEF IInv, TypeOK
  <2>2. number[b].day \in 0 .. LastDay /\ number[b].seq \in Nat
    BY <2>1 DEF Number
  <2> QED BY <1>9, <2>1, <2>2 DEF IInv, NumberOK
<1>10. NumberOK'
  <2> SUFFICES ASSUME NEW b \in Attempts
               PROVE  /\ pc'[b] \in {"existing", "today", "draw", "company", "visitor", "insert"}
                           => message[b] \in Messages
                      /\ pc'[b] \in {"idle", "existing", "today", "draw"} => number'[b] = NoNumber
                      /\ pc'[b] \in {"company", "visitor", "insert"} => number'[b] # NoNumber
                      /\ number'[b] # NoNumber =>
                           /\ message[b] \in Messages
                           /\ number'[b].seq <= counter'[TenantOf[message[b]]][number'[b].day]
    BY <1>1 DEF NumberOK
  <2>1. CASE b = a
    <3>1. pc'[b] = "company" /\ number'[b] = x
      BY <1>1, <2>1 DEF IInv, TypeOK
    <3>2. x.seq = counter[t][day[a]] + 1 /\ x.day = day[a]
      OBVIOUS
    <3>3. x.seq <= counter'[t][x.day]
      BY <1>3, <1>8, <3>2
    <3> HIDE DEF x
    <3> QED BY <1>2, <1>4, <2>1, <3>1, <3>3
  <2>2. CASE b # a
    <3>1. pc'[b] = pc[b] /\ number'[b] = number[b]
      BY <1>1, <2>2 DEF IInv, TypeOK
    <3>2. number[b] # NoNumber =>
            /\ message[b] \in Messages
            /\ number[b].seq <= counter'[TenantOf[message[b]]][number[b].day]
      <4> SUFFICES ASSUME number[b] # NoNumber
                   PROVE  /\ message[b] \in Messages
                          /\ number[b].seq <= counter'[TenantOf[message[b]]][number[b].day]
        OBVIOUS
      <4> DEFINE u == TenantOf[message[b]]
                 d == number[b].day
      <4>1. /\ message[b] \in Messages /\ u \in Tenants /\ d \in 0 .. LastDay
            /\ number[b].seq \in Nat /\ number[b].seq <= counter[u][d]
        BY <1>9
      <4>2. counter[u][d] <= counter'[u][d]
        BY <1>7, <4>1
      <4>3. counter[u][d] \in Nat /\ counter'[u][d] \in Nat
        BY <1>5, <4>1 DEF IInv, TypeOK
      <4> HIDE DEF u, d
      <4>4. number[b].seq <= counter'[u][d]
        BY <4>1, <4>2, <4>3
      <4> QED BY <4>1, <4>4 DEF u, d
    <3> QED BY <3>1, <3>2 DEF IInv, NumberOK
  <2> QED BY <2>1, <2>2
\* The new number is above every number of its tenant and day.
<1>11. DrawnDistinct'
  <2>1. ASSUME NEW b \in Attempts, b # a, number[b] # NoNumber,
               TenantOf[message[b]] = t
        PROVE  number[b] # x
    <3> SUFFICES ASSUME number[b] = x PROVE FALSE
      OBVIOUS
    <3>1. x.day = day[a] /\ x.seq = counter[t][day[a]] + 1
      OBVIOUS
    <3>2. number[b].seq <= counter[t][number[b].day]
      BY <1>9, <2>1
    <3> HIDE DEF x
    <3>3. x.seq <= counter[t][day[a]]
      BY <3>1, <3>2
    <3> QED BY <1>3, <3>1, <3>3
  <2> HIDE DEF x, t
  <2>2. \A b \in Attempts : number'[b] = IF b = a THEN x ELSE number[b]
    BY <1>1 DEF IInv, TypeOK
  <2> QED BY <1>1, <1>4, <2>1, <2>2 DEF IInv, DrawnDistinct, t
<1>12. MailsOwn'
  <2> SUFFICES ASSUME NEW n \in mails
               PROVE  n.message = message[n.attempt] /\ n.number = number'[n.attempt]
    BY <1>1 DEF MailsOwn
  <2>1. n.number \in Number /\ n.attempt \in Attempts
    BY DEF IInv, TypeOK, Mail
  <2>2. n.message = message[n.attempt] /\ n.number = number[n.attempt]
    BY DEF IInv, MailsOwn
  <2>3. n.attempt # a
    BY <1>2, <2>1, <2>2
  <2> QED BY <1>1, <2>1, <2>2, <2>3 DEF IInv, TypeOK
<1>13. SentOK'
  <2> SUFFICES ASSUME NEW b \in Attempts
               PROVE  /\ pc'[b] \in {"visitor", "insert"} => MailOf(b, "company")' \in mails
                      /\ pc'[b] = "insert" => MailOf(b, "visitor")' \in mails
    BY <1>1 DEF SentOK
  <2>1. CASE b = a
    BY <1>1, <2>1 DEF IInv, TypeOK
  <2>2. CASE b # a
    <3>1. pc'[b] = pc[b] /\ number'[b] = number[b] /\ message'[b] = message[b]
      BY <1>1, <2>2 DEF IInv, TypeOK
    <3> QED BY <3>1 DEF IInv, SentOK, MailOf
  <2> QED BY <2>1, <2>2
<1>14. RequestsAnnounced' /\ OneRequestPerMessage'
  BY <1>1 DEF IInv, RequestsAnnounced, OneRequestPerMessage
<1> QED BY <1>6, <1>10, <1>11, <1>12, <1>13, <1>14 DEF IInv

\* Both mails: a mail that left is recorded whatever becomes of the attempt.
LEMMA SendMailStep ==
  ASSUME IInv, NEW a \in Attempts, NEW who \in {"company", "visitor"}, NEW next,
         \/ pc[a] = "company" /\ who = "company" /\ next = "visitor"
         \/ pc[a] = "visitor" /\ who = "visitor" /\ next = "insert",
         SendMail(a, who, next)
  PROVE  IInv'
<1> DEFINE mail == MailOf(a, who)
<1>1. /\ pc' = [pc EXCEPT ![a] = "raised"] \/ (pc' = [pc EXCEPT ![a] = next] /\ mail \in mails')
      /\ mails' = mails \cup {mail} \/ mails' = mails
      /\ UNCHANGED <<today, counter, requests, message, day, number>>
  BY DEF SendMail, Goto, MailOf
<1>2. /\ message[a] \in Messages /\ number[a] # NoNumber /\ number[a] \in Number
  BY DEF IInv, TypeOK, NumberOK
<1>3. /\ mail \in Mail /\ mail.attempt = a /\ mail.message = message[a]
      /\ mail.number = number[a]
  BY <1>2 DEF MailOf, Mail
<1>4. \A b \in Attempts : pc'[b] = IF b = a THEN pc'[a] ELSE pc[b]
  BY <1>1 DEF IInv, TypeOK
<1>5. pc'[a] \in {"raised", next}
  BY <1>1 DEF IInv, TypeOK
<1>6. mails \subseteq mails'
  BY <1>1
<1> HIDE DEF mail
<1>7. TypeOK'
  BY <1>1, <1>3 DEF IInv, TypeOK, AttemptPc
<1>8. NumberOK'
  BY <1>1, <1>2, <1>4, <1>5 DEF IInv, NumberOK
<1>9. DrawnDistinct'
  BY <1>1 DEF IInv, DrawnDistinct
<1>10. MailsOwn'
  BY <1>1, <1>3 DEF IInv, MailsOwn
<1>11. SentOK'
  <2> SUFFICES ASSUME NEW b \in Attempts
               PROVE  /\ pc'[b] \in {"visitor", "insert"} => MailOf(b, "company") \in mails'
                      /\ pc'[b] = "insert" => MailOf(b, "visitor") \in mails'
    BY <1>1 DEF SentOK, MailOf
  <2>1. CASE b # a
    BY <1>4, <1>6, <2>1 DEF IInv, SentOK
  <2>2. CASE b = a /\ pc'[a] = "raised"
    BY <2>2
  <2>3. CASE b = a /\ pc'[a] # "raised"
    <3>1. pc'[a] = next /\ mail \in mails'
      BY <1>1, <1>5, <2>3 DEF IInv, TypeOK
    <3> QED BY <1>6, <2>3, <3>1 DEF IInv, SentOK, mail
  <2> QED BY <2>1, <2>2, <2>3
<1>12. RequestsAnnounced' /\ OneRequestPerMessage'
  BY <1>1, <1>6 DEF IInv, RequestsAnnounced, OneRequestPerMessage
<1> QED BY <1>7, <1>8, <1>9, <1>10, <1>11, <1>12 DEF IInv

LEMMA InsertRequestStep ==
  ASSUME IInv, NEW a \in Attempts, InsertRequest(a) PROVE IInv'
<1> DEFINE r == [message |-> message[a], number |-> number[a], attempt |-> a]
<1>1. CASE UNCHANGED requests /\ Goto(a, "raised")
  BY <1>1, Moves DEF InsertRequest, Goto, IInv, TypeOK, AttemptPc
<1>2. CASE ~Escalated(message[a]) /\ requests' = requests \cup {r} /\ Goto(a, "done")
  <2>1. /\ pc[a] = "insert" /\ pc' = [pc EXCEPT ![a] = "done"]
        /\ UNCHANGED <<today, counter, mails, message, day, number>>
    BY <1>2 DEF InsertRequest, Goto
  <2>2. message[a] \in Messages /\ number[a] \in Number
    BY <2>1 DEF IInv, TypeOK, NumberOK
  <2>3. /\ r \in Request /\ r.message = message[a] /\ r.number = number[a]
        /\ r.attempt = a
    BY <2>2 DEF Request
  <2>4. MailOf(a, "company") \in mails /\ MailOf(a, "visitor") \in mails
    BY <2>1 DEF IInv, SentOK
  <2> HIDE DEF r
  <2>5. TypeOK'
    BY <1>2, <2>1, <2>3 DEF IInv, TypeOK, AttemptPc
  <2>6. NumberOK'
    BY <2>1 DEF IInv, TypeOK, NumberOK
  <2>7. DrawnDistinct' /\ MailsOwn'
    BY <2>1 DEF IInv, DrawnDistinct, MailsOwn
  <2>8. SentOK'
    BY <2>1 DEF IInv, TypeOK, SentOK, MailOf
  <2>9. RequestsAnnounced'
    BY <1>2, <2>1, <2>3, <2>4 DEF IInv, RequestsAnnounced, MailOf
  <2>10. OneRequestPerMessage'
    BY <1>2, <2>3 DEF IInv, OneRequestPerMessage, Escalated
  <2> QED BY <2>5, <2>6, <2>7, <2>8, <2>9, <2>10 DEF IInv
<1> QED BY <1>1, <1>2 DEF InsertRequest

LEMMA NextDayStep == ASSUME IInv, NextDay PROVE IInv'
BY Moves DEF NextDay, IInv, TypeOK

LEMMA CrashStep == ASSUME IInv, Crash PROVE IInv'
BY Moves DEF Crash, IInv, TypeOK, AttemptPc

LEMMA StutterStep == ASSUME IInv, UNCHANGED vars PROVE IInv'
BY Moves DEF vars, IInv, TypeOK
-----------------------------------------------------------------------------
LEMMA Inductive == IInv /\ [Next]_vars => IInv'
<1> SUFFICES ASSUME IInv, [Next]_vars PROVE IInv'
  OBVIOUS
<1>1. ASSUME NEW a \in Attempts, Step(a) PROVE IInv'
  <2>1. CASE CheckMessage(a)
    BY <2>1, CheckMessageStep
  <2>2. CASE CheckExisting(a)
    BY <2>2, CheckExistingStep
  <2>3. CASE ReadDay(a)
    BY <2>3, ReadDayStep
  <2>4. CASE GenerateNumber(a)
    BY <2>4, GenerateNumberStep
  <2>5. CASE MailCompany(a)
    BY <2>5, SendMailStep DEF MailCompany
  <2>6. CASE MailVisitor(a)
    BY <2>6, SendMailStep DEF MailVisitor
  <2>7. CASE InsertRequest(a)
    BY <2>7, InsertRequestStep
  <2> QED BY <1>1, <2>1, <2>2, <2>3, <2>4, <2>5, <2>6, <2>7 DEF Step
<1>2. CASE NextDay
  BY <1>2, NextDayStep
<1>3. CASE Crash
  BY <1>3, CrashStep
<1>4. CASE UNCHANGED vars
  BY <1>4, StutterStep
<1> QED BY <1>1, <1>2, <1>3, <1>4 DEF Next, Running, Quiet

LEMMA Invariance == Spec => []IInv
BY InitIInv, Inductive, PTL DEF Spec

\* The numbers that different attempts of a tenant mail out differ, whatever
\* interleaves, fails or dies between drawing and storing them.
THEOREM NumbersNeverShared == Spec => []NumbersDistinct
BY Invariance, IInvNumbersDistinct, PTL

\* A stored service request carries the number both its mails announced.
THEOREM RecordedIsAnnounced == Spec => []RequestsAnnounced
<1>1. IInv => RequestsAnnounced
  BY DEF IInv
<1> QED BY <1>1, Invariance, PTL

\* No message ever has two service requests.
THEOREM OneRequest == Spec => []OneRequestPerMessage
<1>1. IInv => OneRequestPerMessage
  BY DEF IInv
<1> QED BY <1>1, Invariance, PTL
-----------------------------------------------------------------------------
(* Messages that are escalated already, when attempts do not overlap.      *)

Under == {"today", "draw", "company", "visitor", "insert"}

\* Two attempts of one message are never both past the lookup.
AttemptsApart ==
  \A a, b \in Attempts :
    pc[a] \in Under /\ pc[b] \in Under /\ message[a] = message[b] => a = b

\* What CheckExisting found is still so.
FreshOK == \A a \in Attempts : pc[a] \in Under => ~Escalated(message[a])

\* No mail leaves about a message that has its service request.
MailsAreFirst == [][\A m \in mails' \ mails : ~Escalated(m.message)]_vars

LEMMA FreshStep == ASSUME TypeOK, AttemptsApart, FreshOK, [Next]_vars PROVE FreshOK'
\* Most steps store nothing and take nobody past the lookup.
<1>1. CASE /\ UNCHANGED requests
           /\ \A a \in Attempts :
                pc'[a] \in Under => pc[a] \in Under /\ message'[a] = message[a]
  BY <1>1 DEF FreshOK, Escalated
<1>2. ASSUME NEW a \in Attempts, CheckMessage(a) PROVE FreshOK'
  BY <1>1, <1>2 DEF CheckMessage, Goto, Under, TypeOK
<1>3. ASSUME NEW a \in Attempts, CheckExisting(a) PROVE FreshOK'
  <2>1. /\ UNCHANGED <<requests, message>>
        /\ \A b \in Attempts \ {a} : pc'[b] = pc[b]
        /\ pc'[a] = "today" => ~Escalated(message[a])
        /\ pc'[a] \in {"refused", "today"}
    BY <1>3 DEF CheckExisting, Goto, TypeOK
  <2> QED BY <2>1 DEF FreshOK, Escalated, Under
<1>4. ASSUME NEW a \in Attempts, ReadDay(a) \/ GenerateNumber(a) PROVE FreshOK'
  BY <1>1, <1>4 DEF ReadDay, GenerateNumber, Goto, Under, TypeOK
<1>5. ASSUME NEW a \in Attempts, MailCompany(a) \/ MailVisitor(a) PROVE FreshOK'
  BY <1>1, <1>5 DEF MailCompany, MailVisitor, SendMail, Goto, Under, TypeOK
\* The only other attempt of the message that could be past its lookup is a.
<1>6. ASSUME NEW a \in Attempts, InsertRequest(a) PROVE FreshOK'
  <2>1. /\ pc[a] = "insert" /\ UNCHANGED message
        /\ pc'[a] \in {"done", "raised"} /\ \A b \in Attempts \ {a} : pc'[b] = pc[b]
        /\ \A r \in requests' \ requests : r.message = message[a]
    BY <1>6 DEF InsertRequest, Goto, TypeOK
  <2>2. ASSUME NEW b \in Attempts, pc'[b] \in Under PROVE ~Escalated(message[b])'
    <3>1. b # a /\ pc[b] \in Under /\ message[b] # message[a]
      BY <2>1, <2>2 DEF AttemptsApart, Under
    <3> QED BY <2>1, <3>1 DEF FreshOK, Escalated
  <2> QED BY <2>1, <2>2 DEF FreshOK
<1>7. CASE NextDay \/ Crash \/ UNCHANGED vars
  BY <1>1, <1>7 DEF NextDay, Crash, vars, Under, TypeOK
<1> QED BY <1>2, <1>3, <1>4, <1>5, <1>6, <1>7 DEF Next, Running, Step, Quiet

\* A mail is about the message of an attempt past its lookup.
LEMMA FreshMails ==
  ASSUME TypeOK, FreshOK, [Next]_vars, NEW m \in mails' \ mails PROVE ~Escalated(m.message)
<1>1. PICK a \in Attempts : MailCompany(a) \/ MailVisitor(a)
  BY DEF Next, Running, Step, Quiet, CheckMessage, CheckExisting, ReadDay, GenerateNumber,
         InsertRequest, NextDay, Crash, vars
<1>2. m.message = message[a] /\ pc[a] \in Under
  BY <1>1 DEF MailCompany, MailVisitor, SendMail, Under
<1> QED BY <1>2 DEF FreshOK

\* "EscalationError ... already escalated" under the condition the code leaves
\* open: when the attempts of a message do not overlap past their lookup, no
\* attempt meets its service request in the INSERT, and none mails anybody
\* about a message that has one.
THEOREM ApartAttemptsAreRefused ==
  Spec /\ []AttemptsApart => AlreadyEscalatedIsRefused /\ MailsAreFirst
<1>1. Init => FreshOK
  BY DEF Init, FreshOK, Under
<1>2. IInv => TypeOK
  BY DEF IInv
<1>3. TypeOK /\ AttemptsApart /\ FreshOK /\ [Next]_vars => FreshOK'
  BY FreshStep
<1> DEFINE Refuses == \A a \in Attempts :
             pc[a] = "insert" /\ Escalated(message[a]) /\ pc'[a] # pc[a] => pc'[a] = "refused"
           First == \A m \in mails' \ mails : ~Escalated(m.message)
<1>4. TypeOK /\ FreshOK /\ [Next]_vars => [Refuses]_vars /\ [First]_vars
  <2>1. FreshOK => Refuses
    BY DEF FreshOK, Under
  <2> QED BY <2>1, FreshMails
<1>5. Spec /\ []AttemptsApart => [][Refuses]_vars /\ [][First]_vars
  <2> HIDE DEF Refuses, First
  <2> QED BY <1>1, <1>2, <1>3, <1>4, Invariance, PTL DEF Spec
<1> QED BY <1>5 DEF AlreadyEscalatedIsRefused, MailsAreFirst
=============================================================================
