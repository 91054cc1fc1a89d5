------------------------------- MODULE Visitor -------------------------------
(***************************************************************************)
(* What a visitor can do: post_chat of app/api/chat.py, which is ask() of  *)
(* Chat behind the rate limit and before the plan's message warning;       *)
(* post_message_feedback; and post_transcript with                         *)
(* app/services/transcript_email.py.                                       *)
(*                                                                         *)
(* A message is rated by its id, which the widget has from the answer.  A  *)
(* transcript is read in one transaction, mailed outside of any, and only  *)
(* then is the address recorded on the conversation.  The knowledge base   *)
(* stands still here; Chat is where it changes.                            *)
(***************************************************************************)
EXTENDS Chat

CONSTANTS
  Addresses, IpLimit, TenantLimit, Minutes,   \* see RateLimit
  MessageLimit,      \* plan_tier.message_limit
  Voters, Mailers,   \* feedback and transcript calls; each arrives at most once
  Emails, NoEmail

ASSUME VisitorAssumption ==
  /\ IpLimit \in Nat /\ TenantLimit \in Nat /\ Minutes \subseteq Nat
  /\ MessageLimit \in Nat \ {0} /\ NoEmail \notin Emails

VARIABLES
  count, gate,   \* see RateLimit
  response,      \* what post_chat returned: the answer with or without the
                 \* warning, or an error
  feedback,      \* message_feedback rows
  vote, mail,    \* where each feedback and transcript call is
  sent,          \* e-mails that went out
  visitorEmail   \* conversation.visitor_email

postVars == <<count, gate, response>>
sideVars == <<feedback, vote, mail, sent, visitorEmail>>
visitorVars == <<vars, count, gate, response, feedback, vote, mail, sent, visitorEmail>>

Limit == INSTANCE RateLimit WITH Requests <- Asks, Hosts <- Tenants

\* The call that sent a rating stands for the rating.
Feedback == [message : Nat, tenant : Tenants, rating : Voters]
Mail == [conv : Conversations, tenant : Tenants, email : Emails, ids : SUBSET Nat]

VisitorTypeOK ==
  /\ TypeOK
  /\ Limit!GateType
  /\ response \in [Asks -> {"none", "plain", "warned", "error"}]
  /\ feedback \subseteq Feedback
  /\ vote \in [Voters -> [at : {"idle", "insert", "done", "raised"}, row : SUBSET Feedback]]
  /\ mail \in [Mailers -> [at : {"idle", "send", "record", "done", "raised"}, body : SUBSET Mail]]
  /\ sent \subseteq Mail
  /\ visitorEmail \in [Conversations -> Emails \cup {NoEmail}]

VisitorInit ==
  /\ Init
  /\ Limit!GateInit
  /\ response = [a \in Asks |-> "none"]
  /\ feedback = {} /\ sent = {}
  /\ vote = [v \in Voters |-> [at |-> "idle", row |-> {}]]
  /\ mail = [x \in Mailers |-> [at |-> "idle", body |-> {}]]
  /\ visitorEmail = [c \in Conversations |-> NoEmail]

-----------------------------------------------------------------------------
(* post_chat                                                               *)

Gate(a) ==
  /\ Limit!CountAddress(a) \/ Limit!CountTenant(a) \/ Limit!GateFails(a)
  /\ UNCHANGED <<vars, response, sideVars>>

\* ask() begins for a request that was let in, with the tenant it came for.
Enter(a) ==
  /\ gate[a].at = "open"
  /\ ReadHistory(a) /\ tenant'[a] = gate[a].host
  /\ UNCHANGED <<postVars, sideVars>>

AskStep(a) == Step(a) /\ UNCHANGED <<postVars, sideVars>>

UsedBy(t) == Cardinality({m \in messages : m.tenant = t /\ m.role = "user"})

\* Mutated form: the limit itself goes without a warning.
WarnAbove(a) ==
  /\ pc[a] = "done" /\ response[a] = "none"
  /\ \/ response' = [response EXCEPT ![a] =
          IF UsedBy(tenant[a]) > MessageLimit THEN "warned" ELSE "plain"]
     \/ response' = [response EXCEPT ![a] = "error"]
  /\ UNCHANGED <<vars, count, gate, sideVars>>

\* message_limit_warning, in transactions of its own after the turn's commit;
\* one that fails turns the stored answer into a 500.
Warn(a) ==
  /\ pc[a] = "done" /\ response[a] = "none"
  /\ \/ response' = [response EXCEPT ![a] =
          IF UsedBy(tenant[a]) >= MessageLimit THEN "warned" ELSE "plain"]
     \/ response' = [response EXCEPT ![a] = "error"]
  /\ UNCHANGED <<vars, count, gate, sideVars>>

\* ask() raised: 502 or 500.
Fail(a) ==
  /\ pc[a] = "raised" /\ response[a] = "none"
  /\ response' = [response EXCEPT ![a] = "error"]
  /\ UNCHANGED <<vars, count, gate, sideVars>>

-----------------------------------------------------------------------------
(* post_message_feedback: one transaction; a refusal changes nothing.      *)

Rated == {f.message : f \in feedback}

\* The message is an answer of the tenant (404, 400) and not rated (409).
VoteCheck(v) ==
  /\ vote[v].at = "idle"
  /\ \E m \in messages :
       /\ m.role = "assistant" /\ m.id \notin Rated
       /\ vote' = [vote EXCEPT ![v] = [at |-> "insert",
            row |-> {[message |-> m.id, tenant |-> m.tenant, rating |-> v]}]]
  /\ UNCHANGED <<vars, postVars, feedback, mail, sent, visitorEmail>>

\* Mutated form: a second vote replaces the first.
VoteInsertReplacing(v) ==
  /\ vote[v].at = "insert"
  /\ feedback' = {f \in feedback : \A g \in vote[v].row : f.message # g.message} \cup vote[v].row
  /\ vote' = [vote EXCEPT ![v].at = "done"]
  /\ UNCHANGED <<vars, postVars, mail, sent, visitorEmail>>

\* The unique key on message_id refuses what another vote has inserted since.
VoteInsert(v) ==
  /\ vote[v].at = "insert"
  /\ \/ /\ \A f \in vote[v].row : f.message \notin Rated
        /\ feedback' = feedback \cup vote[v].row
        /\ vote' = [vote EXCEPT ![v].at = "done"]
     \/ /\ \E f \in vote[v].row : f.message \in Rated
        /\ vote' = [vote EXCEPT ![v].at = "raised"]
        /\ UNCHANGED feedback
  /\ UNCHANGED <<vars, postVars, mail, sent, visitorEmail>>

-----------------------------------------------------------------------------
(* send_transcript_email                                                   *)

\* Mutated form: the messages of turns that have not committed are read too.
BuildDirty(x) ==
  /\ mail[x].at = "idle"
  /\ \E t \in Tenants, c \in Conversations, e \in Emails :
       /\ owner[c] = t /\ IdsOf(t, c) # {}
       /\ mail' = [mail EXCEPT ![x] = [at |-> "send", body |->
            {[conv |-> c, tenant |-> t, email |-> e, ids |-> IdsOf(t, c) \cup
               {m.id : m \in {n \in UNION {written[a] : a \in Asks} : n.conv = c}}]}]]
  /\ UNCHANGED <<vars, postVars, feedback, vote, sent, visitorEmail>>

\* build_transcript: the conversation is the tenant's and has messages.
Build(x) ==
  /\ mail[x].at = "idle"
  /\ \E t \in Tenants, c \in Conversations, e \in Emails :
       /\ owner[c] = t /\ IdsOf(t, c) # {}
       /\ mail' = [mail EXCEPT ![x] = [at |-> "send", body |->
            {[conv |-> c, tenant |-> t, email |-> e, ids |-> IdsOf(t, c)]}]]
  /\ UNCHANGED <<vars, postVars, feedback, vote, sent, visitorEmail>>

\* SMTP takes the mail, or fails.
Send(x) ==
  /\ mail[x].at = "send"
  /\ \/ /\ sent' = sent \cup mail[x].body
        /\ mail' = [mail EXCEPT ![x].at = "record"]
     \/ /\ mail' = [mail EXCEPT ![x].at = "raised"]
        /\ UNCHANGED sent
  /\ UNCHANGED <<vars, postVars, feedback, vote, visitorEmail>>

\* UPDATE conversation SET visitor_email, once no turn holds the row.
Record(x) ==
  /\ mail[x].at = "record"
  /\ \E b \in mail[x].body :
       /\ \A a \in Asks : ~HoldsConversation(a, b.conv)
       /\ visitorEmail' = [visitorEmail EXCEPT ![b.conv] = b.email]
  /\ mail' = [mail EXCEPT ![x].at = "done"]
  /\ UNCHANGED <<vars, postVars, feedback, vote, sent>>

\* A turn that is being written keeps the row for longer than the timeout.
RecordFails(x) ==
  /\ mail[x].at = "record"
  /\ \E b \in mail[x].body, a \in Asks : HoldsConversation(a, b.conv)
  /\ mail' = [mail EXCEPT ![x].at = "raised"]
  /\ UNCHANGED <<vars, postVars, feedback, vote, sent, visitorEmail>>

-----------------------------------------------------------------------------
Moving(a) == gate[a].at = "counted" \/ pc[a] \notin {"idle", "done", "raised"}

\* The process dies: every request that has begun ends.
Die ==
  /\ \/ \E a \in Asks : Moving(a)
     \/ \E v \in Voters : vote[v].at = "insert"
     \/ \E x \in Mailers : mail[x].at \in {"send", "record"}
  /\ pc' = [a \in Asks |-> IF pc[a] \in {"idle", "done"} THEN pc[a] ELSE "raised"]
  /\ doomed' = {} /\ purging' = {}
  /\ found' = [a \in Asks |-> {}]
  /\ cited' = [a \in Asks |-> {}]
  /\ written' = [a \in Asks |-> {}]
  /\ gate' = [a \in Asks |-> IF gate[a].at = "counted" \/ (gate[a].at = "open" /\ pc[a] = "idle")
                             THEN [gate[a] EXCEPT !.at = "refused"] ELSE gate[a]]
  /\ response' = [a \in Asks |-> IF response[a] = "none" /\ pc[a] # "idle"
                                 THEN "error" ELSE response[a]]
  /\ vote' = [v \in Voters |-> IF vote[v].at = "insert" THEN [vote[v] EXCEPT !.at = "raised"]
                                                       ELSE vote[v]]
  /\ mail' = [x \in Mailers |-> IF mail[x].at \in {"send", "record"}
                                THEN [mail[x] EXCEPT !.at = "raised"] ELSE mail[x]]
  /\ UNCHANGED <<tableVars, callVars, count, feedback, sent, visitorEmail>>

Rest ==
  /\ \A a \in Asks : response[a] # "none" \/ gate[a].at \in {"new", "refused"}
  /\ UNCHANGED visitorVars

VisitorNext ==
  \/ Rest
  \/ \E a \in Asks : Gate(a) \/ Enter(a) \/ AskStep(a) \/ Warn(a) \/ Fail(a)
  \/ \E v \in Voters : VoteCheck(v) \/ VoteInsert(v)
  \/ \E x \in Mailers : Build(x) \/ Send(x) \/ Record(x) \/ RecordFails(x)
  \/ Die

VisitorSpec == VisitorInit /\ [][VisitorNext]_visitorVars
-----------------------------------------------------------------------------
(* Properties.                                                             *)

\* rate_limit.py: a request that reaches ask() is one its address and its
\* tenant had room for in the minute it was counted in, and no bucket lets
\* in more than its limit.
EnteredWithinLimits ==
  /\ Limit!AdmittedWithinLimits
  /\ \A a \in Asks : pc[a] # "idle" => gate[a].at = "open" /\ tenant[a] = gate[a].host

\* Once a tenant's questions have reached the plan's limit every further
\* answer says so, although the count is a read of its own that overlaps with
\* other questions: fewer answers than the limit are without the warning.
WarnedAtLimit ==
  \A t \in Tenants :
    Cardinality({a \in Asks : tenant[a] = t /\ response[a] = "plain"}) < MessageLimit

\* A vote that was accepted stands, and it is the only one of its answer, an
\* answer of the tenant it was sent to: two votes that both found none do not
\* both count, and the later does not undo the earlier.
VotesStand ==
  /\ \A v \in Voters : vote[v].at = "done" => vote[v].row \subseteq feedback
  /\ \A f, g \in feedback : f.message = g.message => f = g
  /\ \A f \in feedback : \E m \in messages :
       m.id = f.message /\ m.role = "assistant" /\ m.tenant = f.tenant

\* A transcript holds whole turns of its tenant's part of the conversation, from
\* the beginning on, whatever turns were being written while it was read, and
\* nothing of another tenant that has come to share the conversation's id.
MailsAreWhole ==
  \A s \in sent : \A m, n \in messages :
    m.conv = s.conv /\ n.conv = s.conv /\ n.id \in s.ids =>
      /\ n.tenant = s.tenant
      /\ m.tenant = s.tenant /\ (m.id < n.id \/ m.ask = n.ask) => m.id \in s.ids

\* transcript_email.py, "a failed send shouldn't leave a stale opt-in record
\* behind": an address on a conversation is one its transcript has gone to.
OptInAfterSend ==
  \A c \in Conversations : visitorEmail[c] # NoEmail =>
    \E s \in sent : s.conv = c /\ s.email = visitorEmail[c] /\ s.tenant = owner[c]

\* What a transcript mail says is whole, and what is recorded of it has been sent.
TranscriptMails == MailsAreWhole /\ OptInAfterSend
=============================================================================
