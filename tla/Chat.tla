-------------------------------- MODULE Chat --------------------------------
(***************************************************************************)
(* Answering a visitor's question: ask() of app/services/chat.py behind    *)
(* POST /api/chat, and the conversation, message and citation rows it      *)
(* reads and writes.                                                       *)
(*                                                                         *)
(* An ask reads the conversation's history in one transaction, searches in *)
(* two (semantic, then keyword), waits for the LLM holding none, and       *)
(* writes its turn in a last one.  That one starts by inserting or         *)
(* updating the conversation row, whose exclusive lock it keeps until it   *)
(* commits, so that the turns of a conversation are written one by one,    *)
(* and ends with the citations, each of which locks its chunk.  Meanwhile  *)
(* reindexes, syncs and deletions take chunks one by one and remove them,  *)
(* so that a turn and a deletion can wait for each other.                  *)
(*                                                                         *)
(* A client sends any conversation id, or none.  The chunks are one pool:  *)
(* the tenant filter of the searches is left out.  Deletions come one      *)
(* after another.                                                          *)
(***************************************************************************)
EXTENDS Naturals, FiniteSets

CONSTANTS
  Asks,           \* POST /api/chat calls; each arrives at most once
  Tenants,
  Conversations,  \* conversation ids, at least as many as Asks
  Chunks,         \* document_chunk ids, never reused
  NoTenant, NoConversation

ASSUME ChatAssumption ==
  NoTenant \notin Tenants /\ NoConversation \notin Conversations

VARIABLES
  owner,      \* conversation.tenant_id
  messages,   \* committed message rows
  nextId,     \* message AUTO_INCREMENT
  index,      \* chunks that exist and can be searched
  retired,    \* chunks that existed and are gone
  citations,  \* committed citation rows
  doomed,     \* chunks the open deletion is to remove
  purging,    \* those whose rows it has taken
  pc,
  tenant,     \* tenant of the call
  conv,       \* conversation_id, as the call resolves it
  history,    \* ids of the messages it has read as history
  fresh,      \* history: calls that kept an id which no conversation had then
  found,      \* chunk ids its searches returned and it has yet to cite
  cited,      \* chunks its open transaction cites, and has locked
  written     \* message rows of its open transaction

tableVars == <<owner, messages, nextId, index, retired, citations>>
deletionVars == <<doomed, purging>>
callVars == <<tenant, conv, history, fresh>>
turnVars == <<found, cited, written>>
vars == <<owner, messages, nextId, index, retired, citations, doomed, purging,
          pc, tenant, conv, history, fresh, found, cited, written>>

Message == [id : Nat, conv : Conversations, tenant : Tenants,
            role : {"user", "assistant"}, ask : Asks]
Citation == [message : Nat, chunk : Chunks]

AskPc == {"idle", "semantic", "keyword", "llm", "write", "user", "assistant",
          "cite", "done", "raised"}

TypeOK ==
  /\ owner \in [Conversations -> Tenants \cup {NoTenant}]
  /\ messages \subseteq Message
  /\ nextId \in Nat
  /\ index \subseteq Chunks /\ retired \subseteq Chunks \ index
  /\ citations \subseteq Citation
  /\ doomed \subseteq index /\ purging \subseteq doomed
  /\ pc \in [Asks -> AskPc]
  /\ tenant \in [Asks -> Tenants \cup {NoTenant}]
  /\ conv \in [Asks -> Conversations \cup {NoConversation}]
  /\ history \in [Asks -> SUBSET Nat]
  /\ fresh \subseteq Asks
  /\ found \in [Asks -> SUBSET Chunks] /\ cited \in [Asks -> SUBSET Chunks]
  /\ written \in [Asks -> SUBSET Message]

Init ==
  /\ owner = [c \in Conversations |-> NoTenant]
  /\ messages = {} /\ citations = {} /\ nextId = 1
  /\ index = {} /\ retired = {} /\ doomed = {} /\ purging = {}
  /\ pc = [a \in Asks |-> "idle"]
  /\ tenant = [a \in Asks |-> NoTenant]
  /\ conv = [a \in Asks |-> NoConversation]
  /\ history = [a \in Asks |-> {}] /\ fresh = {}
  /\ found = [a \in Asks |-> {}] /\ cited = [a \in Asks |-> {}]
  /\ written = [a \in Asks |-> {}]

-----------------------------------------------------------------------------
Goto(a, to) == pc' = [pc EXCEPT ![a] = to]

\* The call ends with an exception, and an open transaction is rolled back.
Raise(a) ==
  /\ Goto(a, "raised")
  /\ found' = [found EXCEPT ![a] = {}]
  /\ cited' = [cited EXCEPT ![a] = {}]
  /\ written' = [written EXCEPT ![a] = {}]

\* The write transaction of a holds the row of conversation c.
HoldsConversation(a, c) == pc[a] \in {"user", "assistant", "cite"} /\ conv[a] = c

IdsOf(t, c) == {m.id : m \in {n \in messages : n.tenant = t /\ n.conv = c}}

\* a goes on with conversation id c, and with the messages ids as history.
Keep(a, c, ids) ==
  /\ conv' = [conv EXCEPT ![a] = c]
  /\ history' = [history EXCEPT ![a] = ids]
  /\ fresh' = IF owner[c] = NoTenant THEN fresh \cup {a} ELSE fresh

\* Mutated form: an id of another tenant is kept.
ReadHistoryUnguarded(a) ==
  /\ pc[a] = "idle"
  /\ \E t \in Tenants, c \in Conversations \cup {NoConversation} :
       /\ tenant' = [tenant EXCEPT ![a] = t]
       /\ IF c # NoConversation THEN Keep(a, c, IdsOf(t, c))
                                ELSE UNCHANGED <<conv, history, fresh>>
  /\ Goto(a, "semantic")
  /\ UNCHANGED <<tableVars, deletionVars, turnVars>>

\* Mutated form: rows of turns that have not committed are read.
ReadHistoryDirty(a) ==
  /\ pc[a] = "idle"
  /\ \E t \in Tenants, c \in Conversations \cup {NoConversation} :
       /\ tenant' = [tenant EXCEPT ![a] = t]
       /\ IF c # NoConversation /\ owner[c] \in {t, NoTenant}
          THEN Keep(a, c, IdsOf(t, c) \cup
                 {m.id : m \in {n \in UNION {written[b] : b \in Asks} : n.conv = c}})
          ELSE UNCHANGED <<conv, history, fresh>>
  /\ Goto(a, "semantic")
  /\ UNCHANGED <<tableVars, deletionVars, turnVars>>

\* One transaction reads the conversation's tenant and the history.  Only an
\* id of another tenant is dropped, and the ask starts a conversation of its
\* own; an id that no conversation has is kept.
ReadHistory(a) ==
  /\ pc[a] = "idle"
  /\ \E t \in Tenants, c \in Conversations \cup {NoConversation} :
       /\ tenant' = [tenant EXCEPT ![a] = t]
       /\ IF c # NoConversation /\ owner[c] \in {t, NoTenant}
          THEN Keep(a, c, IdsOf(t, c))
          ELSE UNCHANGED <<conv, history, fresh>>
  /\ Goto(a, "semantic")
  /\ UNCHANGED <<tableVars, deletionVars, turnVars>>

\* hybrid_search: two searches, each over the chunks there are when it runs.
SemanticSearch(a) ==
  /\ pc[a] = "semantic"
  /\ \E hits \in SUBSET index : found' = [found EXCEPT ![a] = hits]
  /\ Goto(a, "keyword")
  /\ UNCHANGED <<tableVars, deletionVars, callVars, cited, written>>

\* Below the tenant's confidence threshold nothing found is used.
KeywordSearch(a) ==
  /\ pc[a] = "keyword"
  /\ \/ \E hits \in SUBSET index : found' = [found EXCEPT ![a] = @ \cup hits]
     \/ found' = [found EXCEPT ![a] = {}]
  /\ Goto(a, "llm")
  /\ UNCHANGED <<tableVars, deletionVars, callVars, cited, written>>

\* The provider answers or fails (502); nothing has been written.
CallProvider(a) ==
  /\ pc[a] = "llm"
  /\ \/ Goto(a, "write") /\ UNCHANGED turnVars
     \/ Raise(a)
  /\ UNCHANGED <<tableVars, deletionVars, callVars>>

\* uuid4(): an id that no conversation has and no client has sent.
Unused(c) == owner[c] = NoTenant /\ \A b \in Asks : conv[b] # c

\* Mutated form: the conversation row is not locked by the turn's transaction.
UpsertConversationUnlocked(a) ==
  /\ pc[a] = "write"
  /\ \E c \in Conversations :
       /\ IF conv[a] = NoConversation THEN Unused(c) ELSE c = conv[a]
       /\ conv' = [conv EXCEPT ![a] = c]
  /\ Goto(a, "user")
  /\ UNCHANGED <<tableVars, deletionVars, tenant, history, fresh, turnVars>>

\* INSERT INTO conversation ... ON DUPLICATE KEY UPDATE, with a new id when
\* there is none: takes the row, whoever's it is, and keeps it to the commit.
UpsertConversation(a) ==
  /\ pc[a] = "write"
  /\ \E c \in Conversations :
       /\ IF conv[a] = NoConversation THEN Unused(c) ELSE c = conv[a]
       /\ \A b \in Asks : ~HoldsConversation(b, c)
       /\ conv' = [conv EXCEPT ![a] = c]
  /\ Goto(a, "user")
  /\ UNCHANGED <<tableVars, deletionVars, tenant, history, fresh, turnVars>>

InsertMessage(a, role) ==
  /\ written' = [written EXCEPT ![a] = @ \cup
       {[id |-> nextId, conv |-> conv[a], tenant |-> tenant[a],
         role |-> role, ask |-> a]}]
  /\ nextId' = nextId + 1
  /\ UNCHANGED <<owner, messages, index, retired, citations,
                 deletionVars, callVars, found, cited>>

InsertUser(a) == pc[a] = "user" /\ Goto(a, "assistant") /\ InsertMessage(a, "user")

InsertAssistant(a) ==
  pc[a] = "assistant" /\ Goto(a, "cite") /\ InsertMessage(a, "assistant")

\* Mutated form: citation.chunk_id without its foreign key.
CiteUnchecked(a, k) ==
  /\ pc[a] = "cite"
  /\ k \in found[a]
  /\ found' = [found EXCEPT ![a] = @ \ {k}]
  /\ cited' = [cited EXCEPT ![a] = @ \cup {k}]
  /\ UNCHANGED <<tableVars, deletionVars, callVars, pc, written>>

\* The foreign key locks the chunk, which no deletion has taken.
Cite(a, k) ==
  /\ pc[a] = "cite"
  /\ k \in found[a] \cap index /\ k \notin purging
  /\ found' = [found EXCEPT ![a] = @ \ {k}]
  /\ cited' = [cited EXCEPT ![a] = @ \cup {k}]
  /\ UNCHANGED <<tableVars, deletionVars, callVars, pc, written>>

\* Mutated form: a citation that fails is tried again.
CiteFailsRetrying(a) ==
  /\ pc[a] = "cite"
  /\ ~(found[a] \subseteq index)
  /\ found' = [found EXCEPT ![a] = @ \cup cited[a]]
  /\ cited' = [cited EXCEPT ![a] = {}]
  /\ UNCHANGED <<tableVars, deletionVars, callVars, pc, written>>

\* A chunk that is gone fails its foreign key: the whole turn is rolled back.
CiteFails(a) ==
  /\ pc[a] = "cite"
  /\ ~(found[a] \subseteq index)
  /\ Raise(a)
  /\ UNCHANGED <<tableVars, deletionVars, callVars>>

\* All is cited: the llm_usage_log row and the commit.
Commit(a) ==
  /\ pc[a] = "cite" /\ found[a] = {}
  /\ messages' = messages \cup written[a]
  /\ owner' = [owner EXCEPT ![conv[a]] = IF @ = NoTenant THEN tenant[a] ELSE @]
  /\ citations' = citations \cup
       {[message |-> m.id, chunk |-> k] :
          m \in {n \in written[a] : n.role = "assistant"}, k \in cited[a]}
  /\ Goto(a, "done")
  /\ cited' = [cited EXCEPT ![a] = {}]
  /\ written' = [written EXCEPT ![a] = {}]
  /\ UNCHANGED <<nextId, index, retired, deletionVars, callVars, found>>

\* A wait for another turn of the conversation or for a deletion ends with the
\* lock wait timeout, or at once when the deletion waits for this turn.
LockFails(a) ==
  /\ \/ pc[a] = "write" /\ \E b \in Asks : HoldsConversation(b, conv[a])
     \/ pc[a] = "cite" /\ found[a] \cap purging # {}
  /\ Raise(a)
  /\ UNCHANGED <<tableVars, deletionVars, callVars>>

-----------------------------------------------------------------------------
(* The knowledge base: an ingest adds chunks; a reindex, a sync or a       *)
(* deletion removes those of a document, and their citations by cascade.   *)

AddChunk(k) ==
  /\ k \notin index \cup retired
  /\ index' = index \cup {k}
  /\ UNCHANGED <<owner, messages, nextId, retired, citations, deletionVars,
                 pc, callVars, turnVars>>

\* DELETE FROM document_chunk begins.
Delete ==
  /\ doomed = {}
  /\ \E ks \in SUBSET index : ks # {} /\ doomed' = ks
  /\ UNCHANGED <<tableVars, purging, pc, callVars, turnVars>>

\* It takes the next row, unless an open turn cites it.
Purge(k) ==
  /\ k \in doomed \ purging
  /\ \A a \in Asks : k \notin cited[a]
  /\ purging' = purging \cup {k}
  /\ UNCHANGED <<tableVars, doomed, pc, callVars, turnVars>>

PurgeCommit ==
  /\ doomed # {} /\ purging = doomed
  /\ index' = index \ doomed
  /\ retired' = retired \cup doomed
  /\ citations' = {x \in citations : x.chunk \notin doomed}
  /\ doomed' = {} /\ purging' = {}
  /\ UNCHANGED <<owner, messages, nextId, pc, callVars, turnVars>>

\* It fails, in a wait for a turn or otherwise, and is rolled back.
PurgeFails ==
  /\ doomed # {}
  /\ doomed' = {} /\ purging' = {}
  /\ UNCHANGED <<tableVars, pc, callVars, turnVars>>

\* The server process dies: open transactions are rolled back.
Crash ==
  /\ doomed # {} \/ \E a \in Asks : pc[a] \notin {"idle", "done", "raised"}
  /\ pc' = [a \in Asks |-> IF pc[a] \in {"idle", "done"} THEN pc[a] ELSE "raised"]
  /\ doomed' = {} /\ purging' = {}
  /\ found' = [a \in Asks |-> {}]
  /\ cited' = [a \in Asks |-> {}]
  /\ written' = [a \in Asks |-> {}]
  /\ UNCHANGED <<tableVars, callVars>>

-----------------------------------------------------------------------------
Step(a) ==
  \/ SemanticSearch(a) \/ KeywordSearch(a) \/ CallProvider(a)
  \/ UpsertConversation(a) \/ InsertUser(a) \/ InsertAssistant(a)
  \/ \E k \in Chunks : Cite(a, k)
  \/ CiteFails(a) \/ Commit(a) \/ LockFails(a)

KnowledgeBase ==
  Delete \/ PurgeCommit \/ PurgeFails \/ \E k \in Chunks : AddChunk(k) \/ Purge(k)

\* No question is being answered.
Quiet == (\A a \in Asks : pc[a] \in {"idle", "done", "raised"}) /\ UNCHANGED vars

Next ==
  \/ Quiet \/ KnowledgeBase \/ Crash
  \/ \E a \in Asks : ReadHistory(a) \/ Step(a)

Spec == Init /\ [][Next]_vars

\* A call that has begun goes on.  Nothing is assumed of deletions.
FairSpec == Spec /\ \A a \in Asks : WF_vars(Step(a))
-----------------------------------------------------------------------------
(* Properties.                                                             *)

\* Two asks in one conversation at once (a visitor who asks again after the
\* connection was lost, two API clients) never interleave their turns: a
\* stored question is followed, in message order, by its own answer.  The
\* transcript e-mail orders by id and relies on it.
TurnsPaired ==
  \A m \in messages : m.role = "user" =>
    \E n \in messages :
      /\ n.conv = m.conv /\ n.ask = m.ask /\ n.role = "assistant" /\ m.id < n.id
      /\ \A x \in messages : x.conv = m.conv => ~(m.id < x.id /\ x.id < n.id)

\* What an ask reads as history, and hands to the LLM, is the beginning of
\* what its tenant has in the conversation as it ends up stored: no turn is
\* missing in the middle and none is cut in half, although other asks commit
\* at any time.
HistoryIsPrefix ==
  \A a \in Asks : \A m, n \in messages :
    /\ m.conv = conv[a] /\ n.conv = conv[a] /\ m.tenant = tenant[a]
    /\ n.id \in history[a]
    /\ m.id < n.id \/ m.ask = n.ask
    => m.id \in history[a]

\* No history lends a message of another tenant, although a client can send an
\* id it got from another tenant's chat.  And a message lies in a conversation
\* of another tenant only if its ask kept an id that no conversation had yet:
\* between that check and the upsert another tenant can take the same id.
TenantsSeparated ==
  /\ \A a \in Asks : \A m \in messages : m.id \in history[a] => m.tenant = tenant[a]
  /\ \A m \in messages : m.tenant = owner[m.conv] \/ m.ask \in fresh

\* A citation always leads from a stored answer to a chunk that exists: one
\* found before a reindex and cited after it cannot dangle.
CitationsResolve ==
  \A x \in citations :
    x.chunk \in index /\ \E m \in messages : m.id = x.message /\ m.role = "assistant"

\* Every question that has begun is answered or fails, also when its citations
\* and a deletion of their chunks wait for each other and the deletion does
\* not give way.
AsksEnd == \A a \in Asks : pc[a] # "idle" ~> pc[a] \in {"done", "raised"}
=============================================================================
