---------------------------- MODULE Visitor_proofs ----------------------------
(***************************************************************************)
(* Proofs about Chat for any asks, tenants, conversations and chunks, and  *)
(* about Visitor, which composes it with the other visitor requests.       *)
(*                                                                         *)
(* While an ask holds a conversation's row no other turn of it commits, so *)
(* that every message it writes follows every stored one of the            *)
(* conversation (TurnOK): turns do not interleave, and what was read as    *)
(* history stays a beginning of what is stored.                            *)
(*                                                                         *)
(* Visitor's requests do to the conversations what Chat allows and nothing *)
(* else (StepIsChat), so that Chat's invariant holds there too.  Votes and *)
(* mails name messages, which are never removed, of owners, who never      *)
(* change; the gate and the plan's warning are proved by counting finite   *)
(* sets.                                                                   *)
(***************************************************************************)
EXTENDS Visitor, FiniteSetTheorems, TLAPS

-----------------------------------------------------------------------------
(* Chat by itself.                                                         *)

USE ChatAssumption

Holding(a) == pc[a] \in {"user", "assistant", "cite"}

CallOK(a) ==
  /\ pc[a] # "idle" => tenant[a] \in Tenants
  /\ Holding(a) => /\ conv[a] \in Conversations
                   /\ owner[conv[a]] \in {NoTenant, tenant[a]} \/ a \in fresh
  /\ pc[a] \in {"semantic", "keyword", "llm", "write"} /\ conv[a] # NoConversation =>
       owner[conv[a]] = tenant[a] \/ a \in fresh
  /\ pc[a] = "idle" => conv[a] = NoConversation
  /\ conv[a] = NoConversation => history[a] = {}
  /\ \A i \in history[a] :
       \E m \in messages : m.id = i /\ m.conv = conv[a] /\ m.tenant = tenant[a]

TurnOK(a) ==
  /\ pc[a] \notin {"assistant", "cite"} => written[a] = {}
  /\ \A m \in written[a] :
       m.id < nextId /\ m.conv = conv[a] /\ m.tenant = tenant[a] /\ m.ask = a
  /\ pc[a] = "assistant" => \A m, n \in written[a] : m = n /\ m.role = "user"
  /\ pc[a] = "cite" =>
       \A m \in written[a] : m.role = "user" =>
         \E n \in written[a] :
           /\ n.role = "assistant" /\ m.id < n.id
           /\ \A x \in written[a] : ~(m.id < x.id /\ x.id < n.id)
  /\ \A m \in written[a], x \in messages : x.conv = conv[a] => x.id < m.id

\* A chunk that an open turn cites is there, and no deletion takes it.
ChunksOK(a) ==
  /\ cited[a] \subseteq index \ purging
  /\ pc[a] # "cite" => cited[a] = {}
  /\ pc[a] \in {"idle", "done", "raised"} => found[a] = {}

LocksOK == \A a, b \in Asks : a # b /\ Holding(a) /\ Holding(b) => conv[a] # conv[b]

MessagesOK ==
  /\ \A m \in messages : /\ m.id < nextId /\ pc[m.ask] = "done" /\ owner[m.conv] \in Tenants
                         /\ owner[m.conv] = m.tenant \/ m.ask \in fresh
  /\ \A m, n \in messages : m.id = n.id => m = n
  /\ \A a \in Asks : \A m \in messages, n \in written[a] : m.id # n.id
  /\ \A a, b \in Asks : \A m \in written[a], n \in written[b] : m.id = n.id => m = n

IInv ==
  /\ TypeOK /\ LocksOK /\ MessagesOK
  /\ \A a \in Asks : CallOK(a) /\ TurnOK(a) /\ ChunksOK(a)
  /\ TurnsPaired /\ HistoryIsPrefix /\ CitationsResolve

LEMMA InitIInv == Init => IInv
BY DEF Init, IInv, TypeOK, AskPc, LocksOK, MessagesOK, CallOK, TurnOK, ChunksOK, Holding,
       TurnsPaired, HistoryIsPrefix, CitationsResolve
-----------------------------------------------------------------------------
(* Steps that write no message row.                                        *)

\* A step that leaves the rows, the calls' data and the open turns as they
\* are, and takes or keeps no lock anew.
LEMMA QuietStep ==
  ASSUME IInv, TypeOK', CitationsResolve', \A a \in Asks : ChunksOK(a)',
         UNCHANGED <<owner, messages, nextId, written, callVars>>,
         \A a \in Asks : \/ pc'[a] = pc[a]
                         \/ pc[a] \in {"semantic", "keyword", "llm"}
                            /\ pc'[a] \in {"keyword", "llm", "write"}
  PROVE  IInv'
<1> USE DEF callVars
<1>1. \A a \in Asks : Holding(a)' => Holding(a) /\ pc'[a] = pc[a]
  BY DEF Holding
<1>2. \A a \in Asks : CallOK(a)'
  BY DEF IInv, CallOK, Holding
<1>3. \A a \in Asks : TurnOK(a)'
  BY DEF IInv, TurnOK, Holding
<1>4. LocksOK'
  BY <1>1 DEF IInv, LocksOK
<1>5. MessagesOK'
  <2>1. \A m \in messages : m.ask \in Asks /\ pc[m.ask] = "done"
    BY DEF IInv, MessagesOK, TypeOK, Message
  <2>2. \A m \in messages : pc'[m.ask] = "done"
    BY <2>1
  <2> QED BY <2>2 DEF IInv, MessagesOK
<1>6. TurnsPaired' /\ HistoryIsPrefix'
  BY DEF IInv, TurnsPaired, HistoryIsPrefix
<1> QED BY <1>2, <1>3, <1>4, <1>5, <1>6 DEF IInv

\* A failure rolls the open turn back.
LEMMA RollbackStep ==
  ASSUME IInv, TypeOK', UNCHANGED <<tableVars, callVars>>, purging' \subseteq purging,
         \A a \in Asks : \/ /\ pc'[a] = pc[a] /\ written'[a] = written[a]
                            /\ found'[a] = found[a] /\ cited'[a] = cited[a]
                         \/ /\ pc[a] \notin {"idle", "done"} /\ pc'[a] = "raised"
                            /\ written'[a] = {} /\ found'[a] = {} /\ cited'[a] = {}
  PROVE  IInv'
<1> USE DEF callVars, tableVars
<1>1. \A a \in Asks : CallOK(a)'
  BY DEF IInv, CallOK, Holding
<1>2. \A a \in Asks : TurnOK(a)' /\ ChunksOK(a)'
  BY DEF IInv, TurnOK, ChunksOK
<1>3. LocksOK'
  BY DEF IInv, LocksOK, Holding
<1>4. MessagesOK'
  <2>1. \A m \in messages : pc'[m.ask] = "done"
    BY DEF IInv, MessagesOK, TypeOK, Message
  <2>2. \A a \in Asks : written'[a] \subseteq written[a]
    OBVIOUS
  <2> QED BY <2>1, <2>2 DEF IInv, MessagesOK
<1>5. TurnsPaired' /\ HistoryIsPrefix' /\ CitationsResolve'
  BY DEF IInv, TurnsPaired, HistoryIsPrefix, CitationsResolve
<1> QED BY <1>1, <1>2, <1>3, <1>4, <1>5 DEF IInv

LEMMA RaiseStep ==
  ASSUME IInv, NEW a \in Asks, Raise(a), pc[a] \notin {"idle", "done"},
         UNCHANGED <<tableVars, deletionVars, callVars>>
  PROVE  IInv'
<1>1. /\ TypeOK /\ pc' = [pc EXCEPT ![a] = "raised"] /\ written' = [written EXCEPT ![a] = {}]
      /\ found' = [found EXCEPT ![a] = {}] /\ cited' = [cited EXCEPT ![a] = {}]
      /\ UNCHANGED <<doomed, purging>>
  BY DEF IInv, Raise, Goto, deletionVars
<1>2. TypeOK'
  BY <1>1 DEF TypeOK, AskPc, tableVars, callVars
<1>3. \A b \in Asks : IF b = a
                      THEN /\ pc'[b] = "raised" /\ written'[b] = {}
                           /\ found'[b] = {} /\ cited'[b] = {}
                      ELSE /\ pc'[b] = pc[b] /\ written'[b] = written[b]
                           /\ found'[b] = found[b] /\ cited'[b] = cited[b]
  BY <1>1 DEF TypeOK
<1> QED BY <1>1, <1>2, <1>3, RollbackStep

LEMMA FailureSteps ==
  ASSUME IInv, (\E a \in Asks : LockFails(a) \/ CiteFails(a)) \/ Crash PROVE IInv'
<1>1. ASSUME NEW a \in Asks, LockFails(a) \/ CiteFails(a) PROVE IInv'
  BY <1>1, RaiseStep DEF LockFails, CiteFails
<1>2. CASE Crash
  <2>1. /\ UNCHANGED <<tableVars, callVars>> /\ TypeOK
        /\ pc' = [a \in Asks |-> IF pc[a] \in {"idle", "done"} THEN pc[a] ELSE "raised"]
        /\ doomed' = {} /\ purging' = {} /\ found' = [a \in Asks |-> {}]
        /\ cited' = [a \in Asks |-> {}] /\ written' = [a \in Asks |-> {}]
    BY <1>2 DEF Crash, IInv
  <2>2. TypeOK'
    BY <2>1 DEF TypeOK, AskPc, tableVars, callVars
  <2>3. \A a \in Asks : pc[a] \in {"idle", "done"} =>
          written[a] = {} /\ found[a] = {} /\ cited[a] = {}
    BY DEF IInv, TurnOK, ChunksOK
  <2> QED BY <2>1, <2>2, <2>3, RollbackStep
<1> QED BY <1>1, <1>2

LEMMA SearchSteps ==
  ASSUME IInv, NEW a \in Asks, SemanticSearch(a) \/ KeywordSearch(a) \/ CallProvider(a)
  PROVE  IInv'
<1>1. TypeOK /\ CitationsResolve /\ ChunksOK(a)
  BY DEF IInv
<1>2. CASE CallProvider(a) /\ Raise(a)
  BY <1>2, RaiseStep DEF CallProvider
<1>3. CASE ~(CallProvider(a) /\ Raise(a))
  <2>1. /\ UNCHANGED <<tableVars, deletionVars, callVars, cited, written>>
        /\ found' \in [Asks -> SUBSET Chunks]
        /\ \A b \in Asks \ {a} : found'[b] = found[b]
        /\ pc[a] \in {"semantic", "keyword", "llm"}
        /\ \E to \in {"keyword", "llm", "write"} : pc' = [pc EXCEPT ![a] = to]
    <3>1. CASE SemanticSearch(a)
      BY <1>1, <3>1 DEF SemanticSearch, Goto, TypeOK
    <3>2. CASE KeywordSearch(a)
      BY <1>1, <3>2 DEF KeywordSearch, Goto, TypeOK
    <3>3. CASE CallProvider(a)
      BY <1>1, <1>3, <3>3 DEF CallProvider, Goto, TypeOK, turnVars
    <3> QED BY <3>1, <3>2, <3>3
  <2>2. TypeOK' /\ CitationsResolve'
    BY <1>1, <2>1 DEF TypeOK, AskPc, CitationsResolve, tableVars, deletionVars, callVars
  <2>3. \A b \in Asks : \/ pc'[b] = pc[b]
                        \/ pc[b] \in {"semantic", "keyword", "llm"}
                           /\ pc'[b] \in {"keyword", "llm", "write"}
    BY <1>1, <2>1 DEF TypeOK
  <2>4. \A b \in Asks : IF b = a THEN pc'[b] \in {"keyword", "llm", "write"}
                                 ELSE pc'[b] = pc[b] /\ found'[b] = found[b]
    BY <1>1, <2>1 DEF TypeOK
  <2>5. \A b \in Asks : ChunksOK(b)'
    BY <1>1, <2>1, <2>4 DEF IInv, ChunksOK, tableVars, deletionVars
  <2> QED BY <2>1, <2>2, <2>3, <2>5, QuietStep DEF tableVars
<1> QED BY <1>2, <1>3

\* A citation takes a chunk that is there, and no deletion has taken.
LEMMA CiteStep == ASSUME IInv, NEW a \in Asks, NEW k \in Chunks, Cite(a, k) PROVE IInv'
<1>1. /\ TypeOK /\ CitationsResolve
      /\ pc[a] = "cite" /\ k \in index /\ k \notin purging
      /\ found' = [found EXCEPT ![a] = @ \ {k}]
      /\ cited' = [cited EXCEPT ![a] = @ \cup {k}]
      /\ UNCHANGED <<owner, messages, nextId, index, retired, citations, doomed, purging,
                     callVars, pc, written>>
  BY DEF Cite, IInv, tableVars, deletionVars
<1>2. TypeOK' /\ CitationsResolve'
  BY <1>1 DEF TypeOK, CitationsResolve, callVars
<1>3. \A b \in Asks : IF b = a THEN cited'[b] = cited[b] \cup {k}
                               ELSE cited'[b] = cited[b] /\ found'[b] = found[b]
  BY <1>1 DEF TypeOK
<1>4. \A b \in Asks : ChunksOK(b)'
  BY <1>1, <1>3 DEF IInv, ChunksOK
<1> QED BY <1>1, <1>2, <1>4, QuietStep

\* A deletion takes no chunk that an open turn cites: what it removes at its
\* commit is cited by stored answers only.
LEMMA KnowledgeSteps == ASSUME IInv, KnowledgeBase PROVE IInv'
<1>1. TypeOK /\ CitationsResolve /\ \A a \in Asks : ChunksOK(a)
  BY DEF IInv
<1> DEFINE kept == /\ UNCHANGED <<owner, messages, nextId, pc, callVars, written>>
                   /\ TypeOK' /\ CitationsResolve' /\ \A a \in Asks : ChunksOK(a)'
<1>2. kept
  <2>1. CASE Delete
    BY <1>1, <2>1
    DEF Delete, TypeOK, CitationsResolve, ChunksOK, tableVars, callVars, turnVars
  <2>2. ASSUME NEW k \in Chunks, AddChunk(k) PROVE kept
    BY <1>1, <2>2
    DEF AddChunk, TypeOK, CitationsResolve, ChunksOK, deletionVars, callVars, turnVars
  <2>3. ASSUME NEW k \in Chunks, Purge(k) PROVE kept
    BY <1>1, <2>3
    DEF Purge, TypeOK, CitationsResolve, ChunksOK, tableVars, callVars, turnVars
  <2>4. CASE PurgeCommit
    BY <1>1, <2>4 DEF PurgeCommit, TypeOK, CitationsResolve, ChunksOK, callVars, turnVars
  <2>5. CASE PurgeFails
    BY <1>1, <2>5
    DEF PurgeFails, TypeOK, CitationsResolve, ChunksOK, tableVars, callVars, turnVars
  <2> QED BY <2>1, <2>2, <2>3, <2>4, <2>5 DEF KnowledgeBase
<1> QED BY <1>2, QuietStep

LEMMA ReadHistoryStep == ASSUME IInv, NEW a \in Asks, ReadHistory(a) PROVE IInv'
<1> PICK t \in Tenants, c \in Conversations \cup {NoConversation} :
      /\ tenant' = [tenant EXCEPT ![a] = t]
      /\ IF c # NoConversation /\ owner[c] \in {t, NoTenant}
         THEN Keep(a, c, IdsOf(t, c))
         ELSE UNCHANGED <<conv, history, fresh>>
  BY DEF ReadHistory
<1>1. /\ TypeOK /\ pc[a] = "idle" /\ pc' = [pc EXCEPT ![a] = "semantic"]
      /\ UNCHANGED <<tableVars, deletionVars, turnVars>>
  BY DEF ReadHistory, Goto, IInv
<1>2. TypeOK'
  <2>1. IdsOf(t, c) \subseteq Nat
    BY <1>1 DEF IdsOf, TypeOK, Message
  <2> QED BY <1>1, <2>1 DEF TypeOK, AskPc, Keep, tableVars, deletionVars, turnVars
<1>3. /\ \A b \in Asks \ {a} : /\ pc'[b] = pc[b] /\ tenant'[b] = tenant[b]
                               /\ conv'[b] = conv[b] /\ history'[b] = history[b]
      /\ pc'[a] = "semantic" /\ tenant'[a] = t
      /\ \/ /\ c # NoConversation /\ conv'[a] = c
            /\ owner[c] = t \/ a \in fresh'
            /\ history'[a] = IdsOf(t, c)
         \/ conv'[a] = conv[a] /\ history'[a] = {} /\ conv[a] = NoConversation
      /\ written[a] = {} /\ fresh \subseteq fresh'
      /\ \A b \in Asks \ {a} : (b \in fresh') <=> (b \in fresh)
  <2>1. history[a] = {} /\ written[a] = {} /\ conv[a] = NoConversation
    BY <1>1 DEF IInv, CallOK, TurnOK
  <2> QED BY <1>1, <2>1 DEF TypeOK, Keep
<1>4. \A b \in Asks : CallOK(b)'
  <2>1. \A b \in Asks \ {a} : CallOK(b)'
    BY <1>1, <1>3 DEF IInv, CallOK, Holding, tableVars
  <2>2. CallOK(a)'
    BY <1>1, <1>3 DEF CallOK, Holding, tableVars, IdsOf
  <2> QED BY <2>1, <2>2
<1>5. \A b \in Asks : TurnOK(b)' /\ ChunksOK(b)'
  BY <1>1, <1>3 DEF IInv, TurnOK, ChunksOK, tableVars, deletionVars, turnVars
<1>6. LocksOK'
  BY <1>3 DEF IInv, LocksOK, Holding
<1>7. MessagesOK'
  <2>1. \A m \in messages : m.ask # a /\ m.ask \in Asks
    BY <1>1 DEF IInv, MessagesOK, TypeOK, Message
  <2> QED BY <1>1, <1>3, <2>1 DEF IInv, MessagesOK, tableVars, turnVars
<1>8. TurnsPaired' /\ CitationsResolve'
  BY <1>1 DEF IInv, TurnsPaired, CitationsResolve, tableVars
<1>9. HistoryIsPrefix'
  <2>1. \A m \in messages : m.conv = c /\ m.tenant = t => m.id \in IdsOf(t, c)
    BY DEF IdsOf
  <2> QED BY <1>1, <1>3, <2>1 DEF IInv, HistoryIsPrefix, tableVars
<1> QED BY <1>2, <1>4, <1>5, <1>6, <1>7, <1>8, <1>9 DEF IInv
-----------------------------------------------------------------------------
(* The turn's transaction.                                                 *)

\* The row is taken when nobody holds it: a conversation has one writer.
LEMMA UpsertStep == ASSUME IInv, NEW a \in Asks, UpsertConversation(a) PROVE IInv'
<1> PICK c \in Conversations :
      /\ IF conv[a] = NoConversation THEN Unused(c) ELSE c = conv[a]
      /\ \A b \in Asks : ~HoldsConversation(b, c)
      /\ conv' = [conv EXCEPT ![a] = c]
  BY DEF UpsertConversation
<1>1. /\ TypeOK /\ pc[a] = "write" /\ pc' = [pc EXCEPT ![a] = "user"]
      /\ UNCHANGED <<tableVars, deletionVars, tenant, history, fresh, turnVars>>
  BY DEF UpsertConversation, Goto, IInv
<1>2. TypeOK'
  BY <1>1 DEF TypeOK, AskPc, tableVars, deletionVars, turnVars
<1>3. /\ \A b \in Asks \ {a} : pc'[b] = pc[b] /\ conv'[b] = conv[b]
      /\ pc'[a] = "user" /\ conv'[a] = c
      /\ conv[a] # NoConversation => c = conv[a]
      /\ conv[a] = NoConversation => owner[c] = NoTenant
      /\ \A b \in Asks \ {a} : Holding(b) => conv[b] # c
  BY <1>1 DEF TypeOK, HoldsConversation, Holding, Unused
<1>4. \A b \in Asks : CallOK(b)'
  <2>1. \A b \in Asks \ {a} : CallOK(b)'
    BY <1>1, <1>3 DEF IInv, CallOK, Holding, tableVars
  <2>2. CallOK(a)'
    BY <1>1, <1>3 DEF IInv, CallOK, Holding, tableVars
  <2> QED BY <2>1, <2>2
<1>5. \A b \in Asks : TurnOK(b)' /\ ChunksOK(b)'
  BY <1>1, <1>3 DEF IInv, TurnOK, ChunksOK, tableVars, deletionVars, turnVars
<1>6. LocksOK'
  BY <1>3 DEF IInv, LocksOK, Holding
<1>7. MessagesOK'
  <2>1. \A m \in messages : m.ask # a /\ m.ask \in Asks
    BY <1>1 DEF IInv, MessagesOK, TypeOK, Message
  <2> QED BY <1>1, <1>3, <2>1 DEF IInv, MessagesOK, tableVars, turnVars
<1>8. TurnsPaired' /\ CitationsResolve'
  BY <1>1 DEF IInv, TurnsPaired, CitationsResolve, tableVars
<1>9. HistoryIsPrefix'
  <2>1. conv[a] = NoConversation => history[a] = {}
    BY DEF IInv, CallOK
  <2> QED BY <1>1, <1>3, <2>1 DEF IInv, HistoryIsPrefix, tableVars
<1> QED BY <1>2, <1>4, <1>5, <1>6, <1>7, <1>8, <1>9 DEF IInv

\* The new message follows every message there is.
LEMMA InsertSteps ==
  ASSUME IInv, NEW a \in Asks, InsertUser(a) \/ InsertAssistant(a) PROVE IInv'
<1> PICK role \in {"user", "assistant"} :
      /\ InsertMessage(a, role)
      /\ \/ role = "user" /\ pc[a] = "user" /\ pc' = [pc EXCEPT ![a] = "assistant"]
         \/ role = "assistant" /\ pc[a] = "assistant" /\ pc' = [pc EXCEPT ![a] = "cite"]
  BY DEF InsertUser, InsertAssistant, Goto
<1> DEFINE w == [id |-> nextId, conv |-> conv[a], tenant |-> tenant[a],
                 role |-> role, ask |-> a]
<1>1. /\ TypeOK /\ CallOK(a) /\ TurnOK(a) /\ Holding(a) /\ nextId \in Nat
      /\ written' = [written EXCEPT ![a] = @ \cup {w}] /\ nextId' = nextId + 1
      /\ UNCHANGED <<owner, messages, index, retired, citations, doomed, purging,
                     tenant, conv, history, fresh, found, cited>>
  BY DEF InsertMessage, IInv, Holding, TypeOK, deletionVars, callVars
<1>2. w \in Message
  BY <1>1 DEF Message, CallOK, Holding
<1>3. w.id = nextId /\ w.conv = conv[a] /\ w.tenant = tenant[a] /\ w.role = role /\ w.ask = a
  OBVIOUS
<1> HIDE DEF w
<1>4. TypeOK'
  BY <1>1, <1>2 DEF TypeOK, AskPc
<1>5. /\ \A b \in Asks \ {a} : pc'[b] = pc[b] /\ written'[b] = written[b]
      /\ written'[a] = written[a] \cup {w}
      /\ \/ role = "user" /\ pc[a] = "user" /\ pc'[a] = "assistant"
         \/ role = "assistant" /\ pc[a] = "assistant" /\ pc'[a] = "cite"
  BY <1>1 DEF TypeOK
<1>6. /\ \A m \in messages : m.id < nextId /\ m.id \in Nat /\ m.ask \in Asks /\ m.ask # a
      /\ \A b \in Asks : \A m \in written[b] : m.id < nextId /\ m.id \in Nat
  BY <1>1 DEF IInv, MessagesOK, TurnOK, TypeOK, Message, Holding
<1>7. \A b \in Asks : CallOK(b)'
  BY <1>1, <1>5 DEF IInv, CallOK, Holding
<1>8. \A b \in Asks \ {a} : TurnOK(b)'
  BY <1>1, <1>5, <1>6 DEF IInv, TurnOK
<1>9. TurnOK(a)'
  <2>1. \A m \in written'[a] :
          m.id < nextId' /\ m.conv = conv[a] /\ m.tenant = tenant[a] /\ m.ask = a
    BY <1>1, <1>3, <1>5, <1>6 DEF TurnOK
  <2>2. \A m \in written'[a], x \in messages : x.conv = conv[a] => x.id < m.id
    BY <1>1, <1>3, <1>5, <1>6 DEF TurnOK
  <2>3. CASE role = "user"
    BY <1>1, <1>3, <1>5, <2>1, <2>2, <2>3 DEF TurnOK
  <2>4. CASE role = "assistant"
    <3>1. \A m, n \in written[a] : m = n
      BY <1>1, <1>5, <2>4 DEF TurnOK
    <3>2. ASSUME NEW m \in written'[a], m.role = "user"
          PROVE  \E n \in written'[a] :
                   /\ n.role = "assistant" /\ m.id < n.id
                   /\ \A x \in written'[a] : ~(m.id < x.id /\ x.id < n.id)
      <4>1. m \in written[a] /\ m.id < w.id
        BY <1>3, <1>5, <1>6, <2>4, <3>2
      <4>2. \A x \in written'[a] : x = m \/ x = w
        BY <1>5, <3>1, <4>1
      <4>3. \A x \in written'[a] : ~(m.id < x.id /\ x.id < w.id)
        BY <4>2, <1>1, <1>3, <1>6, <4>1
      <4> QED BY <1>3, <1>5, <2>4, <4>1, <4>3
    <3> QED BY <1>1, <1>5, <2>1, <2>2, <2>4, <3>2 DEF TurnOK
  <2> QED BY <2>3, <2>4
<1>10. LocksOK'
  BY <1>1, <1>5 DEF IInv, LocksOK, Holding
<1>11. MessagesOK'
  BY <1>1, <1>3, <1>5, <1>6 DEF IInv, MessagesOK
<1>12. TurnsPaired' /\ HistoryIsPrefix' /\ CitationsResolve'
  BY <1>1 DEF IInv, TurnsPaired, HistoryIsPrefix, CitationsResolve
<1>13. \A b \in Asks : ChunksOK(b)'
  BY <1>1, <1>5 DEF IInv, ChunksOK
<1> QED BY <1>4, <1>7, <1>8, <1>9, <1>10, <1>11, <1>12, <1>13 DEF IInv

\* The commit: the turn follows what is stored of its conversation.
LEMMA CommitStep ==
  ASSUME IInv, NEW a \in Asks, Commit(a) PROVE IInv'
<1> DEFINE new == written[a]
<1> DEFINE cites == {[message |-> m.id, chunk |-> k] :
                       m \in {n \in written[a] : n.role = "assistant"}, k \in cited[a]}
<1>1. /\ TypeOK /\ CallOK(a) /\ TurnOK(a) /\ ChunksOK(a) /\ pc[a] = "cite" /\ found[a] = {}
      /\ messages' = messages \cup new
      /\ owner' = [owner EXCEPT ![conv[a]] = IF @ = NoTenant THEN tenant[a] ELSE @]
      /\ citations' = citations \cup cites
      /\ pc' = [pc EXCEPT ![a] = "done"] /\ written' = [written EXCEPT ![a] = {}]
      /\ cited' = [cited EXCEPT ![a] = {}]
      /\ UNCHANGED <<nextId, index, retired, doomed, purging,
                     tenant, conv, history, fresh, found>>
  BY DEF Commit, Goto, IInv, deletionVars, callVars
<1>2. conv[a] \in Conversations /\ tenant[a] \in Tenants
  BY <1>1 DEF CallOK, Holding
<1>3. new \subseteq Message /\ \A m \in new :
        m.id < nextId /\ m.conv = conv[a] /\ m.tenant = tenant[a] /\ m.ask = a
  BY <1>1 DEF TypeOK, TurnOK
<1>4. \A x \in cites : x \in Citation /\ x.chunk \in index
                        /\ \E m \in new : m.id = x.message /\ m.role = "assistant"
  BY <1>1, <1>3 DEF TypeOK, Citation, Message, ChunksOK
<1>5. /\ \A b \in Asks \ {a} : pc'[b] = pc[b] /\ written'[b] = written[b]
      /\ pc'[a] = "done" /\ written'[a] = {}
      /\ \A d \in Conversations \ {conv[a]} : owner'[d] = owner[d]
      /\ owner[conv[a]] = NoTenant => owner'[conv[a]] = tenant[a]
      /\ owner[conv[a]] # NoTenant => owner'[conv[a]] = owner[conv[a]]
      /\ owner'[conv[a]] \in Tenants /\ (owner'[conv[a]] = tenant[a] \/ a \in fresh)
  BY <1>1, <1>2 DEF TypeOK, CallOK, Holding
<1>6. \A m \in messages : m.conv \in Conversations /\ m.ask \in Asks /\ m.ask # a /\ m.id \in Nat
                          /\ m.tenant \in Tenants
  BY <1>1 DEF IInv, MessagesOK, TypeOK, Message
<1>7. \A m \in messages, n \in new : m.conv = conv[a] => m.id < n.id
  BY <1>1 DEF TurnOK
<1> HIDE DEF new, cites
<1>8. TypeOK'
  BY <1>1, <1>2, <1>3, <1>4 DEF TypeOK, AskPc
<1>9. \A b \in Asks : CallOK(b)'
  <2>1. CallOK(a)'
    BY <1>1, <1>5 DEF CallOK, Holding
  <2>2. ASSUME NEW b \in Asks, b # a PROVE CallOK(b)'
    <3>1. CallOK(b) /\ conv[b] \in Conversations \cup {NoConversation}
      BY <1>1 DEF IInv, TypeOK
    <3>2. Holding(b) => conv[b] # conv[a]
      BY <1>1, <2>2 DEF IInv, LocksOK, Holding
    <3>3. conv[b] # NoConversation /\ owner[conv[b]] = tenant[b] /\ tenant[b] \in Tenants =>
            owner'[conv[b]] = tenant[b]
      BY <1>5, <3>1 DEF ChatAssumption
    <3> QED BY <1>1, <1>5, <2>2, <3>1, <3>2, <3>3 DEF CallOK, Holding
  <2> QED BY <2>1, <2>2
<1>10. \A b \in Asks : TurnOK(b)'
  <2>1. TurnOK(a)'
    BY <1>1, <1>5 DEF TurnOK
  <2>2. ASSUME NEW b \in Asks, b # a PROVE TurnOK(b)'
    <3>1. TurnOK(b) /\ (written[b] # {} => conv[b] # conv[a])
      BY <1>1, <2>2 DEF IInv, LocksOK, Holding, TurnOK
    <3>2. \A m \in written[b], x \in messages' : x.conv = conv[b] => x.id < m.id
      BY <1>1, <1>3, <3>1 DEF TurnOK
    <3> QED BY <1>1, <1>5, <2>2, <3>1, <3>2 DEF TurnOK
  <2> QED BY <2>1, <2>2
<1>11. LocksOK'
  BY <1>1, <1>5 DEF IInv, LocksOK, Holding
<1>12. MessagesOK'
  <2>1. \A m \in messages' : /\ m.id < nextId /\ pc'[m.ask] = "done" /\ owner'[m.conv] \in Tenants
                             /\ owner'[m.conv] = m.tenant \/ m.ask \in fresh
    BY <1>1, <1>3, <1>5, <1>6 DEF IInv, MessagesOK
  <2>2. \A m, n \in messages' : m.id = n.id => m = n
    BY <1>1 DEF IInv, MessagesOK, new
  <2>3. \A b \in Asks : \A m \in messages', n \in written'[b] : m.id # n.id
    <3> SUFFICES ASSUME NEW b \in Asks, NEW m \in messages', NEW n \in written'[b], m.id = n.id
                 PROVE  FALSE
      OBVIOUS
    <3>1. b # a /\ n \in written[b]
      BY <1>5
    <3>2. m \in new
      BY <1>1, <3>1 DEF IInv, MessagesOK
    <3>3. m = n
      BY <3>1, <3>2 DEF IInv, MessagesOK, new
    <3> QED BY <1>3, <3>1, <3>2, <3>3 DEF IInv, TurnOK
  <2>4. \A b, d \in Asks : \A m \in written'[b], n \in written'[d] : m.id = n.id => m = n
    BY <1>5 DEF IInv, MessagesOK
  <2> QED BY <1>1, <2>1, <2>2, <2>3, <2>4 DEF MessagesOK
<1>13. TurnsPaired'
  <2> SUFFICES ASSUME NEW m \in messages', m.role = "user"
               PROVE  \E n \in messages' :
                        /\ n.conv = m.conv /\ n.ask = m.ask /\ n.role = "assistant" /\ m.id < n.id
                        /\ \A x \in messages' : x.conv = m.conv => ~(m.id < x.id /\ x.id < n.id)
    BY DEF TurnsPaired
  <2>1. CASE m \in messages
    <3> PICK n \in messages :
          /\ n.conv = m.conv /\ n.ask = m.ask /\ n.role = "assistant" /\ m.id < n.id
          /\ \A x \in messages : x.conv = m.conv => ~(m.id < x.id /\ x.id < n.id)
      BY <2>1 DEF IInv, TurnsPaired
    <3>1. ASSUME NEW x \in new, x.conv = m.conv PROVE ~(x.id < n.id)
      BY <1>3, <1>6, <1>7, <3>1 DEF Message
    <3> QED BY <1>1, <3>1
  <2>2. CASE m \in new
    <3> PICK n \in new :
          /\ n.role = "assistant" /\ m.id < n.id
          /\ \A x \in new : ~(m.id < x.id /\ x.id < n.id)
      BY <1>1, <2>2 DEF TurnOK, new
    <3>1. ASSUME NEW x \in messages, x.conv = m.conv PROVE ~(m.id < x.id)
      BY <1>3, <1>6, <1>7, <2>2, <3>1 DEF Message
    <3> QED BY <1>1, <1>3, <2>2, <3>1
  <2> QED BY <1>1, <2>1, <2>2
<1>14. HistoryIsPrefix'
  <2> SUFFICES ASSUME NEW b \in Asks, NEW m \in messages', NEW n \in messages',
                      m.conv = conv[b], n.conv = conv[b], m.tenant = tenant[b],
                      n.id \in history[b],
                      m.id < n.id \/ m.ask = n.ask
               PROVE  m.id \in history[b]
    BY <1>1 DEF HistoryIsPrefix
  <2>1. n \in messages
    BY <1>1, <1>12 DEF IInv, CallOK, MessagesOK
  <2>2. ASSUME m \in new PROVE FALSE
    BY <1>3, <1>6, <1>7, <2>1, <2>2 DEF Message
  <2> QED BY <1>1, <2>1, <2>2 DEF IInv, HistoryIsPrefix
<1>15. CitationsResolve'
  BY <1>1, <1>4 DEF IInv, CitationsResolve
<1>16. \A b \in Asks : ChunksOK(b)'
  <2>1. \A b \in Asks : IF b = a THEN cited'[b] = {} ELSE cited'[b] = cited[b]
    BY <1>1 DEF TypeOK
  <2> QED BY <1>1, <1>5, <2>1 DEF IInv, ChunksOK
<1> QED BY <1>8, <1>9, <1>10, <1>11, <1>12, <1>13, <1>14, <1>15, <1>16 DEF IInv

LEMMA NextIInv == IInv /\ [Next]_vars => IInv'
<1> SUFFICES ASSUME IInv, [Next]_vars PROVE IInv'
  OBVIOUS
<1>1. CASE UNCHANGED vars
  <2>1. TypeOK' /\ CitationsResolve' /\ \A a \in Asks : ChunksOK(a)'
    BY <1>1 DEF vars, IInv, TypeOK, CitationsResolve, ChunksOK
  <2> QED BY <1>1, <2>1, QuietStep DEF vars, callVars
<1>2. ASSUME NEW a \in Asks, ReadHistory(a) \/ Step(a) PROVE IInv'
  BY <1>2, ReadHistoryStep, SearchSteps, UpsertStep, InsertSteps, CiteStep, CommitStep,
     FailureSteps DEF Step
<1> QED BY <1>1, <1>2, KnowledgeSteps, FailureSteps DEF Next, Quiet
-----------------------------------------------------------------------------
\* Rows and calls are well typed in every behaviour.
THEOREM TypeCorrect == Spec => []TypeOK
<1>1. IInv => TypeOK
  BY DEF IInv
<1> QED BY <1>1, InitIInv, NextIInv, PTL DEF Spec

\* Whatever asks overlap, fail or die in one conversation, every stored
\* question is followed there by its own answer.
THEOREM TurnsStayPaired == Spec => []TurnsPaired
<1>1. IInv => TurnsPaired
  BY DEF IInv
<1> QED BY <1>1, InitIInv, NextIInv, PTL DEF Spec

\* What an ask has read as history stays the beginning of what its tenant has
\* in the conversation.
THEOREM HistoryStaysPrefix == Spec => []HistoryIsPrefix
<1>1. IInv => HistoryIsPrefix
  BY DEF IInv
<1> QED BY <1>1, InitIInv, NextIInv, PTL DEF Spec

\* No history mixes the messages of two tenants, and a conversation does only
\* by asks that kept an id which no conversation had when they looked.
THEOREM TenantsStaySeparated == Spec => []TenantsSeparated
<1>1. IInv => TenantsSeparated
  BY DEF IInv, MessagesOK, CallOK, TenantsSeparated
<1> QED BY <1>1, InitIInv, NextIInv, PTL DEF Spec

\* No reindex, sync or deletion leaves a citation of nothing.
THEOREM CitationsAlwaysResolve == Spec => []CitationsResolve
<1>1. IInv => CitationsResolve
  BY DEF IInv
<1> QED BY <1>1, InitIInv, NextIInv, PTL DEF Spec

-----------------------------------------------------------------------------
(* With the other requests.                                                *)

USE VisitorAssumption

GateSteps(a) == Limit!CountAddress(a) \/ Limit!CountTenant(a) \/ Limit!GateFails(a)

-----------------------------------------------------------------------------
(* Visitor implements Chat.                                                *)

LEMMA DieRollsBack == ASSUME IInv, Die PROVE Next \/ UNCHANGED vars
<1>1. TypeOK /\ \A a \in Asks : pc[a] \in {"idle", "done", "raised"} =>
                               written[a] = {} /\ found[a] = {} /\ cited[a] = {}
  BY DEF IInv, TurnOK, ChunksOK
<1>2. /\ pc' = [a \in Asks |-> IF pc[a] \in {"idle", "done"} THEN pc[a] ELSE "raised"]
      /\ doomed' = {} /\ purging' = {}
      /\ found' = [a \in Asks |-> {}]
      /\ cited' = [a \in Asks |-> {}]
      /\ written' = [a \in Asks |-> {}]
      /\ UNCHANGED <<tableVars, callVars>>
  BY DEF Die
<1>3. CASE doomed # {} \/ \E a \in Asks : pc[a] \notin {"idle", "done", "raised"}
  <2>1. Crash
    BY <1>2, <1>3 DEF Crash
  <2> QED BY <2>1 DEF Next
<1>4. CASE doomed = {} /\ \A a \in Asks : pc[a] \in {"idle", "done", "raised"}
  <2>1. \A a \in Asks : /\ pc'[a] = pc[a] /\ written'[a] = written[a]
                       /\ found'[a] = found[a] /\ cited'[a] = cited[a]
    BY <1>1, <1>2, <1>4
  <2>2. UNCHANGED <<pc, written, found, cited, doomed, purging>>
    BY <1>1, <1>2, <1>4, <2>1 DEF TypeOK
  <2> QED BY <1>2, <2>2 DEF vars, tableVars, callVars
<1> QED BY <1>3, <1>4

LEMMA StepIsChat == IInv /\ [VisitorNext]_visitorVars => [Next]_vars
<1> SUFFICES ASSUME IInv, [VisitorNext]_visitorVars PROVE Next \/ UNCHANGED vars
  OBVIOUS
<1>1. CASE \E a \in Asks : Enter(a) \/ AskStep(a)
  BY <1>1 DEF Enter, AskStep, Next
<1>2. CASE Die
  BY <1>2, DieRollsBack
<1>3. CASE UNCHANGED vars
  BY <1>3
<1> QED BY <1>1, <1>2, <1>3
        DEF VisitorNext, visitorVars, vars, Rest, Gate, Warn, Fail, VoteCheck,
            VoteInsert, Build, Send, Record, RecordFails

\* The requests of visitors, gated, warned, killed and next to votes and
\* mails, are the asks of Chat.
THEOREM ImplementsChat == VisitorSpec => Spec
<1>1. VisitorInit => Init
  BY DEF VisitorInit
<1> QED BY <1>1, InitIInv, NextIInv, StepIsChat, PTL DEF VisitorSpec, Spec

\* What a step of Chat keeps.
LEMMA ChatKeeps ==
  ASSUME IInv, [Next]_vars
  PROVE  /\ messages \subseteq messages'
         /\ \A c \in Conversations : owner[c] \in Tenants => owner'[c] = owner[c]
         /\ \A a \in Asks : pc[a] # "idle" => pc'[a] # "idle" /\ tenant'[a] = tenant[a]
<1>0. TypeOK
  BY DEF IInv
<1>1. CASE UNCHANGED vars
  BY <1>1 DEF vars
<1>2. ASSUME NEW a \in Asks, Commit(a)
      PROVE  /\ messages \subseteq messages'
             /\ \A c \in Conversations : owner[c] \in Tenants => owner'[c] = owner[c]
             /\ \A b \in Asks : pc[b] # "idle" => pc'[b] # "idle" /\ tenant'[b] = tenant[b]
  <2>1. messages \subseteq messages' /\ UNCHANGED tenant
        /\ owner' = [owner EXCEPT ![conv[a]] = IF @ = NoTenant THEN tenant[a] ELSE @]
    BY <1>2 DEF Commit, callVars
  <2>2. \A b \in Asks : pc[b] # "idle" => pc'[b] # "idle"
    BY <1>0, <1>2 DEF Commit, Goto, TypeOK
  <2>3. \A c \in Conversations : owner[c] # NoTenant => owner'[c] = owner[c]
    BY <1>0, <2>1 DEF TypeOK
  <2> QED BY <2>1, <2>2, <2>3, NoTenant \notin Tenants
<1>3. CASE Crash
  BY <1>0, <1>3 DEF Crash, tableVars, callVars, TypeOK
<1>4. ASSUME NEW a \in Asks, ReadHistory(a)
      PROVE  /\ UNCHANGED <<messages, owner>>
             /\ \A b \in Asks : pc[b] # "idle" => pc'[b] # "idle" /\ tenant'[b] = tenant[b]
  BY <1>0, <1>4 DEF ReadHistory, Goto, TypeOK, tableVars
<1>5. ASSUME NEW a \in Asks,
             \/ SemanticSearch(a) \/ KeywordSearch(a) \/ CallProvider(a)
             \/ UpsertConversation(a) \/ InsertUser(a) \/ InsertAssistant(a)
             \/ CiteFails(a) \/ LockFails(a)
      PROVE  /\ UNCHANGED <<messages, owner>>
             /\ \A b \in Asks : pc[b] # "idle" => pc'[b] # "idle" /\ tenant'[b] = tenant[b]
  BY <1>0, <1>5
  DEF SemanticSearch, KeywordSearch, CallProvider, UpsertConversation, InsertUser,
      InsertAssistant, InsertMessage, CiteFails, LockFails, Raise, Goto, TypeOK, tableVars,
      callVars
<1>6. ASSUME KnowledgeBase \/ \E a \in Asks, k \in Chunks : Cite(a, k)
      PROVE  UNCHANGED <<messages, owner, pc, tenant>>
  BY <1>6 DEF KnowledgeBase, Delete, Purge, PurgeCommit, PurgeFails, AddChunk, Cite,
              tableVars, callVars
<1> QED BY <1>1, <1>2, <1>3, <1>4, <1>5, <1>6 DEF Next, Quiet, Step
-----------------------------------------------------------------------------
(* The gate.                                                               *)

Admitted(b) == {r \in Asks : b \in gate[r].room}

RoomOK ==
  \A b \in Limit!Buckets :
    /\ IsFiniteSet(Admitted(b))
    /\ Cardinality(Admitted(b)) <= count[b]
    /\ Cardinality(Admitted(b)) <= Limit!LimitOf(b[1])

EnteredOK ==
  \A a \in Asks : pc[a] # "idle" => gate[a].at = "open" /\ tenant[a] = gate[a].host

GInv == Limit!GateType /\ RoomOK /\ EnteredOK

LEMMA InitGInv == VisitorInit => GInv
<1> SUFFICES ASSUME VisitorInit PROVE GInv
  OBVIOUS
<1>1. /\ count = [b \in Limit!Buckets |-> 0]
      /\ \A r \in Asks : \E h \in Tenants :
           gate[r] = [at |-> "new", host |-> h, minute |-> 0, room |-> {}]
      /\ \A a \in Asks : pc[a] = "idle"
  BY DEF VisitorInit, Limit!GateInit, Init
<1>2. Limit!GateType
  BY DEF VisitorInit, Limit!GateInit, Limit!GateType
<1>3. \A b \in Limit!Buckets : Admitted(b) = {}
  <2> SUFFICES ASSUME NEW r \in Asks PROVE gate[r].room = {}
    BY DEF Admitted
  <2> PICK h \in Tenants : gate[r] = [at |-> "new", host |-> h, minute |-> 0, room |-> {}]
    BY <1>1
  <2> QED OBVIOUS
<1>4. \A b \in Limit!Buckets : Limit!LimitOf(b[1]) \in Nat
  BY DEF Limit!LimitOf, VisitorAssumption
<1>5. RoomOK
  <2> SUFFICES ASSUME NEW b \in Limit!Buckets
               PROVE  /\ IsFiniteSet(Admitted(b)) /\ Cardinality(Admitted(b)) <= count[b]
                      /\ Cardinality(Admitted(b)) <= Limit!LimitOf(b[1])
    BY DEF RoomOK
  <2>1. IsFiniteSet(Admitted(b)) /\ Cardinality(Admitted(b)) = 0
    BY <1>3, FS_EmptySet
  <2>2. count[b] = 0
    BY <1>1
  <2> QED BY <1>4, <2>1, <2>2
<1>6. EnteredOK
  BY <1>1 DEF EnteredOK
<1> QED BY <1>2, <1>5, <1>6 DEF GInv

\* Counting one request in one bucket lets in at most that one, and only
\* while there is room.
LEMMA CountKeepsRoom ==
  ASSUME Limit!GateType, Limit!GateType', RoomOK, NEW a \in Asks, NEW bucket \in Limit!Buckets,
         count' = [count EXCEPT ![bucket] = @ + 1],
         \A r \in Asks \ {a} : gate'[r] = gate[r],
         gate'[a].room \subseteq gate[a].room \cup Limit!Room(bucket)
  PROVE  RoomOK'
<1> SUFFICES ASSUME NEW b \in Limit!Buckets
             PROVE  /\ IsFiniteSet(Admitted(b)') /\ Cardinality(Admitted(b)') <= count'[b]
                    /\ Cardinality(Admitted(b)') <= Limit!LimitOf(b[1])
  BY DEF RoomOK, Limit!LimitOf, Limit!Buckets
<1>1. /\ IsFiniteSet(Admitted(b)) /\ Cardinality(Admitted(b)) <= count[b]
      /\ Cardinality(Admitted(b)) <= Limit!LimitOf(b[1])
      /\ Cardinality(Admitted(b)) \in Nat /\ count[b] \in Nat /\ Limit!LimitOf(b[1]) \in Nat
  BY FS_CardinalityType DEF RoomOK, Limit!GateType, Limit!LimitOf, VisitorAssumption
<1>2. CASE b = bucket /\ count[b] + 1 <= Limit!LimitOf(b[1])
  <2>1. Admitted(b)' \subseteq Admitted(b) \cup {a}
    BY DEF Admitted
  <2>2. /\ IsFiniteSet(Admitted(b) \cup {a})
        /\ Cardinality(Admitted(b) \cup {a}) =
             IF a \in Admitted(b) THEN Cardinality(Admitted(b)) ELSE Cardinality(Admitted(b)) + 1
    BY <1>1, FS_AddElement
  <2>3. /\ IsFiniteSet(Admitted(b)')
        /\ Cardinality(Admitted(b)') <= Cardinality(Admitted(b) \cup {a})
        /\ Cardinality(Admitted(b)') \in Nat /\ Cardinality(Admitted(b) \cup {a}) \in Nat
    BY <2>1, <2>2, FS_Subset, FS_CardinalityType
  <2>4. count'[b] = count[b] + 1
    BY <1>2 DEF Limit!GateType
  <2> QED BY <1>1, <1>2, <2>2, <2>3, <2>4
<1>3. CASE ~(b = bucket /\ count[b] + 1 <= Limit!LimitOf(b[1]))
  <2>1. b \notin Limit!Room(bucket)
    BY <1>3 DEF Limit!Room
  <2>2. Admitted(b)' \subseteq Admitted(b)
    BY <2>1 DEF Admitted
  <2>3. /\ IsFiniteSet(Admitted(b)')
        /\ Cardinality(Admitted(b)') <= Cardinality(Admitted(b))
        /\ Cardinality(Admitted(b)') \in Nat
    BY <1>1, <2>2, FS_Subset, FS_CardinalityType
  <2>4. count'[b] \in Nat /\ count'[b] >= count[b]
    BY <1>1 DEF Limit!GateType
  <2> QED BY <1>1, <2>3, <2>4
<1> QED BY <1>2, <1>3

\* A step that lets nobody into a bucket.
LEMMA RoomStays ==
  ASSUME RoomOK, UNCHANGED count, \A r \in Asks : gate'[r].room = gate[r].room
  PROVE  RoomOK'
<1>1. \A b : Admitted(b)' = Admitted(b)
  BY DEF Admitted
<1> QED BY <1>1 DEF RoomOK, Limit!LimitOf, Limit!Buckets

LEMMA GateStepsGInv ==
  ASSUME GInv, NEW a \in Asks, GateSteps(a), UNCHANGED <<pc, tenant>> PROVE GInv'
<1>0. Limit!GateType /\ RoomOK /\ EnteredOK /\ gate[a].at \in {"new", "counted"}
  BY DEF GInv, GateSteps, Limit!CountAddress, Limit!CountTenant, Limit!GateFails
<1>1. pc[a] = "idle"
  BY <1>0 DEF EnteredOK
<1> DEFINE G == [at : {"new", "counted", "open", "refused"}, host : Tenants,
                 minute : Minutes \cup {0}, room : SUBSET Limit!Buckets]
<1>2. gate \in [Asks -> G] /\ count \in [Limit!Buckets -> Nat]
  BY <1>0 DEF Limit!GateType
<1>3. CASE Limit!CountAddress(a)
  <2> PICK ip \in Addresses, m \in Minutes :
        /\ count' = [count EXCEPT ![<<ip, m>>] = @ + 1]
        /\ gate' = [gate EXCEPT ![a] = [@ EXCEPT !.at = "counted", !.minute = m,
                                                 !.room = Limit!Room(<<ip, m>>)]]
    BY <1>3 DEF Limit!CountAddress, Limit!Count
  <2>1. <<ip, m>> \in Limit!Buckets /\ Limit!Room(<<ip, m>>) \subseteq Limit!Buckets
    BY DEF Limit!Buckets, Limit!Room
  <2>2. [gate[a] EXCEPT !.at = "counted", !.minute = m, !.room = Limit!Room(<<ip, m>>)] \in G
    BY <1>2, <2>1
  <2>3. Limit!GateType'
    BY <1>2, <2>1, <2>2 DEF Limit!GateType, Limit!Buckets
  <2>4. /\ \A r \in Asks \ {a} : gate'[r] = gate[r]
        /\ gate'[a].room \subseteq Limit!Room(<<ip, m>>)
    BY <1>2
  <2>5. RoomOK'
    BY <1>0, <2>1, <2>3, <2>4, CountKeepsRoom
  <2>6. EnteredOK'
    BY <1>0, <1>1, <2>4 DEF EnteredOK
  <2> QED BY <2>3, <2>5, <2>6 DEF GInv
<1>4. CASE Limit!CountTenant(a)
  <2> PICK m \in Minutes, at \in {"open", "refused"} :
        /\ count' = [count EXCEPT ![<<gate[a].host, m>>] = @ + 1]
        /\ gate' = [gate EXCEPT ![a] =
             [@ EXCEPT !.at = at, !.minute = m,
                       !.room = gate[a].room \cup Limit!Room(<<gate[a].host, m>>)]]
    BY <1>4 DEF Limit!CountTenant, Limit!Count
  <2> DEFINE bucket == <<gate[a].host, m>>
             room == gate[a].room \cup Limit!Room(bucket)
  <2>1. bucket \in Limit!Buckets /\ room \subseteq Limit!Buckets
    BY <1>2 DEF Limit!Buckets, Limit!Room
  <2>2. [gate[a] EXCEPT !.at = at, !.minute = m, !.room = room] \in G
    BY <1>2, <2>1
  <2>3. Limit!GateType'
    BY <1>2, <2>1, <2>2 DEF Limit!GateType, Limit!Buckets
  <2>4. /\ \A r \in Asks \ {a} : gate'[r] = gate[r]
        /\ gate'[a].room \subseteq gate[a].room \cup Limit!Room(bucket)
    BY <1>2
  <2>5. RoomOK'
    BY <1>0, <2>1, <2>3, <2>4, CountKeepsRoom
  <2>6. EnteredOK'
    BY <1>0, <1>1, <2>4 DEF EnteredOK
  <2> QED BY <2>3, <2>5, <2>6 DEF GInv
<1>5. CASE Limit!GateFails(a)
  <2>1. /\ \A r \in Asks \ {a} : gate'[r] = gate[r]
        /\ gate'[a].room = gate[a].room /\ count' = count
    BY <1>2, <1>5 DEF Limit!GateFails
  <2>2. Limit!GateType'
    <3> [gate[a] EXCEPT !.at = "refused"] \in G
      BY <1>2
    <3> QED BY <1>2, <1>5 DEF Limit!GateFails, Limit!GateType, Limit!Buckets
  <2>3. RoomOK'
    BY <1>0, <2>1, RoomStays
  <2>4. EnteredOK'
    BY <1>0, <1>1, <2>1 DEF EnteredOK
  <2> QED BY <2>2, <2>3, <2>4 DEF GInv
<1> QED BY <1>3, <1>4, <1>5 DEF GateSteps

\* The instance counts as Visitor does.
LEMMA SameCount == ASSUME NEW S PROVE Limit!Cardinality(S) = Cardinality(S)
BY DEF Limit!Cardinality, Cardinality

LEMMA NextGInv == IInv /\ GInv /\ [VisitorNext]_visitorVars => GInv'
<1> SUFFICES ASSUME IInv, GInv, [VisitorNext]_visitorVars PROVE GInv'
  OBVIOUS
<1>0. TypeOK /\ Limit!GateType /\ RoomOK /\ EnteredOK
  BY DEF IInv, GInv
<1>1. \A a \in Asks : pc[a] # "idle" => pc'[a] # "idle" /\ tenant'[a] = tenant[a]
  BY StepIsChat, ChatKeeps
<1>2. CASE \E a \in Asks : GateSteps(a) /\ UNCHANGED vars
  BY <1>2, GateStepsGInv DEF vars
<1>3. ASSUME NEW a \in Asks, Enter(a) PROVE GInv'
  <2>1. UNCHANGED <<count, gate>> /\ gate[a].at = "open" /\ tenant'[a] = gate[a].host
        /\ \A b \in Asks \ {a} : pc'[b] = pc[b] /\ tenant'[b] = tenant[b]
    BY <1>0, <1>3 DEF Enter, postVars, ReadHistory, Goto, TypeOK
  <2>2. EnteredOK'
    BY <1>0, <2>1 DEF EnteredOK
  <2>3. RoomOK'
    BY <1>0, <2>1, RoomStays
  <2> QED BY <1>0, <2>1, <2>2, <2>3 DEF GInv, Limit!GateType, Limit!Buckets
<1>4. ASSUME UNCHANGED <<count, gate>>, \A a \in Asks : pc'[a] # "idle" => pc[a] # "idle"
      PROVE  GInv'
  <2>1. RoomOK'
    BY <1>0, <1>4, RoomStays
  <2>2. EnteredOK'
    BY <1>0, <1>1, <1>4 DEF EnteredOK
  <2> QED BY <1>0, <1>4, <2>1, <2>2 DEF GInv, Limit!GateType, Limit!Buckets
<1>5. ASSUME NEW a \in Asks, AskStep(a) PROVE GInv'
  <2>1. UNCHANGED <<count, gate>>
    BY <1>5 DEF AskStep, postVars
  <2>2. pc[a] # "idle" /\ \A b \in Asks \ {a} : pc'[b] = pc[b]
    BY <1>0, <1>5
    DEF AskStep, Step, SemanticSearch, KeywordSearch, CallProvider, UpsertConversation,
        InsertUser, InsertAssistant, Cite, CiteFails, Commit, LockFails, Raise, Goto, TypeOK
  <2> QED BY <1>4, <2>1, <2>2
<1>6. CASE Die
  <2> DEFINE ends(a) == gate[a].at = "counted" \/ (gate[a].at = "open" /\ pc[a] = "idle")
  <2>1. /\ count' = count
        /\ gate' = [a \in Asks |-> IF ends(a) THEN [gate[a] EXCEPT !.at = "refused"] ELSE gate[a]]
        /\ \A a \in Asks : (pc'[a] = "idle") <=> (pc[a] = "idle")
    BY <1>6 DEF Die
  <2>2. Limit!GateType'
    BY <1>0, <2>1 DEF Limit!GateType, Limit!Buckets
  <2>3. \A a \in Asks : /\ gate'[a].room = gate[a].room /\ gate'[a].host = gate[a].host
                        /\ ~ends(a) => gate'[a].at = gate[a].at
    BY <1>0, <2>1 DEF Limit!GateType
  <2>4. RoomOK'
    BY <1>0, <2>1, <2>3, RoomStays
  <2>5. EnteredOK'
    BY <1>0, <1>1, <2>1, <2>3 DEF EnteredOK
  <2> QED BY <2>2, <2>4, <2>5 DEF GInv
<1>7. CASE UNCHANGED <<vars, count, gate>>
  BY <1>7, <1>4 DEF vars
<1> QED BY <1>2, <1>3, <1>5, <1>6, <1>7
        DEF VisitorNext, GateSteps, Gate, Warn, Fail, VoteCheck, VoteInsert, Build,
            Send, Record, RecordFails, Rest, visitorVars, postVars

\* However many requests arrive at once: a bucket lets in no more than its
\* limit, and whoever asks was let in, for the tenant it asks.
THEOREM NobodyPassesTheGate == VisitorSpec => []EnteredWithinLimits
<1>1. GInv => EnteredWithinLimits
  <2> SUFFICES ASSUME GInv, NEW b \in Limit!Buckets
               PROVE  Cardinality({r \in Asks : gate[r].at = "open" /\ b \in gate[r].room})
                        <= Limit!LimitOf(b[1])
    BY SameCount DEF GInv, EnteredOK, EnteredWithinLimits, Limit!AdmittedWithinLimits
  <2> DEFINE open == {r \in Asks : gate[r].at = "open" /\ b \in gate[r].room}
  <2>1. open \subseteq Admitted(b)
    BY DEF Admitted
  <2>2. /\ IsFiniteSet(Admitted(b)) /\ Cardinality(Admitted(b)) <= Limit!LimitOf(b[1])
        /\ Limit!LimitOf(b[1]) \in Nat
    BY DEF GInv, RoomOK, Limit!LimitOf, VisitorAssumption
  <2>3. Cardinality(open) <= Cardinality(Admitted(b))
        /\ Cardinality(open) \in Nat /\ Cardinality(Admitted(b)) \in Nat
    BY <2>1, <2>2, FS_Subset, FS_CardinalityType
  <2> HIDE DEF open
  <2>4. Cardinality(open) <= Limit!LimitOf(b[1])
    BY <2>2, <2>3
  <2> QED BY <2>4 DEF open
<1>2. VisitorInit => Init
  BY DEF VisitorInit
<1> QED BY <1>1, <1>2, InitIInv, NextIInv, StepIsChat, InitGInv, NextGInv, PTL DEF VisitorSpec
-----------------------------------------------------------------------------
(* Votes and transcripts.                                                  *)

\* f is a vote on a stored answer of its tenant.
VoteOK(f) == \E m \in messages : m.id = f.message /\ m.role = "assistant" /\ m.tenant = f.tenant

VotesOK ==
  /\ vote \in [Voters -> [at : {"idle", "insert", "done", "raised"}, row : SUBSET Feedback]]
  /\ \A v \in Voters : /\ \A f \in vote[v].row : VoteOK(f)
                       /\ \A f, g \in vote[v].row : f = g
                       /\ vote[v].at = "done" => vote[v].row \subseteq feedback
  /\ \A f \in feedback : VoteOK(f)
  /\ \A f, g \in feedback : f.message = g.message => f = g

LEMMA InitVotesOK == VisitorInit => VotesOK
BY DEF VisitorInit, VotesOK

LEMMA NextVotesOK == IInv /\ VotesOK /\ [VisitorNext]_visitorVars => VotesOK'
<1> SUFFICES ASSUME IInv, VotesOK, [VisitorNext]_visitorVars PROVE VotesOK'
  OBVIOUS
<1>0. messages \subseteq messages'
  BY StepIsChat, ChatKeeps
<1>1. \A f : VoteOK(f) => VoteOK(f)'
  BY <1>0 DEF VoteOK
<1> DEFINE V == [at : {"idle", "insert", "done", "raised"}, row : SUBSET Feedback]
<1>2. vote \in [Voters -> V]
  BY DEF VotesOK
<1>3. CASE UNCHANGED <<feedback, vote>>
  BY <1>1, <1>3 DEF VotesOK
<1>4. ASSUME NEW v \in Voters, VoteCheck(v) PROVE VotesOK'
  <2> PICK m \in messages :
        /\ m.role = "assistant"
        /\ vote' = [vote EXCEPT ![v] = [at |-> "insert",
             row |-> {[message |-> m.id, tenant |-> m.tenant, rating |-> v]}]]
    BY <1>4 DEF VoteCheck
  <2> DEFINE f == [message |-> m.id, tenant |-> m.tenant, rating |-> v]
  <2>1. f \in Feedback /\ VoteOK(f)'
    BY <1>0 DEF Feedback, VoteOK, IInv, TypeOK, Message
  <2> HIDE DEF f
  <2>2. vote' = [vote EXCEPT ![v] = [at |-> "insert", row |-> {f}]]
    BY DEF f
  <2>3. vote' \in [Voters -> V]
    BY <1>2, <2>1, <2>2
  <2>4. \A u \in Voters : IF u = v THEN vote'[u].row = {f} /\ vote'[u].at = "insert"
                                   ELSE vote'[u] = vote[u]
    BY <1>2, <2>2
  <2>5. feedback' = feedback
    BY <1>4 DEF VoteCheck
  <2> QED BY <1>1, <2>1, <2>3, <2>4, <2>5 DEF VotesOK
<1>5. ASSUME NEW v \in Voters, VoteInsert(v) PROVE VotesOK'
  <2>1. \E to \in {"done", "raised"} :
          /\ vote' = [vote EXCEPT ![v].at = to]
          /\ \/ /\ to = "done" /\ feedback' = feedback \cup vote[v].row
                /\ \A f \in vote[v].row : f.message \notin Rated
             \/ to = "raised" /\ feedback' = feedback
    BY <1>5 DEF VoteInsert
  <2>2. /\ vote' \in [Voters -> V] /\ \A u \in Voters : vote'[u].row = vote[u].row
        /\ \A u \in Voters \ {v} : vote'[u] = vote[u]
    BY <1>2, <2>1
  <2>3. vote'[v].at = "done" => vote[v].row \subseteq feedback'
    BY <1>2, <2>1
  <2>4. \A f \in feedback' : f \in feedback \/ f \in vote[v].row
    BY <2>1
  <2>5. feedback \subseteq feedback'
    BY <2>1
  <2>6. \A f, g \in feedback' : f.message = g.message => f = g
    BY <2>1 DEF VotesOK, Rated
  <2>7. \A f \in feedback' : VoteOK(f)'
    BY <1>1, <2>4 DEF VotesOK
  <2> QED BY <1>1, <2>2, <2>3, <2>5, <2>6, <2>7 DEF VotesOK
<1>6. CASE Die
  <2>1. /\ vote' = [v \in Voters |-> IF vote[v].at = "insert" THEN [vote[v] EXCEPT !.at = "raised"]
                                                             ELSE vote[v]]
        /\ feedback' = feedback
    BY <1>6 DEF Die
  <2>2. /\ vote' \in [Voters -> V] /\ \A v \in Voters : vote'[v].row = vote[v].row
        /\ \A v \in Voters : vote'[v].at = "done" => vote[v].at = "done"
    BY <1>2, <2>1
  <2> QED BY <1>1, <2>1, <2>2 DEF VotesOK
<1> QED BY <1>3, <1>4, <1>5, <1>6
        DEF VisitorNext, Gate, Enter, AskStep, Warn, Fail, Build, Send, Record,
            RecordFails, Rest, visitorVars, postVars, sideVars

\* A vote that was accepted stands, alone, on a stored answer of its tenant.
THEOREM VotesAlwaysStand == VisitorSpec => []VotesStand
<1>1. VotesOK => VotesStand
  BY DEF VotesOK, VoteOK, VotesStand
<1>2. VisitorInit => Init
  BY DEF VisitorInit
<1> QED BY <1>1, <1>2, InitIInv, NextIInv, StepIsChat, InitVotesOK, NextVotesOK, PTL
        DEF VisitorSpec
-----------------------------------------------------------------------------
(* Transcripts.                                                            *)

Whole(s) ==
  \A m, n \in messages : m.conv = s.conv /\ n.conv = s.conv /\ n.id \in s.ids =>
    /\ n.tenant = s.tenant
    /\ m.tenant = s.tenant /\ (m.id < n.id \/ m.ask = n.ask) => m.id \in s.ids

\* s holds its tenant's messages of a conversation of it, in whole turns.
MailOK(s) ==
  /\ owner[s.conv] = s.tenant
  /\ \A i \in s.ids : \E m \in messages : m.id = i /\ m.conv = s.conv /\ m.tenant = s.tenant
  /\ Whole(s)

MailsOK ==
  /\ mail \in [Mailers -> [at : {"idle", "send", "record", "done", "raised"}, body : SUBSET Mail]]
  /\ visitorEmail \in [Conversations -> Emails \cup {NoEmail}]
  /\ sent \subseteq Mail
  /\ \A s \in sent : MailOK(s)
  /\ \A x \in Mailers : /\ \A s \in mail[x].body : MailOK(s)
                        /\ mail[x].at = "record" => mail[x].body \subseteq sent
  /\ OptInAfterSend

LEMMA InitMailsOK == VisitorInit => MailsOK
BY DEF VisitorInit, MailsOK, OptInAfterSend

\* A turn that commits is of one ask, and follows what is stored of its
\* conversation.
LEMMA NewMessages ==
  ASSUME IInv, [Next]_vars
  PROVE  \A m \in messages' \ messages :
           \A n \in messages : /\ m.id # n.id /\ m.ask # n.ask
                               /\ m.conv = n.conv => n.id < m.id
<1>1. ASSUME NEW a \in Asks, Commit(a)
      PROVE  \A m \in messages' \ messages :
               \A n \in messages : /\ m.id # n.id /\ m.ask # n.ask
                                   /\ m.conv = n.conv => n.id < m.id
  <2>1. pc[a] = "cite" /\ messages' \ messages \subseteq written[a]
    BY <1>1 DEF Commit
  <2>2. TurnOK(a) /\ MessagesOK
    BY DEF IInv
  <2> SUFFICES ASSUME NEW m \in written[a], NEW n \in messages
               PROVE  /\ m.id # n.id /\ m.ask # n.ask
                      /\ m.conv = n.conv => n.id < m.id
    BY <2>1
  <2>3. m.ask = a /\ m.conv = conv[a]
    BY <2>2 DEF TurnOK
  <2>4. pc[n.ask] = "done" /\ m.id # n.id
    BY <2>2 DEF MessagesOK
  <2>5. m.conv = n.conv => n.id < m.id
    BY <2>2, <2>3 DEF TurnOK
  <2> QED BY <2>1, <2>3, <2>4, <2>5
<1>2. CASE UNCHANGED messages
  BY <1>2
<1> QED BY <1>1, <1>2
        DEF Next, Step, Quiet, Crash, ReadHistory, SemanticSearch, KeywordSearch,
            CallProvider, UpsertConversation, InsertUser, InsertAssistant, InsertMessage,
            Cite, CiteFails, LockFails, KnowledgeBase, Delete, Purge, PurgeCommit, PurgeFails,
            AddChunk, vars, tableVars

\* A mail that is right stays right whatever is asked meanwhile.
LEMMA MailStaysOK ==
  ASSUME IInv, [Next]_vars, NEW s \in Mail, MailOK(s) PROVE MailOK(s)'
<1>1. /\ messages \subseteq messages'
      /\ \A c \in Conversations : owner[c] \in Tenants => owner'[c] = owner[c]
  BY ChatKeeps
<1>2. \A i \in s.ids : \E m \in messages : m.id = i /\ m.conv = s.conv /\ m.tenant = s.tenant
  BY DEF MailOK
<1>3. Whole(s)'
  <2> SUFFICES ASSUME NEW m \in messages', NEW n \in messages',
                      m.conv = s.conv, n.conv = s.conv, n.id \in s.ids
               PROVE  /\ n.tenant = s.tenant
                      /\ m.tenant = s.tenant /\ (m.id < n.id \/ m.ask = n.ask) => m.id \in s.ids
    BY DEF Whole
  <2>1. n \in messages
    BY <1>2, NewMessages
  <2>2. CASE m \in messages
    BY <2>1, <2>2 DEF MailOK, Whole
  <2>3. CASE m \notin messages
    <3>1. n.id < m.id /\ m.ask # n.ask
      BY <2>1, <2>3, NewMessages
    <3>2. n.id \in Nat /\ n.tenant = s.tenant
      BY <2>1 DEF IInv, TypeOK, Message, MailOK, Whole
    <3>3. m.id \in Nat
      <4>1. TypeOK'
        BY NextIInv DEF IInv
      <4> QED BY <4>1 DEF TypeOK, Message
    <3> QED BY <3>1, <3>2, <3>3
  <2> QED BY <2>2, <2>3
<1>4. owner'[s.conv] = s.tenant
  BY <1>1 DEF MailOK, Mail
<1> QED BY <1>1, <1>2, <1>3, <1>4 DEF MailOK

\* What build_transcript reads is whole.
LEMMA ReadIsWhole ==
  ASSUME IInv, NEW t \in Tenants, NEW c \in Conversations, NEW e \in Emails, owner[c] = t
  PROVE  LET s == [conv |-> c, tenant |-> t, email |-> e, ids |-> IdsOf(t, c)]
         IN  s \in Mail /\ MailOK(s)
<1> DEFINE s == [conv |-> c, tenant |-> t, email |-> e, ids |-> IdsOf(t, c)]
<1>1. /\ \A m \in messages : m.id \in Nat
      /\ \A m, n \in messages : m.id = n.id => m = n
  BY DEF IInv, TypeOK, Message, MessagesOK
<1>2. \A i : i \in IdsOf(t, c) <=> \E m \in messages : m.id = i /\ m.tenant = t /\ m.conv = c
  BY DEF IdsOf
<1>3. s \in Mail
  BY <1>1, <1>2 DEF Mail
<1>4. Whole(s)
  BY <1>1, <1>2 DEF Whole
<1> QED BY <1>2, <1>3, <1>4 DEF MailOK

LEMMA NextMailsOK == IInv /\ MailsOK /\ [VisitorNext]_visitorVars => MailsOK'
<1> SUFFICES ASSUME IInv, MailsOK, [VisitorNext]_visitorVars PROVE MailsOK'
  OBVIOUS
<1> DEFINE M == [at : {"idle", "send", "record", "done", "raised"}, body : SUBSET Mail]
<1>1. mail \in [Mailers -> M] /\ sent \subseteq Mail
  BY DEF MailsOK
<1>2. \A s \in Mail : MailOK(s) => MailOK(s)'
  BY StepIsChat, MailStaysOK
<1>3. \A c \in Conversations : owner[c] \in Tenants => owner'[c] = owner[c]
  BY StepIsChat, ChatKeeps
<1>4. ASSUME sent \subseteq sent', UNCHANGED visitorEmail PROVE OptInAfterSend'
  BY <1>1, <1>3, <1>4 DEF MailsOK, OptInAfterSend, Mail
<1>5. CASE UNCHANGED <<mail, sent, visitorEmail>>
  BY <1>1, <1>2, <1>4, <1>5 DEF MailsOK
<1>6. ASSUME NEW x \in Mailers, Build(x) PROVE MailsOK'
  <2>0. PICK t \in Tenants, c \in Conversations, e \in Emails :
          /\ owner[c] = t
          /\ mail' = [mail EXCEPT ![x] = [at |-> "send", body |->
               {[conv |-> c, tenant |-> t, email |-> e, ids |-> IdsOf(t, c)]}]]
    BY <1>6 DEF Build
  <2> PICK s \in Mail : /\ MailOK(s)
                        /\ mail' = [mail EXCEPT ![x] = [at |-> "send", body |-> {s}]]
    BY <2>0, ReadIsWhole
  <2>1. MailOK(s)'
    BY <1>2
  <2>3. /\ mail' \in [Mailers -> M]
        /\ \A y \in Mailers : IF y = x THEN mail'[y].body = {s} /\ mail'[y].at = "send"
                                       ELSE mail'[y] = mail[y]
    BY <1>1
  <2>4. UNCHANGED <<sent, visitorEmail>>
    BY <1>6 DEF Build
  <2> QED BY <1>1, <1>2, <1>4, <2>1, <2>3, <2>4 DEF MailsOK
<1>7. ASSUME NEW x \in Mailers, Send(x) PROVE MailsOK'
  <2> PICK to \in {"record", "raised"} :
        /\ mail' = [mail EXCEPT ![x].at = to]
        /\ sent' = IF to = "record" THEN sent \cup mail[x].body ELSE sent
    BY <1>7 DEF Send
  <2>1. /\ mail' \in [Mailers -> M]
        /\ \A y \in Mailers : mail'[y].body = mail[y].body
        /\ \A y \in Mailers : IF y = x THEN mail'[y].at = to ELSE mail'[y].at = mail[y].at
    BY <1>1
  <2>2. sent \subseteq sent' /\ \A s \in sent' : s \in sent \/ s \in mail[x].body
    OBVIOUS
  <2>3. mail[x].body \subseteq Mail
    BY <1>1
  <2>4. \A s \in sent' : s \in Mail /\ MailOK(s)'
    BY <1>1, <1>2, <2>2, <2>3 DEF MailsOK
  <2>5. \A y \in Mailers : mail'[y].at = "record" => mail'[y].body \subseteq sent'
    BY <2>1, <2>2 DEF MailsOK
  <2>6. \A y \in Mailers : \A s \in mail'[y].body : MailOK(s)'
    BY <1>1, <1>2, <2>1 DEF MailsOK
  <2>7. UNCHANGED visitorEmail
    BY <1>7 DEF Send
  <2>8. OptInAfterSend'
    BY <1>4, <2>2, <2>7
  <2> QED BY <2>1, <2>4, <2>5, <2>6, <2>7, <2>8 DEF MailsOK
<1>8. ASSUME NEW x \in Mailers, NEW to \in {"done", "raised"}, sent' = sent,
             mail' = [mail EXCEPT ![x].at = to]
      PROVE  /\ mail' \in [Mailers -> M] /\ \A s \in sent' : MailOK(s)'
             /\ \A y \in Mailers : /\ \A s \in mail'[y].body : MailOK(s)'
                                   /\ mail'[y].at = "record" => mail'[y].body \subseteq sent'
  <2>1. /\ mail' \in [Mailers -> M]
        /\ \A y \in Mailers : mail'[y].body = mail[y].body
        /\ \A y \in Mailers : IF y = x THEN mail'[y].at = to ELSE mail'[y].at = mail[y].at
    BY <1>1, <1>8
  <2> QED BY <1>1, <1>2, <1>8, <2>1 DEF MailsOK
<1>9. ASSUME NEW x \in Mailers, Record(x) PROVE MailsOK'
  <2> PICK b \in mail[x].body : visitorEmail' = [visitorEmail EXCEPT ![b.conv] = b.email]
    BY <1>9 DEF Record
  <2>1. b \in Mail /\ b \in sent /\ MailOK(b)
    BY <1>1, <1>9 DEF MailsOK, Record
  <2>2. UNCHANGED sent /\ UNCHANGED owner /\ mail' = [mail EXCEPT ![x].at = "done"]
    BY <1>9 DEF Record, vars
  <2>3. visitorEmail' \in [Conversations -> Emails \cup {NoEmail}]
    BY <2>1 DEF MailsOK, Mail
  <2>4. OptInAfterSend'
    BY <2>1, <2>2 DEF MailsOK, OptInAfterSend, MailOK, Mail
  <2> QED BY <1>1, <1>8, <2>2, <2>3, <2>4 DEF MailsOK
<1>10. ASSUME NEW x \in Mailers, RecordFails(x) PROVE MailsOK'
  <2>1. UNCHANGED <<sent, visitorEmail>> /\ mail' = [mail EXCEPT ![x].at = "raised"]
    BY <1>10 DEF RecordFails
  <2> QED BY <1>1, <1>4, <1>8, <2>1 DEF MailsOK
<1>11. CASE Die
  <2>1. /\ mail' = [x \in Mailers |-> IF mail[x].at \in {"send", "record"}
                                      THEN [mail[x] EXCEPT !.at = "raised"] ELSE mail[x]]
        /\ UNCHANGED <<sent, visitorEmail>>
    BY <1>11 DEF Die
  <2>2. /\ mail' \in [Mailers -> M] /\ \A x \in Mailers : mail'[x].body = mail[x].body
        /\ \A x \in Mailers : mail'[x].at # "record"
    BY <1>1, <2>1
  <2> QED BY <1>1, <1>2, <1>4, <2>1, <2>2 DEF MailsOK
<1> QED BY <1>5, <1>6, <1>7, <1>9, <1>10, <1>11
        DEF VisitorNext, Gate, Enter, AskStep, Warn, Fail, VoteCheck, VoteInsert,
            Rest, visitorVars, postVars, sideVars

\* A transcript holds whole turns of its tenant's conversation from the
\* beginning on, and an address is recorded for one that was sent.
THEOREM TranscriptsAreWhole == VisitorSpec => []TranscriptMails
<1>1. MailsOK => TranscriptMails
  BY DEF MailsOK, MailOK, Whole, TranscriptMails, MailsAreWhole
<1>2. VisitorInit => Init
  BY DEF VisitorInit
<1> QED BY <1>1, <1>2, InitIInv, NextIInv, StepIsChat, InitMailsOK, NextMailsOK, PTL
        DEF VisitorSpec
-----------------------------------------------------------------------------
(* The warning.                                                            *)

IsQuestionOf(m, a) == m.ask = a /\ m.role = "user" /\ m.tenant = tenant[a]

\* The question of a turn that is written, or being written, is counted once.
AskedOK ==
  /\ IsFiniteSet(messages)
  /\ \A a \in Asks :
       /\ IsFiniteSet(written[a])
       /\ pc[a] \in {"assistant", "cite"} => \E m \in written[a] : IsQuestionOf(m, a)
       /\ pc[a] = "done" => \E m \in messages : IsQuestionOf(m, a)

LEMMA InitAskedOK == Init => AskedOK
BY FS_EmptySet DEF Init, AskedOK

LEMMA NextAskedOK == IInv /\ AskedOK /\ [Next]_vars => AskedOK'
<1> SUFFICES ASSUME IInv, AskedOK, [Next]_vars PROVE AskedOK'
  OBVIOUS
<1>0. TypeOK
  BY DEF IInv
<1>1. \A a \in Asks : pc[a] # "idle" => tenant'[a] = tenant[a]
  BY ChatKeeps
<1>2. \A a \in Asks : \A m : pc[a] # "idle" /\ IsQuestionOf(m, a) => IsQuestionOf(m, a)'
  BY <1>1 DEF IsQuestionOf
<1>3. ASSUME UNCHANGED <<messages, written>>,
             \A a \in Asks : pc'[a] \in {"assistant", "cite", "done"} => pc'[a] = pc[a]
      PROVE  AskedOK'
  BY <1>2, <1>3 DEF AskedOK
<1>4. CASE UNCHANGED vars
  BY <1>3, <1>4 DEF vars
<1>5. ASSUME NEW a \in Asks,
             \/ ReadHistory(a) \/ SemanticSearch(a) \/ KeywordSearch(a)
             \/ (CallProvider(a) /\ ~Raise(a)) \/ UpsertConversation(a)
      PROVE  AskedOK'
  <2>1. UNCHANGED <<messages, written>>
    BY <1>5 DEF ReadHistory, SemanticSearch, KeywordSearch, CallProvider,
                UpsertConversation, tableVars, turnVars
  <2>2. \E to \in AskPc \ {"assistant", "cite", "done"} : pc' = [pc EXCEPT ![a] = to]
    BY <1>5 DEF ReadHistory, SemanticSearch, KeywordSearch, CallProvider,
                UpsertConversation, Goto, AskPc
  <2> QED BY <1>0, <1>3, <2>1, <2>2 DEF TypeOK
<1>6. ASSUME NEW a \in Asks, NEW role \in {"user", "assistant"}, InsertMessage(a, role),
             NEW to \in {"assistant", "cite"}, pc' = [pc EXCEPT ![a] = to],
             pc[a] # "idle", pc[a] = "assistant" \/ role = "user"
      PROVE  AskedOK'
  <2> DEFINE m == [id |-> nextId, conv |-> conv[a], tenant |-> tenant[a],
                   role |-> role, ask |-> a]
  <2>1. messages' = messages /\ written' = [written EXCEPT ![a] = @ \cup {m}]
    BY <1>6 DEF InsertMessage
  <2>2. role = "user" => IsQuestionOf(m, a)
    BY DEF IsQuestionOf
  <2> HIDE DEF m
  <2>3. IsFiniteSet(written[a] \cup {m})
    BY FS_AddElement DEF AskedOK
  <2>4. \A b \in Asks : IF b = a THEN written'[b] = written[a] \cup {m} /\ pc'[b] = to
                                 ELSE written'[b] = written[b] /\ pc'[b] = pc[b]
    BY <1>0, <1>6, <2>1 DEF TypeOK
  <2>5. \A x \in written[a] \cup {m} : IsQuestionOf(x, a) => IsQuestionOf(x, a)'
    BY <1>2, <1>6
  <2>6. \E x \in written[a] \cup {m} : IsQuestionOf(x, a)'
    BY <1>6, <2>2, <2>5 DEF AskedOK
  <2>7. \A b \in Asks \ {a} :
          /\ IsFiniteSet(written'[b])
          /\ pc'[b] \in {"assistant", "cite"} => \E x \in written'[b] : IsQuestionOf(x, b)'
          /\ pc'[b] = "done" => \E x \in messages' : IsQuestionOf(x, b)'
    BY <1>2, <2>1, <2>4 DEF AskedOK
  <2>8. /\ IsFiniteSet(written'[a]) /\ pc'[a] # "done"
        /\ \E x \in written'[a] : IsQuestionOf(x, a)'
    BY <1>6, <2>3, <2>4, <2>6
  <2> QED BY <2>1, <2>7, <2>8 DEF AskedOK
<1>7. ASSUME NEW a \in Asks, InsertUser(a) \/ InsertAssistant(a) PROVE AskedOK'
  BY <1>6, <1>7 DEF InsertUser, InsertAssistant, Goto
<1>8. ASSUME NEW a \in Asks, Commit(a) PROVE AskedOK'
  <2>1. /\ pc[a] = "cite" /\ written' = [written EXCEPT ![a] = {}]
        /\ messages' = messages \cup written[a] /\ pc' = [pc EXCEPT ![a] = "done"]
    BY <1>8 DEF Commit, Goto
  <2>2. IsFiniteSet(messages')
    <3>1. IsFiniteSet(messages) /\ IsFiniteSet(written[a])
      BY DEF AskedOK
    <3>2. IsFiniteSet(messages \cup written[a])
      BY <3>1, FS_Union
    <3> QED BY <2>1, <3>2
  <2>3. messages \subseteq messages' /\ IsFiniteSet({})
    BY <2>1, FS_EmptySet
  <2>4. \E m \in written[a] : IsQuestionOf(m, a)'
    BY <1>2, <2>1 DEF AskedOK
  <2>5. \A b \in Asks : IF b = a THEN /\ written'[b] = {} /\ pc'[b] = "done"
                                      /\ written[a] \subseteq messages'
                                 ELSE written'[b] = written[b] /\ pc'[b] = pc[b]
    BY <1>0, <2>1 DEF TypeOK
  <2> QED BY <1>2, <2>2, <2>3, <2>4, <2>5 DEF AskedOK
<1>9. ASSUME NEW a \in Asks, Raise(a), UNCHANGED messages PROVE AskedOK'
  <2>1. \A b \in Asks : IF b = a THEN written'[b] = {} /\ pc'[b] = "raised"
                                 ELSE written'[b] = written[b] /\ pc'[b] = pc[b]
    BY <1>0, <1>9 DEF Raise, Goto, TypeOK
  <2> QED BY <1>2, <1>9, <2>1, FS_EmptySet DEF AskedOK
<1>10. CASE Crash
  <2>1. /\ messages' = messages /\ written' = [a \in Asks |-> {}]
        /\ \A a \in Asks : pc'[a] \notin {"assistant", "cite"}
        /\ \A a \in Asks : pc'[a] = "done" => pc[a] = "done"
    BY <1>10 DEF Crash, tableVars
  <2> QED BY <1>2, <2>1, FS_EmptySet DEF AskedOK
<1>11. CASE KnowledgeBase \/ \E a \in Asks, k \in Chunks : Cite(a, k)
  <2>1. UNCHANGED <<messages, written, pc>>
    BY <1>11 DEF KnowledgeBase, Delete, Purge, PurgeCommit, PurgeFails, AddChunk, Cite,
                 tableVars, turnVars
  <2> QED BY <1>3, <2>1
<1>12. ASSUME NEW a \in Asks,
              CiteFails(a) \/ LockFails(a) \/ (CallProvider(a) /\ Raise(a))
       PROVE  AskedOK'
  BY <1>9, <1>12 DEF CiteFails, LockFails, CallProvider, tableVars
<1>13. ASSUME NEW a \in Asks, Step(a) PROVE AskedOK'
  BY <1>5, <1>7, <1>8, <1>11, <1>12, <1>13 DEF Step
<1> QED BY <1>4, <1>5, <1>10, <1>11, <1>13 DEF Next, Quiet

Plain(t) == {a \in Asks : tenant[a] = t /\ response[a] = "plain"}

PlainOK ==
  /\ response \in [Asks -> {"none", "plain", "warned", "error"}]
  /\ \A a \in Asks : response[a] = "plain" => pc[a] = "done"
  /\ WarnedAtLimit

LEMMA InitPlainOK == VisitorInit => PlainOK
<1> SUFFICES ASSUME VisitorInit PROVE PlainOK
  OBVIOUS
<1>1. response = [a \in Asks |-> "none"]
  BY DEF VisitorInit
<1>2. \A t \in Tenants : {a \in Asks : tenant[a] = t /\ response[a] = "plain"} = {}
  BY <1>1
<1>3. WarnedAtLimit
  <2> SUFFICES ASSUME NEW t \in Tenants
               PROVE  Cardinality({a \in Asks : tenant[a] = t /\ response[a] = "plain"})
                        < MessageLimit
    BY DEF WarnedAtLimit
  <2>1. {a \in Asks : tenant[a] = t /\ response[a] = "plain"} = {}
    BY <1>2
  <2>2. Cardinality({}) = 0
    BY FS_EmptySet
  <2> QED BY <2>1, <2>2, VisitorAssumption
<1> QED BY <1>1, <1>3 DEF PlainOK

\* Every ask that is done has a question of its own among those that count.
LEMMA CountCovers ==
  ASSUME TypeOK, AskedOK, NEW t \in Tenants,
         NEW S \in SUBSET {a \in Asks : pc[a] = "done" /\ tenant[a] = t}
  PROVE  Cardinality(S) <= UsedBy(t) /\ Cardinality(S) \in Nat /\ UsedBy(t) \in Nat
<1> DEFINE questions == {m \in messages : m.tenant = t /\ m.role = "user"}
           askers == {a \in Asks : \E m \in questions : m.ask = a}
           f == [m \in questions |-> m.ask]
<1>1. IsFiniteSet(questions)
  BY FS_Subset DEF AskedOK
<1>2. f \in Surjection(questions, askers)
  BY DEF Surjection, TypeOK, Message
<1>3. IsFiniteSet(askers) /\ Cardinality(askers) <= Cardinality(questions)
  <2> HIDE DEF f, askers, questions
  <2> QED BY <1>1, <1>2, FS_Surjection
<1>4. S \subseteq askers
  BY DEF AskedOK, IsQuestionOf
<1>5. IsFiniteSet(S) /\ Cardinality(S) <= Cardinality(askers)
  <2> HIDE DEF askers
  <2> QED BY <1>3, <1>4, FS_Subset
<1>6. Cardinality(S) \in Nat /\ Cardinality(askers) \in Nat /\ Cardinality(questions) \in Nat
  BY <1>1, <1>3, <1>5, FS_CardinalityType
<1>7. UsedBy(t) = Cardinality(questions)
  BY DEF UsedBy
<1> HIDE DEF askers, questions
<1> QED BY <1>3, <1>5, <1>6, <1>7

LEMMA NextPlainOK ==
  IInv /\ EnteredOK /\ AskedOK /\ PlainOK /\ [VisitorNext]_visitorVars => PlainOK'
<1> SUFFICES ASSUME IInv, EnteredOK, AskedOK, PlainOK, [VisitorNext]_visitorVars PROVE PlainOK'
  OBVIOUS
<1>0. TypeOK /\ response \in [Asks -> {"none", "plain", "warned", "error"}]
  BY DEF IInv, PlainOK
<1>1. \A a \in Asks : pc[a] # "idle" => tenant'[a] = tenant[a]
  BY StepIsChat, ChatKeeps
<1>2. ASSUME response' \in [Asks -> {"none", "plain", "warned", "error"}],
             \A a \in Asks : (response'[a] = "plain") <=> (response[a] = "plain"),
             \A a \in Asks : pc[a] = "done" => pc'[a] = "done"
      PROVE  PlainOK'
  <2>1. \A a \in Asks : response'[a] = "plain" => pc'[a] = "done" /\ tenant'[a] = tenant[a]
    BY <1>1, <1>2 DEF PlainOK
  <2>2. \A t \in Tenants : {a \in Asks : tenant'[a] = t /\ response'[a] = "plain"}
                             = {a \in Asks : tenant[a] = t /\ response[a] = "plain"}
    BY <1>2, <2>1
  <2> QED BY <1>2, <2>1, <2>2 DEF PlainOK, WarnedAtLimit
<1>3. ASSUME UNCHANGED response, [Next]_vars PROVE PlainOK'
  <2>1. \A a \in Asks : pc[a] = "done" => pc'[a] = "done"
    BY <1>0, <1>3
    DEF Next, Quiet, Crash, Step, ReadHistory, SemanticSearch, KeywordSearch,
        CallProvider, UpsertConversation, InsertUser, InsertAssistant, InsertMessage,
        Cite, CiteFails, Commit, LockFails, Raise, KnowledgeBase, Delete, Purge, PurgeCommit,
        PurgeFails, AddChunk, Goto, vars, TypeOK
  <2> QED BY <1>0, <1>2, <1>3, <2>1
<1>4. ASSUME NEW a \in Asks, Warn(a) PROVE PlainOK'
  <2>1. UNCHANGED vars /\ pc[a] = "done" /\ response[a] = "none"
    BY <1>4 DEF Warn
  <2>2. CASE /\ response' = [response EXCEPT ![a] = "plain"]
             /\ ~(UsedBy(tenant[a]) >= MessageLimit)
    <3>1. \A b \in Asks : response'[b] = "plain" => pc[b] = "done"
      BY <1>0, <2>1, <2>2 DEF PlainOK
    <3>2. ASSUME NEW t \in Tenants
          PROVE  Cardinality({b \in Asks : tenant[b] = t /\ response'[b] = "plain"})
                   < MessageLimit
      <4> DEFINE S == {b \in Asks : tenant[b] = t /\ response'[b] = "plain"}
      <4>1. CASE t = tenant[a]
        <5>1. S \subseteq {b \in Asks : pc[b] = "done" /\ tenant[b] = t}
          BY <3>1
        <5> HIDE DEF S
        <5>2. Cardinality(S) <= UsedBy(t) /\ Cardinality(S) \in Nat /\ UsedBy(t) \in Nat
          BY <1>0, <5>1, CountCovers
        <5>3. Cardinality(S) < MessageLimit
          BY <2>2, <4>1, <5>2, VisitorAssumption
        <5> QED BY <5>3 DEF S
      <4>2. CASE t # tenant[a]
        <5>1. S = {b \in Asks : tenant[b] = t /\ response[b] = "plain"}
          BY <1>0, <2>2, <4>2
        <5> QED BY <5>1 DEF PlainOK, WarnedAtLimit
      <4> QED BY <4>1, <4>2
    <3>3. response' \in [Asks -> {"none", "plain", "warned", "error"}]
      BY <1>0, <2>2
    <3> QED BY <2>1, <3>1, <3>2, <3>3 DEF PlainOK, WarnedAtLimit, vars
  <2>3. CASE \E r \in {"warned", "error"} : response' = [response EXCEPT ![a] = r]
    BY <1>0, <1>2, <2>1, <2>3 DEF vars
  <2> QED BY <1>4, <2>2, <2>3 DEF Warn
<1>5. ASSUME NEW a \in Asks, Fail(a) PROVE PlainOK'
  BY <1>0, <1>2, <1>5 DEF Fail, vars
<1>6. CASE Die
  BY <1>0, <1>2, <1>6 DEF Die
<1> QED BY <1>3, <1>4, <1>5, <1>6, StepIsChat
        DEF VisitorNext, Gate, Enter, AskStep, VoteCheck, VoteInsert, Build, Send,
            Record, RecordFails, Rest, visitorVars, postVars

\* Fewer answers than the plan's limit go without its warning, however many
\* questions are answered at once.
THEOREM WarningsAreDue == VisitorSpec => []WarnedAtLimit
<1>1. PlainOK => WarnedAtLimit
  BY DEF PlainOK
<1>2. VisitorInit => Init
  BY DEF VisitorInit
<1>3. GInv => EnteredOK
  BY DEF GInv
<1> QED BY <1>1, <1>2, <1>3, InitIInv, NextIInv, StepIsChat, InitGInv, NextGInv, InitAskedOK,
           NextAskedOK, InitPlainOK, NextPlainOK, PTL
        DEF VisitorSpec
=============================================================================
