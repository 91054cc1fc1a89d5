--------------------------- MODULE PromptVersions ---------------------------
(***************************************************************************)
(* A tenant's system prompts: create_version, activate_version and         *)
(* get_active_prompt of app/services/prompt_versions.py.                   *)
(*                                                                         *)
(* Both writers lock the tenant's row in UPDATE tenant and keep it until   *)
(* they commit; what they write is visible to others from the commit on.   *)
(* Every other transaction of the tenant that inserts a row (an ingest, a  *)
(* chat turn) holds the tenant row in shared mode for its foreign key, for *)
(* as long as it runs: the writers wait for those too, or time out.        *)
(***************************************************************************)
EXTENDS Naturals, Sequences, FiniteSets

CONSTANTS
  Calls,       \* create, activate and chat calls; each arrives at most once
  Tenants, Texts,
  Ids,         \* tenant_prompt_version ids, an initial segment of 1, 2, ...
  NoTenant, NoText

ASSUME PromptAssumption ==
  /\ Ids \subseteq Nat \ {0}
  /\ NoTenant \notin Tenants /\ NoText \notin Texts

VARIABLES
  counter,    \* tenant.next_prompt_version_seq
  active,     \* tenant.active_prompt_version_id, 0 for NULL
  versions,   \* committed tenant_prompt_version rows
  nextId,     \* their AUTO_INCREMENT, not undone by a rollback
  sharing,    \* tenants whose row other transactions hold in shared mode
  pc,
  tenant, text,
  number,     \* version number a create has read back
  id          \* the row a create has inserted, or an activate was given

tableVars == <<counter, active, versions, nextId, sharing>>
vars == <<counter, active, versions, nextId, sharing,
          pc, tenant, text, number, id>>

Version == [id : Ids, tenant : Tenants, number : Nat, text : Texts]

PromptPc == {"idle", "create", "bumped", "inserted", "activate", "update",
             "done", "raised"}

TypeOK ==
  /\ counter \in [Tenants -> Nat]
  /\ active \in [Tenants -> Ids \cup {0}]
  /\ versions \subseteq Version
  /\ nextId \in Nat \ {0}
  /\ sharing \subseteq Tenants
  /\ pc \in [Calls -> PromptPc]
  /\ tenant \in [Calls -> Tenants \cup {NoTenant}]
  /\ text \in [Calls -> Texts \cup {NoText}]
  /\ number \in [Calls -> Nat]
  /\ id \in [Calls -> Ids \cup {0}]

Init ==
  /\ counter = [t \in Tenants |-> 0]
  /\ active = [t \in Tenants |-> 0]
  /\ versions = {} /\ nextId = 1 /\ sharing = {}
  /\ pc = [p \in Calls |-> "idle"]
  /\ tenant = [p \in Calls |-> NoTenant]
  /\ text = [p \in Calls |-> NoText]
  /\ number = [p \in Calls |-> 0]
  /\ id = [p \in Calls |-> 0]

-----------------------------------------------------------------------------
Goto(p, to) == pc' = [pc EXCEPT ![p] = to]

\* p's transaction holds the tenant row exclusively.
HoldsTenant(p, t) == pc[p] \in {"bumped", "inserted"} /\ tenant[p] = t

\* The exclusive lock on the tenant row can be granted to p.
TenantRowFree(p) ==
  tenant[p] \notin sharing /\ \A q \in Calls \ {p} : ~HoldsTenant(q, tenant[p])

\* create_prompt_version; a blank text is a 400.
Create(p) ==
  /\ pc[p] = "idle"
  /\ \E t \in Tenants, x \in Texts :
       tenant' = [tenant EXCEPT ![p] = t] /\ text' = [text EXCEPT ![p] = x]
  /\ Goto(p, "create")
  /\ UNCHANGED <<tableVars, number, id>>

\* Mutated form: SELECT MAX(version_number) + 1 takes no lock.
BumpUnlocked(p) ==
  /\ pc[p] = "create"
  /\ number' = [number EXCEPT ![p] = counter[tenant[p]] + 1]
  /\ Goto(p, "bumped")
  /\ UNCHANGED <<tableVars, tenant, text, id>>

\* UPDATE tenant SET next_prompt_version_seq = ... + 1, and the read-back.
Bump(p) ==
  /\ pc[p] = "create"
  /\ TenantRowFree(p)
  /\ number' = [number EXCEPT ![p] = counter[tenant[p]] + 1]
  /\ Goto(p, "bumped")
  /\ UNCHANGED <<tableVars, tenant, text, id>>

\* INSERT; the unique key (tenant_id, version_number) refuses a number twice.
\* Ids bounds the AUTO_INCREMENT of a model.
InsertVersion(p) ==
  /\ pc[p] = "bumped"
  /\ nextId \in Ids
  /\ nextId' = nextId + 1
  /\ IF \E v \in versions : v.tenant = tenant[p] /\ v.number = number[p]
     THEN Goto(p, "raised") /\ UNCHANGED id
     ELSE Goto(p, "inserted") /\ id' = [id EXCEPT ![p] = nextId]
  /\ UNCHANGED <<counter, active, versions, sharing, tenant, text, number>>

\* Mutated form: a new version goes live with its creation.
CommitVersionLive(p) ==
  /\ pc[p] = "inserted"
  /\ versions' = versions \cup {[id |-> id[p], tenant |-> tenant[p],
                                 number |-> number[p], text |-> text[p]]}
  /\ counter' = [counter EXCEPT ![tenant[p]] = number[p]]
  /\ active' = [active EXCEPT ![tenant[p]] = id[p]]
  /\ Goto(p, "done")
  /\ UNCHANGED <<nextId, sharing, tenant, text, number, id>>

CommitVersion(p) ==
  /\ pc[p] = "inserted"
  /\ versions' = versions \cup {[id |-> id[p], tenant |-> tenant[p],
                                 number |-> number[p], text |-> text[p]]}
  /\ counter' = [counter EXCEPT ![tenant[p]] = number[p]]
  /\ Goto(p, "done")
  /\ UNCHANGED <<active, nextId, sharing, tenant, text, number, id>>

\* Mutated form: the id is taken as the caller's own.
ActivateUnchecked(p) ==
  /\ pc[p] = "idle"
  /\ \E t \in Tenants, v \in versions :
       /\ tenant' = [tenant EXCEPT ![p] = t]
       /\ id' = [id EXCEPT ![p] = v.id]
  /\ Goto(p, "update")
  /\ UNCHANGED <<tableVars, text, number>>

\* activate_prompt_version: an id that is not one of the tenant's is a 404.
Activate(p) ==
  /\ pc[p] = "idle"
  /\ \E t \in Tenants, i \in Ids :
       /\ tenant' = [tenant EXCEPT ![p] = t]
       /\ id' = [id EXCEPT ![p] = i]
       /\ Goto(p, IF \E v \in versions : v.id = i /\ v.tenant = t
                  THEN "update" ELSE "done")
  /\ UNCHANGED <<tableVars, text, number>>

\* UPDATE tenant SET active_prompt_version_id, commit.
SetActive(p) ==
  /\ pc[p] = "update"
  /\ TenantRowFree(p)
  /\ active' = [active EXCEPT ![tenant[p]] = id[p]]
  /\ Goto(p, "done")
  /\ UNCHANGED <<counter, versions, nextId, sharing, tenant, text, number, id>>

\* Mutated form: a wait for the tenant row has no end.
NeverTimesOut(p) == FALSE /\ UNCHANGED vars

\* The wait for the tenant row ends in a lock wait timeout: rolled back.
LockWaitTimeout(p) ==
  /\ pc[p] \in {"create", "update"}
  /\ ~TenantRowFree(p)
  /\ Goto(p, "raised")
  /\ UNCHANGED <<tableVars, tenant, text, number, id>>

\* Ingests and chat turns of tenant t begin or are all over.
OthersShare(t) ==
  /\ \A p \in Calls : ~HoldsTenant(p, t)
  /\ sharing' = IF t \in sharing THEN sharing \ {t} ELSE sharing \cup {t}
  /\ UNCHANGED <<counter, active, versions, nextId, pc, tenant, text, number, id>>

\* The server process dies: open transactions are rolled back.
Crash ==
  /\ \E p \in Calls : pc[p] \notin {"idle", "done", "raised"}
  /\ pc' = [p \in Calls |-> IF pc[p] \in {"idle", "done"} THEN pc[p] ELSE "raised"]
  /\ sharing' = {}
  /\ UNCHANGED <<counter, active, versions, nextId, tenant, text, number, id>>

-----------------------------------------------------------------------------
Step(p) ==
  \/ Bump(p) \/ InsertVersion(p) \/ CommitVersion(p)
  \/ SetActive(p) \/ LockWaitTimeout(p)

\* No call is running.
Quiet ==
  (\A p \in Calls : pc[p] \in {"idle", "done", "raised"}) /\ UNCHANGED vars

Running ==
  \/ Quiet
  \/ \E p \in Calls : Create(p) \/ Activate(p) \/ Step(p)
  \/ \E t \in Tenants : OthersShare(t)

Next == Running \/ Crash

Spec == Init /\ [][Next]_vars

\* Each accepted call keeps running; a lock wait is granted or times out.
FairSpec == Spec /\ \A p \in Calls : WF_vars(Step(p))
-----------------------------------------------------------------------------
(* Properties.                                                             *)

\* get_active_prompt: the text a chat of the tenant uses, or the default.
ActivePrompt(t) ==
  IF \E v \in versions : v.id = active[t]
  THEN (CHOOSE v \in versions : v.id = active[t]).text ELSE NoText

\* The tenant's texts in the order of their version numbers.
TextsOf(t) ==
  [n \in 1 .. counter[t] |->
     (CHOOSE v \in versions : v.tenant = t /\ v.number = n).text]

LiveNumber(t) ==
  IF active[t] = 0 THEN 0
  ELSE (CHOOSE v \in versions : v.id = active[t] /\ v.tenant = t).number

Log == INSTANCE PromptLog WITH
  log <- [t \in Tenants |-> TextsOf(t)],
  live <- [t \in Tenants |-> LiveNumber(t)]

\* create_version and activate_version, with their counter, their rollbacks
\* and their lock waits, keep the promise of an append-only log with an
\* explicitly chosen live entry, for every tenant at once.
KeepsLog == Log!LogSpec

\* "concurrent callers serialize cleanly": the version numbers of a tenant
\* are 1, 2, ... without a gap or a repetition, whatever crashed or was rolled
\* back in between, and no create meets the unique key.
NumbersContiguous ==
  /\ \A t \in Tenants :
       {v.number : v \in {w \in versions : w.tenant = t}} = 1 .. counter[t]
  /\ \A v, w \in versions : v.tenant = w.tenant /\ v.number = w.number => v = w
  /\ \A p \in Calls : pc[p] = "inserted" => number[p] = counter[tenant[p]] + 1

\* The prompt that a tenant's chats use was written by that tenant, even if
\* versions are created and activated by several tenants at once.
ActiveIsOwn ==
  \A t \in Tenants : active[t] # 0 => \E v \in versions : v.id = active[t] /\ v.tenant = t

\* Creations and activations end, also next to an ingest that keeps the tenant
\* row for as long as it embeds.
CallsEnd ==
  \A p \in Calls : pc[p] \in {"create", "bumped", "inserted", "update"} ~> pc[p] \in {"done", "raised"}
=============================================================================
