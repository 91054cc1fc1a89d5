------------------------ MODULE PromptVersions_proofs ------------------------
(***************************************************************************)
(* Proofs about PromptVersions for any calls, tenants and texts.  Since a  *)
(* number is read back under the lock that its commit releases, a call     *)
(* that holds the lock holds the tenant's next number (HolderOK); and      *)
(* since numbers are contiguous and ids unique, the rows are a log, as     *)
(* PromptLog promises.                                                     *)
(***************************************************************************)
EXTENDS PromptVersions, SequenceTheorems, TLAPS

USE PromptAssumption

Holding(p) == pc[p] \in {"bumped", "inserted"}

HolderOK(p) ==
  /\ pc[p] # "idle" => tenant[p] \in Tenants
  /\ pc[p] \in {"create", "bumped", "inserted"} => text[p] \in Texts
  /\ Holding(p) => number[p] = counter[tenant[p]] + 1
  /\ pc[p] = "inserted" =>
       id[p] \in Ids /\ id[p] < nextId /\ \A v \in versions : v.id # id[p]
  /\ pc[p] = "update" => \E v \in versions : v.id = id[p] /\ v.tenant = tenant[p]

LocksOK == \A p, q \in Calls : p # q /\ Holding(p) /\ Holding(q) => tenant[p] # tenant[q]

InsertedOK == \A p, q \in Calls : pc[p] = "inserted" /\ pc[q] = "inserted" /\ id[p] = id[q] => p = q

RowsOK ==
  /\ \A v \in versions : v.id < nextId /\ v.number \in 1 .. counter[v.tenant]
  /\ \A v, w \in versions : v.id = w.id => v = w
  /\ \A v, w \in versions : v.tenant = w.tenant /\ v.number = w.number => v = w
  /\ \A t \in Tenants : \A n \in 1 .. counter[t] :
       \E v \in versions : v.tenant = t /\ v.number = n

IInv ==
  /\ TypeOK /\ LocksOK /\ InsertedOK /\ RowsOK /\ ActiveIsOwn
  /\ \A p \in Calls : HolderOK(p)

LEMMA InitIInv == Init => IInv
BY DEF Init, IInv, TypeOK, PromptPc, LocksOK, InsertedOK, RowsOK, ActiveIsOwn, HolderOK, Holding

\* A step of p that commits nothing.
LEMMA CallStep ==
  ASSUME IInv, NEW p \in Calls, TypeOK', UNCHANGED <<counter, active, versions>>,
         nextId' >= nextId,
         \A q \in Calls \ {p} :
           /\ pc'[q] = pc[q] /\ tenant'[q] = tenant[q] /\ text'[q] = text[q]
           /\ number'[q] = number[q] /\ id'[q] = id[q],
         HolderOK(p)',
         Holding(p)' => tenant'[p] = tenant[p]
                        /\ \A q \in Calls \ {p} : Holding(q) => tenant[q] # tenant[p],
         pc'[p] = "inserted" => id'[p] >= nextId
  PROVE  IInv'
<1>0. /\ nextId \in Nat /\ nextId' \in Nat
      /\ \A v \in versions : v.id \in Nat /\ v.id < nextId /\ v.id < nextId'
      /\ \A q \in Calls : pc[q] = "inserted" =>
           id[q] \in Nat /\ id[q] < nextId /\ id[q] < nextId'
  <2>1. nextId \in Nat /\ nextId' \in Nat
    BY DEF IInv, TypeOK
  <2>2. \A v \in versions : v.id \in Nat /\ v.id < nextId
    BY DEF IInv, TypeOK, RowsOK, Version
  <2>3. \A q \in Calls : pc[q] = "inserted" => id[q] \in Nat /\ id[q] < nextId
    BY DEF IInv, HolderOK
  <2> QED BY <2>1, <2>2, <2>3
<1>1. LocksOK'
  BY DEF IInv, LocksOK, Holding
<1>2. InsertedOK'
  <2>1. id'[p] \in Nat
    <3>1. id' \in [Calls -> Ids \cup {0}]
      BY DEF TypeOK
    <3>2. id'[p] \in Ids \cup {0}
      BY <3>1
    <3>3. \A i \in Ids \cup {0} : i \in Nat
      BY PromptAssumption
    <3> QED BY <3>2, <3>3, Zenon
  <2>2. \A q \in Calls \ {p} : pc[q] = "inserted" /\ pc'[p] = "inserted" => id[q] # id'[p]
    BY <1>0, <2>1
  <2> QED BY <2>2 DEF IInv, InsertedOK
<1>3. RowsOK'
  BY <1>0 DEF IInv, RowsOK
<1>4. ActiveIsOwn'
  BY DEF IInv, ActiveIsOwn
<1>5. \A q \in Calls \ {p} : HolderOK(q)'
  BY <1>0 DEF IInv, HolderOK, Holding
<1> QED BY <1>1, <1>2, <1>3, <1>4, <1>5 DEF IInv

LEMMA ArriveSteps ==
  ASSUME IInv, NEW p \in Calls, Create(p) \/ Activate(p) PROVE IInv'
<1>0. TypeOK
  BY DEF IInv
<1>1. CASE Create(p)
  <2>1. TypeOK' /\ nextId' >= nextId
    BY <1>0, <1>1 DEF Create, Goto, TypeOK, PromptPc, tableVars
  <2>2. HolderOK(p)' /\ ~Holding(p)' /\ pc'[p] # "inserted"
    BY <1>0, <1>1 DEF Create, Goto, TypeOK, HolderOK, Holding, tableVars
  <2>3. \A q \in Calls \ {p} :
          /\ pc'[q] = pc[q] /\ tenant'[q] = tenant[q] /\ text'[q] = text[q]
          /\ number'[q] = number[q] /\ id'[q] = id[q]
    BY <1>0, <1>1 DEF Create, Goto, TypeOK
  <2> QED BY <1>1, <2>1, <2>2, <2>3, CallStep DEF Create, tableVars
<1>2. CASE Activate(p)
  <2>1. TypeOK' /\ nextId' >= nextId
    BY <1>0, <1>2 DEF Activate, Goto, TypeOK, PromptPc, tableVars
  <2>2. HolderOK(p)' /\ ~Holding(p)' /\ pc'[p] # "inserted"
    BY <1>0, <1>2 DEF Activate, Goto, TypeOK, HolderOK, Holding, tableVars
  <2>3. \A q \in Calls \ {p} :
          /\ pc'[q] = pc[q] /\ tenant'[q] = tenant[q] /\ text'[q] = text[q]
          /\ number'[q] = number[q] /\ id'[q] = id[q]
    BY <1>0, <1>2 DEF Activate, Goto, TypeOK
  <2> QED BY <1>2, <2>1, <2>2, <2>3, CallStep DEF Activate, tableVars
<1> QED BY <1>1, <1>2

LEMMA WriterSteps ==
  ASSUME IInv, NEW p \in Calls, Bump(p) \/ InsertVersion(p) \/ LockWaitTimeout(p) PROVE IInv'
<1>0. TypeOK /\ HolderOK(p)
  BY DEF IInv
<1>1. CASE Bump(p)
  <2>1. TypeOK' /\ nextId' >= nextId
    BY <1>0, <1>1 DEF Bump, Goto, TypeOK, HolderOK, PromptPc, tableVars
  <2>2. HolderOK(p)' /\ pc'[p] # "inserted"
    BY <1>0, <1>1 DEF Bump, Goto, TypeOK, HolderOK, Holding, tableVars
  <2>3. \A q \in Calls \ {p} :
          /\ pc'[q] = pc[q] /\ tenant'[q] = tenant[q] /\ text'[q] = text[q]
          /\ number'[q] = number[q] /\ id'[q] = id[q]
    BY <1>0, <1>1 DEF Bump, Goto, TypeOK
  <2>4. \A q \in Calls \ {p} : Holding(q) => tenant[q] # tenant[p]
    BY <1>1 DEF Bump, TenantRowFree, HoldsTenant, Holding
  <2> QED BY <1>1, <2>1, <2>2, <2>3, <2>4, CallStep DEF Bump, tableVars
<1>2. CASE InsertVersion(p)
  <2>1. TypeOK' /\ nextId' >= nextId
    BY <1>0, <1>2 DEF InsertVersion, Goto, TypeOK, PromptPc
  <2>2. HolderOK(p)' /\ (pc'[p] = "inserted" => id'[p] >= nextId)
    <3>1. \A v \in versions : v.id < nextId /\ v.id \in Nat
      <4>1. versions \subseteq Version /\ RowsOK
        BY DEF IInv, TypeOK
      <4>2. \A v \in versions : v.id \in Nat
        BY <4>1 DEF Version
      <4> QED BY <4>1, <4>2 DEF RowsOK
    <3>2. nextId \in Ids /\ nextId \in Nat /\ UNCHANGED <<counter, versions, tenant, text, number>>
          /\ nextId' = nextId + 1 /\ pc[p] = "bumped" /\ HolderOK(p)
      BY <1>0, <1>2 DEF InsertVersion, TypeOK
    <3>3. CASE pc' = [pc EXCEPT ![p] = "raised"]
      BY <1>0, <3>2, <3>3 DEF TypeOK, HolderOK, Holding
    <3>4. CASE pc' = [pc EXCEPT ![p] = "inserted"] /\ id' = [id EXCEPT ![p] = nextId]
      <4>1. pc'[p] = "inserted" /\ id'[p] = nextId
        BY <1>0, <3>4 DEF TypeOK
      <4> QED BY <3>1, <3>2, <4>1 DEF HolderOK, Holding
    <3> QED BY <1>2, <3>3, <3>4 DEF InsertVersion, Goto
  <2>3. \A q \in Calls \ {p} :
          /\ pc'[q] = pc[q] /\ tenant'[q] = tenant[q] /\ text'[q] = text[q]
          /\ number'[q] = number[q] /\ id'[q] = id[q]
    BY <1>0, <1>2 DEF InsertVersion, Goto, TypeOK
  <2>4. \A q \in Calls \ {p} : Holding(q) => tenant[q] # tenant[p]
    BY <1>2 DEF InsertVersion, IInv, LocksOK, Holding
  <2> QED BY <1>2, <2>1, <2>2, <2>3, <2>4, CallStep DEF InsertVersion
<1>3. CASE LockWaitTimeout(p)
  <2>1. TypeOK' /\ nextId' >= nextId
    BY <1>0, <1>3 DEF LockWaitTimeout, Goto, TypeOK, PromptPc, tableVars
  <2>2. HolderOK(p)' /\ ~Holding(p)' /\ pc'[p] # "inserted"
    BY <1>0, <1>3 DEF LockWaitTimeout, Goto, TypeOK, HolderOK, Holding, tableVars
  <2>3. \A q \in Calls \ {p} :
          /\ pc'[q] = pc[q] /\ tenant'[q] = tenant[q] /\ text'[q] = text[q]
          /\ number'[q] = number[q] /\ id'[q] = id[q]
    BY <1>0, <1>3 DEF LockWaitTimeout, Goto, TypeOK
  <2> QED BY <1>3, <2>1, <2>2, <2>3, CallStep DEF LockWaitTimeout, tableVars
<1> QED BY <1>1, <1>2, <1>3

LEMMA CommitStep == ASSUME IInv, NEW p \in Calls, CommitVersion(p) PROVE IInv'
<1> DEFINE w == [id |-> id[p], tenant |-> tenant[p], number |-> number[p], text |-> text[p]]
<1>1. /\ TypeOK /\ HolderOK(p) /\ pc[p] = "inserted" /\ pc' = [pc EXCEPT ![p] = "done"]
      /\ versions' = versions \cup {w}
      /\ counter' = [counter EXCEPT ![tenant[p]] = number[p]]
      /\ UNCHANGED <<active, nextId, sharing, tenant, text, number, id>>
  BY DEF CommitVersion, Goto, IInv
<1>2. w \in Version /\ w.id = id[p] /\ w.tenant = tenant[p] /\ w.number = number[p]
      /\ tenant[p] \in Tenants /\ number[p] = counter[tenant[p]] + 1
      /\ counter[tenant[p]] \in Nat /\ number[p] \in Nat
      /\ id[p] < nextId /\ \A v \in versions : v.id # id[p]
  BY <1>1 DEF HolderOK, Holding, Version, TypeOK
<1> HIDE DEF w
<1>3. TypeOK'
  BY <1>1, <1>2 DEF TypeOK, PromptPc
<1>4. /\ counter'[tenant[p]] = number[p]
      /\ \A t \in Tenants \ {tenant[p]} : counter'[t] = counter[t]
      /\ \A q \in Calls \ {p} : pc'[q] = pc[q]
      /\ pc'[p] = "done"
  BY <1>1, <1>2 DEF TypeOK
<1>5. LocksOK' /\ InsertedOK'
  BY <1>1, <1>4 DEF IInv, LocksOK, InsertedOK, Holding
<1>6. \A v \in versions : v.tenant \in Tenants /\ v.number \in Nat
                          /\ v.number \in 1 .. counter[v.tenant] /\ counter[v.tenant] \in Nat
  BY <1>1 DEF IInv, RowsOK, TypeOK, Version
<1>7. \A v \in versions : v.tenant = tenant[p] => v.number # number[p]
  BY <1>2, <1>6
<1>8. RowsOK'
  <2>1. \A v \in versions' : v.id < nextId' /\ v.number \in 1 .. counter'[v.tenant]
    BY <1>1, <1>2, <1>4, <1>6 DEF IInv, RowsOK
  <2>2. \A v, x \in versions' : v.id = x.id => v = x
    BY <1>1, <1>2 DEF IInv, RowsOK
  <2>3. \A v, x \in versions' : v.tenant = x.tenant /\ v.number = x.number => v = x
    BY <1>1, <1>2, <1>7 DEF IInv, RowsOK
  <2>4. ASSUME NEW t \in Tenants, NEW n \in 1 .. counter'[t]
        PROVE  \E v \in versions' : v.tenant = t /\ v.number = n
    <3>1. CASE t = tenant[p] /\ n = number[p]
      BY <1>1, <1>2, <3>1
    <3>2. CASE ~(t = tenant[p] /\ n = number[p])
      <4>1. n \in 1 .. counter[t]
        BY <1>1, <1>2, <1>4, <3>2 DEF TypeOK
      <4> QED BY <1>1, <4>1 DEF IInv, RowsOK
    <3> QED BY <3>1, <3>2
  <2> QED BY <2>1, <2>2, <2>3, <2>4 DEF RowsOK
<1>9. ActiveIsOwn'
  BY <1>1 DEF IInv, ActiveIsOwn
<1>10. ASSUME NEW q \in Calls PROVE HolderOK(q)'
  <2>1. CASE q = p
    BY <1>1, <1>2, <1>4, <2>1 DEF HolderOK, Holding
  <2>2. CASE q # p
    <3>1. HolderOK(q) /\ (Holding(q) => tenant[q] # tenant[p])
          /\ (pc[q] = "inserted" => id[q] # id[p])
      BY <1>1, <2>2 DEF IInv, LocksOK, InsertedOK, Holding
    <3>2. pc[q] # "idle" => tenant[q] \in Tenants
      BY <3>1 DEF HolderOK
    <3>3. Holding(q) => counter'[tenant[q]] = counter[tenant[q]]
      BY <1>4, <3>1, <3>2 DEF Holding
    <3> QED BY <1>1, <1>2, <1>4, <2>2, <3>1, <3>3 DEF HolderOK, Holding
  <2> QED BY <2>1, <2>2
<1> QED BY <1>3, <1>5, <1>8, <1>9, <1>10 DEF IInv

LEMMA OtherSteps ==
  ASSUME IInv,
         \/ \E p \in Calls : SetActive(p)
         \/ \E t \in Tenants : OthersShare(t)
         \/ Crash
  PROVE  IInv'
<1>0. TypeOK
  BY DEF IInv
<1>1. ASSUME NEW p \in Calls, SetActive(p) PROVE IInv'
  <2>1. /\ pc[p] = "update" /\ pc' = [pc EXCEPT ![p] = "done"]
        /\ active' = [active EXCEPT ![tenant[p]] = id[p]]
        /\ UNCHANGED <<counter, versions, nextId, sharing, tenant, text, number, id>>
    BY <1>1 DEF SetActive, Goto
  <2>2. HolderOK(p) /\ tenant[p] \in Tenants
    BY <2>1 DEF IInv, HolderOK
  <2>3. TypeOK'
    BY <1>0, <2>1, <2>2 DEF TypeOK, PromptPc
  <2>4. \A q \in Calls : pc'[q] = pc[q] \/ (pc'[q] = "done" /\ q = p)
    BY <1>0, <2>1 DEF TypeOK
  <2>5. ActiveIsOwn'
    BY <1>0, <2>1, <2>2 DEF IInv, ActiveIsOwn, HolderOK, TypeOK
  <2>6. \A q \in Calls : HolderOK(q)'
    BY <2>1, <2>2, <2>4 DEF IInv, HolderOK, Holding
  <2> QED BY <2>1, <2>3, <2>4, <2>5, <2>6 DEF IInv, LocksOK, InsertedOK, RowsOK, Holding
<1>2. ASSUME NEW t \in Tenants, OthersShare(t) PROVE IInv'
  <2>1. TypeOK'
    BY <1>0, <1>2 DEF OthersShare, TypeOK
  <2> QED BY <1>2, <2>1
          DEF OthersShare, IInv, LocksOK, InsertedOK, RowsOK, ActiveIsOwn, HolderOK, Holding
<1>3. CASE Crash
  <2>1. /\ pc' = [p \in Calls |-> IF pc[p] \in {"idle", "done"} THEN pc[p] ELSE "raised"]
        /\ sharing' = {}
        /\ UNCHANGED <<counter, active, versions, nextId, tenant, text, number, id>>
    BY <1>3 DEF Crash
  <2>2. TypeOK'
    BY <1>0, <2>1 DEF TypeOK, PromptPc
  <2>3. \A q \in Calls : pc'[q] \in {"idle", "done", "raised"} /\ (pc'[q] # "idle" => pc[q] # "idle")
    BY <1>0, <2>1 DEF TypeOK
  <2>4. \A q \in Calls : HolderOK(q)'
    BY <2>1, <2>3 DEF IInv, HolderOK, Holding
  <2> QED BY <2>1, <2>2, <2>3, <2>4 DEF IInv, LocksOK, InsertedOK, RowsOK, ActiveIsOwn, Holding
<1> QED BY <1>1, <1>2, <1>3

LEMMA NextIInv == IInv /\ [Next]_vars => IInv'
<1> SUFFICES ASSUME IInv, [Next]_vars PROVE IInv'
  OBVIOUS
<1>1. CASE UNCHANGED vars
  BY <1>1
  DEF vars, IInv, TypeOK, LocksOK, InsertedOK, RowsOK, ActiveIsOwn, HolderOK, Holding
<1>2. ASSUME NEW p \in Calls, Create(p) \/ Activate(p) \/ Step(p) PROVE IInv'
  BY <1>2, ArriveSteps, WriterSteps, CommitStep, OtherSteps DEF Step
<1>3. CASE \E t \in Tenants : OthersShare(t)
  BY <1>3, OtherSteps
<1>4. CASE Crash
  BY <1>4, OtherSteps
<1> QED BY <1>1, <1>2, <1>3, <1>4 DEF Next, Running, Quiet
-----------------------------------------------------------------------------
\* Rows and calls are well typed in every behaviour.
THEOREM TypeCorrect == Spec => []TypeOK
<1>1. IInv => TypeOK
  BY DEF IInv
<1> QED BY <1>1, InitIInv, NextIInv, PTL DEF Spec

\* The version numbers of a tenant have no gap and no repetition, and no
\* create meets the unique key, whatever waits, fails or is rolled back.
THEOREM NumbersStayContiguous == Spec => []NumbersContiguous
<1>1. IInv => NumbersContiguous
  <2> SUFFICES ASSUME IInv PROVE NumbersContiguous
    OBVIOUS
  <2>1. ASSUME NEW t \in Tenants
        PROVE  {v.number : v \in {w \in versions : w.tenant = t}} = 1 .. counter[t]
    BY DEF IInv, RowsOK
  <2> QED BY <2>1 DEF IInv, RowsOK, HolderOK, Holding, NumbersContiguous
<1> QED BY <1>1, InitIInv, NextIInv, PTL DEF Spec

\* The prompt in use is a version of the tenant that uses it.
THEOREM ActiveStaysOwn == Spec => []ActiveIsOwn
<1>1. IInv => ActiveIsOwn
  BY DEF IInv
<1> QED BY <1>1, InitIInv, NextIInv, PTL DEF Spec
-----------------------------------------------------------------------------
(* PromptVersions implements PromptLog.                                    *)

\* The row of a version number, and of an active id, is the only one.
LEMMA RowOfNumber ==
  ASSUME RowsOK, NEW v \in versions
  PROVE  (CHOOSE w \in versions : w.tenant = v.tenant /\ w.number = v.number) = v
BY DEF RowsOK

RowIn(vs, i, t) == CHOOSE v \in vs : v.id = i /\ v.tenant = t

LEMMA RowOfId ==
  ASSUME NEW vs, \A v, w \in vs : v.id = w.id => v = w, NEW v \in vs
  PROVE  RowIn(vs, v.id, v.tenant) = v
BY DEF RowIn

LEMMA LiveIsRow ==
  ASSUME NEW t \in Tenants
  PROVE  LiveNumber(t) = IF active[t] = 0 THEN 0 ELSE RowIn(versions, active[t], t).number
BY DEF LiveNumber, RowIn

LogOK ==
  \A t \in Tenants :
    /\ TextsOf(t) \in Seq(Texts) /\ Len(TextsOf(t)) = counter[t]
    /\ \A v \in versions : v.tenant = t => TextsOf(t)[v.number] = v.text

LEMMA RowsAreLog == IInv => LogOK
<1> SUFFICES ASSUME IInv, NEW t \in Tenants
             PROVE  /\ TextsOf(t) \in Seq(Texts) /\ Len(TextsOf(t)) = counter[t]
                    /\ \A v \in versions : v.tenant = t => TextsOf(t)[v.number] = v.text
  BY DEF LogOK
<1>1. counter[t] \in Nat /\ RowsOK
  BY DEF IInv, TypeOK
<1>2. \A n \in 1 .. counter[t] : TextsOf(t)[n] \in Texts
  <2> SUFFICES ASSUME NEW n \in 1 .. counter[t] PROVE TextsOf(t)[n] \in Texts
    OBVIOUS
  <2> PICK v \in versions : v.tenant = t /\ v.number = n
    BY <1>1 DEF RowsOK
  <2>1. (CHOOSE w \in versions : w.tenant = t /\ w.number = n) = v
    BY <1>1, RowOfNumber
  <2>2. v.text \in Texts
    BY DEF IInv, TypeOK, Version
  <2> QED BY <2>1, <2>2 DEF TextsOf
<1>3. TextsOf(t) \in [1 .. counter[t] -> Texts]
  BY <1>2 DEF TextsOf
<1>4. ASSUME NEW v \in versions, v.tenant = t PROVE TextsOf(t)[v.number] = v.text
  <2>1. v.number \in 1 .. counter[t]
    BY <1>1, <1>4 DEF RowsOK
  <2>2. (CHOOSE w \in versions : w.tenant = t /\ w.number = v.number) = v
    BY <1>1, <1>4, RowOfNumber
  <2> QED BY <2>1, <2>2 DEF TextsOf
<1> QED BY <1>1, <1>3, <1>4

\* A commit appends a text to its tenant's log.
LEMMA CommitAppends ==
  ASSUME IInv, IInv', NEW p \in Calls, CommitVersion(p)
  PROVE  \E t \in Tenants, x \in Texts :
           /\ TextsOf(t)' = Append(TextsOf(t), x)
           /\ \A u \in Tenants \ {t} : TextsOf(u)' = TextsOf(u)
           /\ \A u \in Tenants : LiveNumber(u)' = LiveNumber(u)
<1> DEFINE w == [id |-> id[p], tenant |-> tenant[p], number |-> number[p], text |-> text[p]]
<1>1. /\ TypeOK /\ HolderOK(p) /\ pc[p] = "inserted" /\ versions' = versions \cup {w}
      /\ counter' = [counter EXCEPT ![tenant[p]] = number[p]] /\ active' = active
  BY DEF CommitVersion, IInv
<1> PICK t \in Tenants, x \in Texts : t = tenant[p] /\ x = text[p]
  BY <1>1 DEF HolderOK
<1>2. w.tenant = t /\ w.number = counter[t] + 1 /\ w.text = x /\ number[p] = counter[t] + 1
  BY <1>1 DEF HolderOK, Holding
<1> HIDE DEF w
<1>3. counter[t] \in Nat /\ counter'[t] = counter[t] + 1
      /\ \A u \in Tenants \ {t} : counter'[u] = counter[u]
  BY <1>1, <1>2 DEF TypeOK
<1>4. LogOK /\ LogOK' /\ RowsOK /\ RowsOK'
  BY RowsAreLog, PTL DEF IInv
<1>5. ASSUME NEW u \in Tenants, NEW n \in 1 .. counter[u]
      PROVE  TextsOf(u)'[n] = TextsOf(u)[n]
  <2> PICK v \in versions : v.tenant = u /\ v.number = n
    BY <1>4 DEF RowsOK
  <2>1. TextsOf(u)[n] = v.text
    BY <1>4 DEF LogOK
  <2>2. TextsOf(u)'[n] = v.text
    BY <1>1, <1>4 DEF LogOK
  <2> QED BY <2>1, <2>2
<1>6. TextsOf(t)'[counter[t] + 1] = x
  <2>1. \A v \in versions' : v.tenant = t => TextsOf(t)'[v.number] = v.text
    BY <1>4 DEF LogOK
  <2> QED BY <1>1, <1>2, <2>1
<1>7. TextsOf(t)' = Append(TextsOf(t), x)
  <2> DEFINE s == TextsOf(t)
  <2>1. /\ s \in Seq(Texts) /\ Len(s) = counter[t]
        /\ s' \in Seq(Texts) /\ Len(s') = counter[t] + 1
    BY <1>3, <1>4 DEF LogOK
  <2>2. \A n \in 1 .. Len(s) : s'[n] = s[n]
    BY <1>5, <2>1
  <2>3. s'[Len(s) + 1] = x
    BY <1>6, <2>1
  <2> HIDE DEF s
  <2>4. /\ Append(s, x) \in Seq(Texts) /\ Len(Append(s, x)) = Len(s) + 1
        /\ \A n \in 1 .. Len(s) : Append(s, x)[n] = s[n]
        /\ Append(s, x)[Len(s) + 1] = x
    BY <2>1, AppendProperties
  <2>5. \A n \in 1 .. Len(s') : s'[n] = Append(s, x)[n]
    BY <1>3, <2>1, <2>2, <2>3, <2>4
  <2>6. Len(s') = Len(Append(s, x))
    BY <1>3, <2>1, <2>4
  <2>7. s' = Append(s, x)
    BY <2>1, <2>4, <2>5, <2>6, SeqEqual
  <2> QED BY <2>7 DEF s
<1>8. ASSUME NEW u \in Tenants \ {t} PROVE TextsOf(u)' = TextsOf(u)
  <2> DEFINE s == TextsOf(u)
  <2>1. /\ s \in Seq(Texts) /\ Len(s) = counter[u]
        /\ s' \in Seq(Texts) /\ Len(s') = counter[u]
    BY <1>3, <1>4 DEF LogOK
  <2>2. \A n \in 1 .. Len(s) : s'[n] = s[n]
    BY <1>5, <2>1
  <2> HIDE DEF s
  <2>3. s' = s
    BY <2>1, <2>2, SeqEqual
  <2> QED BY <2>3 DEF s
<1>9. ASSUME NEW u \in Tenants PROVE LiveNumber(u)' = LiveNumber(u)
  <2>1. LiveNumber(u) = IF active[u] = 0 THEN 0 ELSE RowIn(versions, active[u], u).number
    BY LiveIsRow
  <2>2. LiveNumber(u)' = IF active[u] = 0 THEN 0 ELSE RowIn(versions', active[u], u).number
    BY <1>1 DEF LiveNumber, RowIn
  <2>3. ASSUME active[u] # 0 PROVE RowIn(versions', active[u], u) = RowIn(versions, active[u], u)
    <3> PICK v \in versions : v.id = active[u] /\ v.tenant = u
      BY <2>3 DEF IInv, ActiveIsOwn
    <3>1. v \in versions' /\ (\A y, z \in versions' : y.id = z.id => y = z)
          /\ \A y, z \in versions : y.id = z.id => y = z
      BY <1>1, <1>4 DEF RowsOK
    <3>2. RowIn(versions, v.id, v.tenant) = v
      BY <3>1, RowOfId
    <3>3. RowIn(versions', v.id, v.tenant) = v
      BY <3>1 DEF RowIn
    <3> QED BY <3>2, <3>3
  <2> QED BY <2>1, <2>2, <2>3
<1> QED BY <1>7, <1>8, <1>9

\* An activation makes an entry of a tenant's own log live.
LEMMA ActivationMovesLive ==
  ASSUME IInv, NEW p \in Calls, SetActive(p)
  PROVE  \E t \in Tenants :
           /\ LiveNumber(t)' \in 1 .. Len(TextsOf(t))
           /\ \A u \in Tenants \ {t} : LiveNumber(u)' = LiveNumber(u)
           /\ \A u \in Tenants : TextsOf(u)' = TextsOf(u)
<1>1. /\ TypeOK /\ RowsOK /\ LogOK /\ HolderOK(p) /\ pc[p] = "update"
      /\ active' = [active EXCEPT ![tenant[p]] = id[p]]
      /\ UNCHANGED <<counter, versions>>
  BY RowsAreLog DEF SetActive, IInv
<1> PICK t \in Tenants, v \in versions : t = tenant[p] /\ v.id = id[p] /\ v.tenant = t
  BY <1>1 DEF HolderOK
<1>2. v.id # 0 /\ active'[t] = v.id /\ \A u \in Tenants \ {t} : active'[u] = active[u]
  <2>1. v.id \in Ids
    BY <1>1 DEF TypeOK, Version
  <2> QED BY <1>1, <2>1 DEF TypeOK
<1>3. \A u \in Tenants :
        LiveNumber(u)' = IF active'[u] = 0 THEN 0 ELSE RowIn(versions, active'[u], u).number
  BY <1>1 DEF LiveNumber, RowIn
<1>4. LiveNumber(t)' = v.number
  <2>1. RowIn(versions, v.id, v.tenant) = v
    BY <1>1, RowOfId DEF RowsOK
  <2> QED BY <1>2, <1>3, <2>1
<1>5. v.number \in 1 .. Len(TextsOf(t))
  BY <1>1 DEF RowsOK, LogOK
<1>6. \A u \in Tenants \ {t} : LiveNumber(u)' = LiveNumber(u)
  BY <1>2, <1>3, LiveIsRow
<1>7. \A u \in Tenants : TextsOf(u)' = TextsOf(u)
  BY <1>1 DEF TextsOf
<1> QED BY <1>4, <1>5, <1>6, <1>7

\* Every step is a step of the log or none: bumping the counter, waiting,
\* timing out, rolling back and crashing do not show.
LEMMA StepRefines ==
  ASSUME IInv, IInv', [Next]_vars
  PROVE  [Log!LogNext]_(Log!logVars)
<1> DEFINE l == [t \in Tenants |-> TextsOf(t)]
           a == [t \in Tenants |-> LiveNumber(t)]
<1>1. ASSUME NEW p \in Calls, CommitVersion(p)
      PROVE  Log!LogNext
  <2> PICK t \in Tenants, x \in Texts :
        /\ TextsOf(t)' = Append(TextsOf(t), x)
        /\ \A u \in Tenants \ {t} : TextsOf(u)' = TextsOf(u)
        /\ \A u \in Tenants : LiveNumber(u)' = LiveNumber(u)
    BY <1>1, CommitAppends
  <2>1. l' = [l EXCEPT ![t] = Append(@, x)] /\ a' = a
    OBVIOUS
  <2>2. Log!Draft(t)
    BY <2>1 DEF Log!Draft
  <2> QED BY <2>2 DEF Log!LogNext
<1>2. ASSUME NEW p \in Calls, SetActive(p)
      PROVE  Log!LogNext
  <2> PICK t \in Tenants :
        /\ LiveNumber(t)' \in 1 .. Len(TextsOf(t))
        /\ \A u \in Tenants \ {t} : LiveNumber(u)' = LiveNumber(u)
        /\ \A u \in Tenants : TextsOf(u)' = TextsOf(u)
    BY <1>2, ActivationMovesLive
  <2>1. l' = l
    OBVIOUS
  <2>2. a' = [a EXCEPT ![t] = LiveNumber(t)']
    OBVIOUS
  <2>3. l[t] = TextsOf(t)
    OBVIOUS
  <2>4. Log!Activate(t)
    BY <2>1, <2>2, <2>3 DEF Log!Activate
  <2> QED BY <2>4 DEF Log!LogNext
<1>3. ASSUME UNCHANGED <<counter, active, versions>> PROVE l' = l /\ a' = a
  BY <1>3 DEF TextsOf, LiveNumber
<1>4. \/ \E p \in Calls : CommitVersion(p) \/ SetActive(p)
      \/ UNCHANGED <<counter, active, versions>>
  BY DEF Next, Running, Quiet, Step, Create, Activate, Bump, InsertVersion, LockWaitTimeout,
         OthersShare, Crash, vars, tableVars
<1> QED BY <1>1, <1>2, <1>3, <1>4 DEF Log!logVars

\* The prompt versions, with their counter, locks, rollbacks and crashes,
\* implement a log that only grows at its end with one live entry.
THEOREM ImplementsLog == Spec => KeepsLog
<1>1. Init => Log!LogInit
  BY DEF Init, Log!LogInit, TextsOf, LiveNumber
<1> QED BY <1>1, InitIInv, NextIInv, StepRefines, PTL DEF Spec, KeepsLog, Log!LogSpec
=============================================================================
