-------------------------- MODULE WebsiteSync_proofs --------------------------
(***************************************************************************)
(* Proofs about Documents for every set of documents, calls and bodies,    *)
(* and about WebsiteSync, which composes it with any pages and sources.    *)
(*                                                                         *)
(* The index invariants of Documents are not inductive by themselves: that *)
(* a committed ingest is whole rests on where each ingest is (IngestOK),   *)
(* and that no chunk is orphaned on the shared lock keeping the row alive  *)
(* (LockOK).                                                               *)
(*                                                                         *)
(* A sync carries a document id over five transactions in which anything   *)
(* can happen to the document and to the source.  What makes it safe is    *)
(* that the id stays one that was made for the source it is at (CallOK),   *)
(* although the document may be gone by the time it is used.               *)
(***************************************************************************)
EXTENDS WebsiteSync, FiniteSetTheorems, TLAPS

-----------------------------------------------------------------------------
(* Documents by itself.                                                    *)

\* A call that works on a document works on one whose id was handed out, and
\* an ingest that has read its body read the document's body.
TargetOK ==
  \A p \in Calls :
    /\ target[p] \in issued \cup {NoDoc}
    /\ pc[p] \in {"audit", "reindex", "purged"} \cup IngestPc => target[p] \in issued
    /\ pc[p] \in IngestPc \ {"ingest"} =>
         raw[p] = content[target[p]] /\ raw[p] \in Contents

BodyOK == \A d \in issued : content[d] \in Contents

\* How much an ingest has inserted, by where it is.
IngestOK ==
  \A p \in Calls :
    /\ pc[p] = "insert" => inserted[p] < NumChunks[raw[p]]
    /\ pc[p] = "finish" => inserted[p] = NumChunks[raw[p]]
    /\ pc[p] \notin {"insert", "finish"} => inserted[p] = 0

\* The shared lock keeps the document row alive.
LockOK == \A p \in Calls : HoldsShared(p) => target[p] \in rows

CallsOK == TargetOK /\ BodyOK /\ IngestOK /\ LockOK
IndexOK == WholeRuns /\ NoOrphanChunks /\ PendingIsEmpty /\ ReadyIsIndexed
IInv == TypeOK /\ CallsOK /\ IndexOK

USE DocumentsAssumption

LEMMA InitIInv == Init => IInv
<1> SUFFICES ASSUME Init PROVE IInv
  OBVIOUS
<1>1. TypeOK
  BY DEF Init, TypeOK, Status, ReviewState, CallPc
<1>2. CallsOK
  BY DEF Init, CallsOK, TargetOK, BodyOK, IngestOK, LockOK, HoldsShared, IngestPc
<1>3. IndexOK
  BY DEF Init, IndexOK, WholeRuns, NoOrphanChunks, PendingIsEmpty,
         ReadyIsIndexed, ChunksOf
<1> QED BY <1>1, <1>2, <1>3 DEF IInv

\* The index invariants only read the tables.
LEMMA IndexFrame ==
  ASSUME IndexOK, UNCHANGED <<rows, status, content, chunks>> PROVE IndexOK'
BY DEF IndexOK, WholeRuns, NoOrphanChunks, PendingIsEmpty, ReadyIsIndexed, ChunksOf

\* What p's transaction has inserted when its ingest reaches the last update.
LEMMA PendingWhole ==
  ASSUME IInv, NEW p \in Calls, pc[p] = "finish"
  PROVE  /\ inserted[p] = NumChunks[raw[p]]
         /\ NumChunks[raw[p]] \in Nat
         /\ raw[p] \in Contents
         /\ target[p] \in Docs
         /\ raw[p] = content[target[p]]
         /\ inserted[p] > 0 => target[p] \in rows
         /\ Pending(p) \subseteq Chunk
<1>1. inserted[p] = NumChunks[raw[p]]
  BY DEF IInv, CallsOK, IngestOK
<1>2. raw[p] \in Contents /\ raw[p] = content[target[p]] /\ target[p] \in issued
  BY DEF IInv, CallsOK, TargetOK, IngestPc
<1>3. target[p] \in Docs
  BY <1>2 DEF IInv, TypeOK
<1>4. inserted[p] > 0 => target[p] \in rows
  BY DEF IInv, CallsOK, LockOK, HoldsShared
<1>5. NumChunks[raw[p]] \in Nat
  BY <1>2
<1>6. Pending(p) \subseteq Chunk
  BY <1>1, <1>2, <1>3, <1>5 DEF Pending, Chunk
<1> QED BY <1>1, <1>2, <1>3, <1>4, <1>5, <1>6
-----------------------------------------------------------------------------
(* Steps that leave the tables alone: only the calls move.                 *)

LEMMA QuietTables ==
  ASSUME IInv, UNCHANGED tableVars,
         pc' \in [Calls -> CallPc], target' \in [Calls -> Docs \cup {NoDoc}],
         publish' \in [Calls -> BOOLEAN],
         raw' \in [Calls -> Contents \cup {NoContent}],
         inserted' \in [Calls -> Nat],
         TargetOK', IngestOK', LockOK'
  PROVE  IInv'
<1>1. TypeOK'
  BY DEF IInv, TypeOK, tableVars
<1>2. BodyOK'
  BY DEF IInv, CallsOK, BodyOK, tableVars
<1>3. IndexOK'
  BY IndexFrame DEF IInv, tableVars
<1> QED BY <1>1, <1>2, <1>3 DEF IInv, CallsOK

LEMMA CallSteps ==
  ASSUME IInv, NEW p \in Calls,
         \/ Arrive(p) \/ UploadSchedule(p) \/ UploadFails(p) \/ ReindexPurge(p)
         \/ IngestSelect(p) \/ IngestChunk(p) \/ IngestInsert(p) \/ IngestFails(p)
         \/ LockFails(p)
  PROVE  IInv'
<1> USE DEF IInv, CallsOK, TypeOK, TargetOK, BodyOK, IngestOK, LockOK, HoldsShared,
            CallPc, RequestPc, IngestPc, EndPc, Goto, tableVars
<1>1. CASE UploadCheck(p)
  BY <1>1, QuietTables DEF UploadCheck
<1>2. CASE UploadSchedule(p)
  BY <1>2, QuietTables DEF UploadSchedule
<1>3. CASE UploadFails(p)
  BY <1>3, QuietTables DEF UploadFails
<1>4. CASE ReindexCheck(p)
  BY <1>4, QuietTables DEF ReindexCheck, Begin
<1>5. CASE ReviewCheck(p)
  BY <1>5, QuietTables DEF ReviewCheck, Begin
<1>6. CASE DeleteCheck(p)
  BY <1>6, QuietTables DEF DeleteCheck, Begin
<1>7. CASE ReindexPurge(p)
  BY <1>7, QuietTables DEF ReindexPurge
<1>8. CASE IngestSelect(p)
  BY <1>8, QuietTables DEF IngestSelect
<1>9. CASE IngestChunk(p)
  BY <1>9, QuietTables DEF IngestChunk
<1>10. CASE IngestInsert(p)
  BY <1>10, QuietTables DEF IngestInsert
<1>11. CASE IngestFails(p)
  BY <1>11, QuietTables DEF IngestFails
<1>12. CASE LockFails(p)
  BY <1>12, QuietTables DEF LockFails, Victim
<1> QED BY <1>1, <1>2, <1>3, <1>4, <1>5, <1>6, <1>7, <1>8, <1>9, <1>10, <1>11, <1>12 DEF Arrive
-----------------------------------------------------------------------------
(* Steps that write the tables.                                            *)

LEMMA UploadInsertStep ==
  ASSUME IInv, NEW p \in Calls, UploadInsert(p) PROVE IInv'
<1> PICK d \in Docs \ issued, c \in Contents :
      /\ issued' = issued \cup {d}
      /\ rows' = rows \cup {d}
      /\ status' = [status EXCEPT ![d] = "pending"]
      /\ review' = [review EXCEPT ![d] = "draft"]
      /\ content' = [content EXCEPT ![d] = c]
      /\ target' = [target EXCEPT ![p] = d]
  BY DEF UploadInsert
<1>1. /\ pc[p] = "upload" /\ pc' = [pc EXCEPT ![p] = "audit"]
      /\ UNCHANGED <<chunks, publish, raw, inserted>>
  BY DEF UploadInsert, Goto
<1>2. TypeOK'
  BY <1>1 DEF IInv, TypeOK, Status, ReviewState, CallPc, RequestPc
<1>3. CallsOK'
  BY <1>1 DEF IInv, TypeOK, CallsOK, TargetOK, BodyOK, IngestOK, LockOK,
              HoldsShared, IngestPc
\* The id is new, so no chunk has it.
<1>4. \A e \in chunks : e.doc # d
  BY DEF IInv, TypeOK, IndexOK, NoOrphanChunks
<1>5. IndexOK'
  <2>1. WholeRuns' /\ NoOrphanChunks'
    BY <1>1 DEF IInv, IndexOK, WholeRuns, NoOrphanChunks
  <2>2. PendingIsEmpty' /\ ReadyIsIndexed'
    BY <1>1, <1>4 DEF IInv, TypeOK, IndexOK, PendingIsEmpty, ReadyIsIndexed, ChunksOf
  <2> QED BY <2>1, <2>2 DEF IndexOK
<1> QED BY <1>2, <1>3, <1>5 DEF IInv

LEMMA ReindexCommitStep ==
  ASSUME IInv, NEW p \in Calls, ReindexCommit(p) PROVE IInv'
<1> USE DEF ReindexCommit, Goto, SetStatus
<1>1. TypeOK'
  BY DEF IInv, TypeOK, Status, CallPc, IngestPc
<1>2. CallsOK'
  <2>1. TargetOK'
    <3>1. target[p] \in issued
      BY DEF IInv, CallsOK, TargetOK
    <3> QED BY <3>1 DEF IInv, TypeOK, CallsOK, TargetOK, IngestPc
  <2>2. BodyOK' /\ IngestOK' /\ LockOK'
    BY DEF IInv, TypeOK, CallsOK, BodyOK, IngestOK, LockOK, HoldsShared
  <2> QED BY <2>1, <2>2 DEF CallsOK
<1>3. IndexOK'
  <2>1. WholeRuns'
    BY DEF IInv, TypeOK, Chunk, IndexOK, WholeRuns, ChunksOf
  <2>2. NoOrphanChunks' /\ PendingIsEmpty' /\ ReadyIsIndexed'
    BY DEF IInv, TypeOK, Chunk, IndexOK, NoOrphanChunks, PendingIsEmpty,
           ReadyIsIndexed, ChunksOf
  <2> QED BY <2>1, <2>2 DEF IndexOK
<1> QED BY <1>1, <1>2, <1>3 DEF IInv

LEMMA ReviewUpdateStep ==
  ASSUME IInv, NEW p \in Calls, ReviewUpdate(p) PROVE IInv'
<1> USE DEF ReviewUpdate, Goto
<1>1. TypeOK'
  BY DEF IInv, TypeOK, CallPc, EndPc
<1>2. CallsOK'
  BY DEF IInv, TypeOK, CallsOK, TargetOK, BodyOK, IngestOK, LockOK,
         HoldsShared, IngestPc
<1>3. IndexOK'
  BY IndexFrame DEF IInv
<1> QED BY <1>1, <1>2, <1>3 DEF IInv

\* The row goes only when no other call holds its shared lock.
LEMMA DeleteRowStep ==
  ASSUME IInv, NEW p \in Calls, DeleteRow(p) PROVE IInv'
<1> USE DEF DeleteRow, Goto
<1>1. TypeOK'
  BY DEF IInv, TypeOK, CallPc, EndPc
<1>2. TargetOK' /\ BodyOK' /\ IngestOK'
  BY DEF IInv, TypeOK, CallsOK, TargetOK, BodyOK, IngestOK, IngestPc
<1>3. LockOK'
  BY DEF IInv, TypeOK, CallsOK, LockOK, HoldsShared, RowFree, Rivals
<1>4. IndexOK'
  <2>1. WholeRuns'
    BY DEF IInv, TypeOK, Chunk, IndexOK, WholeRuns, ChunksOf
  <2>2. NoOrphanChunks' /\ PendingIsEmpty' /\ ReadyIsIndexed'
    BY DEF IInv, TypeOK, Chunk, IndexOK, NoOrphanChunks, PendingIsEmpty,
           ReadyIsIndexed, ChunksOf
  <2> QED BY <2>1, <2>2 DEF IndexOK
<1> QED BY <1>1, <1>2, <1>3, <1>4 DEF IInv, CallsOK

\* The two steps of an ingest that only move the status.
LEMMA StatusSteps ==
  ASSUME IInv, NEW p \in Calls, IngestClaim(p) \/ IngestError(p) PROVE IInv'
<1> USE DEF IngestClaim, IngestError, Goto, SetStatus
<1>1. TypeOK'
  BY DEF IInv, TypeOK, Status, CallPc, IngestPc, EndPc
<1>2. CallsOK'
  BY DEF IInv, TypeOK, CallsOK, TargetOK, BodyOK, IngestOK, LockOK,
         HoldsShared, IngestPc
<1>3. IndexOK'
  <2>1. WholeRuns' /\ NoOrphanChunks'
    BY DEF IInv, IndexOK, WholeRuns, NoOrphanChunks
  <2>2. PendingIsEmpty' /\ ReadyIsIndexed'
    BY DEF IInv, TypeOK, IndexOK, PendingIsEmpty, ReadyIsIndexed, ChunksOf
  <2> QED BY <2>1, <2>2 DEF IndexOK
<1> QED BY <1>1, <1>2, <1>3 DEF IInv

\* The commit of an ingest adds all its chunks to a row that exists.
LEMMA IngestFinishStep ==
  ASSUME IInv, NEW p \in Calls, IngestFinish(p) PROVE IInv'
<1>0. pc[p] = "finish"
  BY DEF IngestFinish
<1> USE DEF IngestFinish, Goto, SetStatus
<1>1. TypeOK'
  BY <1>0, PendingWhole DEF IInv, TypeOK, Status, ReviewState, CallPc, EndPc
<1>2. CallsOK'
  BY DEF IInv, TypeOK, CallsOK, TargetOK, BodyOK, IngestOK, LockOK,
         HoldsShared, IngestPc
<1>3. WholeRuns'
  <2>1. \A c \in Pending(p) :
          /\ c.doc = target[p] /\ c.run = p /\ c.content = raw[p]
          /\ c.index \in 0 .. NumChunks[raw[p]] - 1
    BY <1>0, PendingWhole DEF Pending
  <2>2. \A i \in 0 .. NumChunks[raw[p]] - 1 :
          [doc |-> target[p], run |-> p, index |-> i, content |-> raw[p]] \in Pending(p)
    BY <1>0, PendingWhole DEF Pending
  <2> QED BY <2>1, <2>2, <1>0, PendingWhole DEF IInv, IndexOK, WholeRuns
<1>4. NoOrphanChunks'
  <2>1. \A c \in Pending(p) : c.doc = target[p] /\ inserted[p] > 0
    BY <1>0, PendingWhole DEF Pending
  <2> QED BY <2>1, <1>0, PendingWhole DEF IInv, IndexOK, NoOrphanChunks
<1>5. PendingIsEmpty'
  <2>1. \A c \in Pending(p) : c.doc = target[p]
    BY DEF Pending
  <2> QED BY <2>1, <1>0, PendingWhole
          DEF IInv, TypeOK, IndexOK, PendingIsEmpty, ChunksOf
<1>6. ReadyIsIndexed'
  <2> SUFFICES ASSUME NEW d \in rows, status'[d] = "ready", NumChunks[content[d]] > 0
               PROVE  \E c \in chunks' : c.doc = d /\ c.content = content[d]
    BY DEF ReadyIsIndexed, ChunksOf
  <2>1. CASE d = target[p]
    <3> DEFINE first == [doc |-> target[p], run |-> p, index |-> 0, content |-> raw[p]]
    <3>1. first \in Pending(p)
      BY <1>0, <2>1, PendingWhole DEF Pending
    <3> QED BY <3>1, <2>1, <1>0, PendingWhole
  <2>2. CASE d # target[p]
    BY <2>2 DEF IInv, TypeOK, IndexOK, ReadyIsIndexed, ChunksOf
  <2> QED BY <2>1, <2>2
<1> QED BY <1>1, <1>2, <1>3, <1>4, <1>5, <1>6 DEF IInv, IndexOK

LEMMA CrashStep == ASSUME IInv, Crash PROVE IInv'
<1> USE DEF Crash, tableVars
<1>1. TypeOK'
  BY DEF IInv, TypeOK, CallPc, EndPc
<1>2. CallsOK'
  BY DEF IInv, TypeOK, CallsOK, TargetOK, BodyOK, IngestOK, LockOK,
         HoldsShared, Active, CallPc, RequestPc, IngestPc, EndPc
<1>3. IndexOK'
  BY IndexFrame DEF IInv
<1> QED BY <1>1, <1>2, <1>3 DEF IInv

LEMMA NextIInv == IInv /\ [Next]_vars => IInv'
<1> SUFFICES ASSUME IInv, [Next]_vars PROVE IInv'
  OBVIOUS
<1>1. CASE UNCHANGED vars
  BY <1>1, QuietTables
  DEF vars, tableVars, IInv, TypeOK, CallsOK, TargetOK, IngestOK, LockOK, HoldsShared
<1>2. CASE Crash
  BY <1>2, CrashStep
<1>3. ASSUME NEW p \in Calls, Arrive(p) \/ Step(p) PROVE IInv'
  BY <1>3, CallSteps, UploadInsertStep, ReindexCommitStep, ReviewUpdateStep,
     DeleteRowStep, StatusSteps, IngestFinishStep
  DEF Step, Request, Ingest
<1> QED BY <1>1, <1>2, <1>3 DEF Next, Running, Quiet

-----------------------------------------------------------------------------
\* Types, and the state of every call and lock, hold in every behaviour.
THEOREM TypeCorrect == Spec => []TypeOK
<1>1. IInv => TypeOK
  BY DEF IInv
<1> QED BY <1>1, InitIInv, NextIInv, PTL DEF Spec

\* Whatever the interleaving of uploads, reindexes, reviews, deletes, failing
\* ingests, lock timeouts and crashes, the index of every document is made of
\* whole ingests: a failed one leaves no chunk of its own.
THEOREM IndexWhole == Spec => []WholeRuns
<1>1. IInv => WholeRuns
  BY DEF IInv, IndexOK
<1> QED BY <1>1, InitIInv, NextIInv, PTL DEF Spec

\* And it is what the document's status says: of a row that exists, empty
\* while the document is pending and not missing when it is ready.
THEOREM IndexConsistent == Spec => []IndexMatchesStatus
<1>1. IInv => IndexMatchesStatus
  BY DEF IInv, IndexOK, IndexMatchesStatus
<1> QED BY <1>1, InitIInv, NextIInv, PTL DEF Spec

\* No step, of whichever call, takes chunks from a document visitors can
\* search before and after it.
THEOREM SearchStable == Spec => SearchableKeepsChunks
<1>1. IInv /\ [Next]_vars =>
        [\A d \in Docs : Searchable(d) /\ Searchable(d)' => ChunksOf(d) \subseteq ChunksOf(d)']_vars
  <2> SUFFICES ASSUME IInv, Next, NEW d \in Docs, Searchable(d), Searchable(d)'
               PROVE  ChunksOf(d) \subseteq ChunksOf(d)'
    OBVIOUS
  <2>1. CASE UNCHANGED chunks
    BY <2>1 DEF ChunksOf
  <2>2. ASSUME NEW p \in Calls, ReindexCommit(p)
        PROVE  ChunksOf(d) \subseteq ChunksOf(d)'
    BY <2>2 DEF IInv, TypeOK, Searchable, ReindexCommit, SetStatus, ChunksOf
  <2>3. ASSUME NEW p \in Calls, DeleteRow(p)
        PROVE  ChunksOf(d) \subseteq ChunksOf(d)'
    BY <2>3 DEF Searchable, DeleteRow, ChunksOf
  <2>4. ASSUME NEW p \in Calls, IngestFinish(p)
        PROVE  ChunksOf(d) \subseteq ChunksOf(d)'
    BY <2>4 DEF IngestFinish, ChunksOf
  <2> QED BY <2>1, <2>2, <2>3, <2>4
          DEF Next, Running, Quiet, Crash, Arrive, Step, Request, Ingest, vars, tableVars,
              UploadCheck, ReindexCheck, ReviewCheck, DeleteCheck, Begin,
              UploadInsert, UploadSchedule, UploadFails, ReindexPurge, ReviewUpdate,
              IngestSelect, IngestClaim, IngestChunk, IngestInsert, IngestFails,
              IngestError, LockFails, Victim
<1> QED BY <1>1, InitIInv, NextIInv, PTL DEF Spec, SearchableKeepsChunks

\* The uploads between their check of the plan's limit and their row.
Uploading == {p \in Calls : pc[p] = "upload"}

LimitOK(k) ==
  /\ IsFiniteSet(rows) /\ IsFiniteSet(Uploading)
  /\ Cardinality(rows) + Cardinality(Uploading) < DocLimit + k

LEMMA FewerLimit ==
  ASSUME NEW k \in Nat, LimitOK(k), rows' \subseteq rows, Uploading' \subseteq Uploading
  PROVE  LimitOK(k)'
<1>1. /\ IsFiniteSet(rows') /\ Cardinality(rows') <= Cardinality(rows)
      /\ IsFiniteSet(Uploading') /\ Cardinality(Uploading') <= Cardinality(Uploading)
  BY FS_Subset DEF LimitOK
<1>2. /\ Cardinality(rows) \in Nat /\ Cardinality(Uploading) \in Nat
      /\ Cardinality(rows') \in Nat /\ Cardinality(Uploading') \in Nat
  BY <1>1, FS_CardinalityType DEF LimitOK
<1> QED BY <1>1, <1>2 DEF LimitOK

LEMMA LimitStep ==
  ASSUME NEW k \in Nat, TypeOK, LimitOK(k), [Next]_vars,
         Cardinality(Uploading') <= k
  PROVE  LimitOK(k)'
<1>0. /\ IsFiniteSet(rows) /\ IsFiniteSet(Uploading)
      /\ Cardinality(rows) \in Nat /\ Cardinality(Uploading) \in Nat
      /\ Cardinality(rows) + Cardinality(Uploading) < DocLimit + k
  BY FS_CardinalityType DEF LimitOK
\* Whoever passes the check finds fewer rows than the limit.
<1>1. ASSUME NEW p \in Calls, UploadCheck(p) PROVE LimitOK(k)'
  <2>1. rows' = rows /\ Uploading' = Uploading \cup {p} /\ Cardinality(rows) < DocLimit
    BY <1>1 DEF UploadCheck, Goto, Uploading, TypeOK, tableVars
  <2>2. IsFiniteSet(Uploading')
    BY <1>0, <2>1, FS_AddElement
  <2>3. Cardinality(Uploading') \in Nat
    BY <2>2, FS_CardinalityType
  <2> QED BY <1>0, <2>1, <2>2, <2>3 DEF LimitOK
<1>2. ASSUME NEW p \in Calls, UploadInsert(p) PROVE LimitOK(k)'
  <2>1. PICK d \in Docs \ issued : rows' = rows \cup {d}
    BY <1>2 DEF UploadInsert
  <2>2. p \in Uploading /\ Uploading' = Uploading \ {p}
    BY <1>2 DEF UploadInsert, Goto, Uploading, TypeOK
  <2>3. IsFiniteSet(rows') /\ Cardinality(rows') <= Cardinality(rows) + 1
        /\ Cardinality(rows') \in Nat
    <3>1. IsFiniteSet(rows') /\ (Cardinality(rows') = Cardinality(rows)
                                 \/ Cardinality(rows') = Cardinality(rows) + 1)
      BY <1>0, <2>1, FS_AddElement
    <3> QED BY <1>0, <3>1
  <2>4. IsFiniteSet(Uploading') /\ Cardinality(Uploading') = Cardinality(Uploading) - 1
    BY <1>0, <2>2, FS_RemoveElement
  <2> QED BY <1>0, <2>3, <2>4 DEF LimitOK
<1>3. CASE rows' \subseteq rows /\ Uploading' \subseteq Uploading
  BY <1>3, FewerLimit
<1>4. CASE Crash \/ UNCHANGED vars
  BY <1>3, <1>4 DEF Crash, vars, tableVars, Uploading, TypeOK
<1>5. ASSUME NEW p \in Calls, ReindexCheck(p) \/ ReviewCheck(p) \/ DeleteCheck(p) PROVE LimitOK(k)'
  BY <1>3, <1>5 DEF ReindexCheck, ReviewCheck, DeleteCheck, Begin, Goto, tableVars, Uploading, TypeOK
<1>6. ASSUME NEW p \in Calls,
             UploadSchedule(p) \/ UploadFails(p) \/ ReindexPurge(p) \/ ReindexCommit(p)
             \/ ReviewUpdate(p) \/ DeleteRow(p)
      PROVE  LimitOK(k)'
  BY <1>3, <1>6
  DEF UploadSchedule, UploadFails, ReindexPurge, ReindexCommit, ReviewUpdate, DeleteRow,
      Goto, tableVars, Uploading, TypeOK
<1>7. ASSUME NEW p \in Calls, Ingest(p) \/ LockFails(p) PROVE LimitOK(k)'
  BY <1>3, <1>7
  DEF Ingest, IngestSelect, IngestClaim, IngestChunk, IngestInsert, IngestFinish, IngestFails,
      IngestError, LockFails, Victim, Goto, tableVars, Uploading, TypeOK
<1> QED BY <1>1, <1>2, <1>4, <1>5, <1>6, <1>7 DEF Next, Running, Quiet, Arrive, Step, Request

\* "the 26th upload is rejected" (usage.py), as far as it goes: the count and
\* the insert are two transactions, so that uploads in flight overrun the limit,
\* by fewer than there are of them at a time.  With one at a time, never.
THEOREM LimitOverrun ==
  ASSUME NEW k \in Nat \ {0}
  PROVE  Spec /\ [](Cardinality(Uploading) <= k)
           => [](Cardinality(rows) < DocLimit + k)
<1> DEFINE Few == Cardinality(Uploading) <= k
<1>1. Init => LimitOK(k)
  <2> SUFFICES ASSUME Init PROVE LimitOK(k)
    OBVIOUS
  <2>1. rows = {} /\ Uploading = {}
    BY DEF Init, Uploading
  <2> QED BY <2>1, FS_EmptySet DEF LimitOK
<1>2. TypeOK /\ LimitOK(k) /\ [Next]_vars /\ Few' => LimitOK(k)'
  BY LimitStep
<1>3. LimitOK(k) => Cardinality(rows) < DocLimit + k
  <2> SUFFICES ASSUME LimitOK(k) PROVE Cardinality(rows) < DocLimit + k
    OBVIOUS
  <2>1. Cardinality(rows) \in Nat /\ Cardinality(Uploading) \in Nat
    BY FS_CardinalityType DEF LimitOK
  <2> QED BY <2>1 DEF LimitOK
<1> HIDE DEF Few
<1>4. Spec /\ []Few => [](Cardinality(rows) < DocLimit + k)
  BY <1>1, <1>2, <1>3, TypeCorrect, PTL DEF Spec
<1> QED BY <1>4 DEF Few

\* The calls that are to write a document's index.
Ingesting == {"audit"} \cup IngestPc

\* No two of them are of one document.
IngestsApart ==
  \A p, q \in Calls :
    pc[p] \in Ingesting /\ pc[q] \in Ingesting /\ target[p] = target[q] => p = q

\* All chunks of a document are of one ingest.
OneRunPerDoc == \A c, e \in chunks : c.doc = e.doc => c.run = e.run

\* Only a document that is ready has chunks.
OnlyReadyHasChunks == \A d \in rows : status[d] # "ready" => ChunksOf(d) = {}

\* An ingest finds an empty index, and is the only one to fill it.
FindsEmpty == \A p \in Calls : pc[p] \in Ingesting => \A c \in chunks : c.doc # target[p]

ApartOK == FindsEmpty /\ OneRunPerDoc /\ OnlyReadyHasChunks

LEMMA ApartFrame ==
  ASSUME ApartOK, chunks' \subseteq chunks, rows' \subseteq rows,
         \A d \in rows' : status'[d] = status[d] \/ ChunksOf(d)' = {},
         \A p \in Calls : pc'[p] \in Ingesting =>
           (pc[p] \in Ingesting /\ target'[p] = target[p]) \/ \A c \in chunks' : c.doc # target'[p]
  PROVE  ApartOK'
<1>1. FindsEmpty'
  BY DEF ApartOK, FindsEmpty
<1>2. OnlyReadyHasChunks'
  BY DEF ApartOK, OnlyReadyHasChunks, ChunksOf
<1>3. OneRunPerDoc'
  BY DEF ApartOK, OneRunPerDoc
<1> QED BY <1>1, <1>2, <1>3 DEF ApartOK

LEMMA ApartStep == ASSUME IInv, ApartOK, IngestsApart, [Next]_vars PROVE ApartOK'
<1> USE DEF Ingesting, IngestPc
<1>0. TypeOK /\ NoOrphanChunks
  BY DEF IInv, IndexOK
<1>1. ASSUME NEW p \in Calls, Arrive(p) \/ UploadSchedule(p) \/ UploadFails(p) \/ ReindexPurge(p)
                              \/ ReviewUpdate(p)
      PROVE  ApartOK'
  BY <1>0, <1>1, ApartFrame
  DEF Arrive, UploadCheck, ReindexCheck, ReviewCheck, DeleteCheck, Begin, UploadSchedule,
      UploadFails, ReindexPurge, ReviewUpdate, Goto, tableVars, TypeOK
<1>2. ASSUME NEW p \in Calls, IngestSelect(p) \/ IngestChunk(p) \/ IngestInsert(p)
                              \/ IngestFails(p) \/ LockFails(p)
      PROVE  ApartOK'
  BY <1>0, <1>2, ApartFrame
  DEF IngestSelect, IngestChunk, IngestInsert, IngestFails, LockFails, Victim, Goto, tableVars,
      TypeOK
<1>3. ASSUME NEW p \in Calls, IngestClaim(p) \/ IngestError(p) PROVE ApartOK'
  <2>1. /\ UNCHANGED <<rows, chunks, target>> /\ pc[p] \in Ingesting
        /\ \A d \in Docs : d # target[p] => status'[d] = status[d]
        /\ \A q \in Calls : pc'[q] \in Ingesting => pc[q] \in Ingesting
    BY <1>0, <1>3 DEF IngestClaim, IngestError, SetStatus, Goto, TypeOK
  <2>2. ChunksOf(target[p])' = {}
    BY <2>1 DEF ApartOK, FindsEmpty, ChunksOf
  <2> QED BY <1>0, <2>1, <2>2, ApartFrame DEF TypeOK
\* The new id has no chunk.
<1>4. ASSUME NEW p \in Calls, UploadInsert(p) PROVE ApartOK'
  <2>1. PICK d \in Docs \ issued : /\ rows' = rows \cup {d} /\ target' = [target EXCEPT ![p] = d]
                                   /\ status' = [status EXCEPT ![d] = "pending"]
    BY <1>4 DEF UploadInsert
  <2>2. UNCHANGED chunks /\ pc' = [pc EXCEPT ![p] = "audit"]
    BY <1>4 DEF UploadInsert, Goto
  <2>3. ChunksOf(d) = {} /\ \A e \in rows : e # d
    BY <1>0, <2>1 DEF NoOrphanChunks, ChunksOf, TypeOK
  <2> QED BY <1>0, <2>1, <2>2, <2>3
          DEF ApartOK, FindsEmpty, OneRunPerDoc, OnlyReadyHasChunks, ChunksOf, TypeOK
<1>5. ASSUME NEW p \in Calls, ReindexCommit(p) \/ DeleteRow(p) PROVE ApartOK'
  <2>1. /\ UNCHANGED target /\ rows' \subseteq rows /\ chunks' = chunks \ ChunksOf(target[p])
        /\ \A d \in Docs : d # target[p] => status'[d] = status[d]
        /\ \A q \in Calls : q # p => pc'[q] = pc[q]
    BY <1>0, <1>5 DEF ReindexCommit, DeleteRow, SetStatus, Goto, TypeOK
  <2>2. ChunksOf(target[p])' = {}
    BY <2>1 DEF ChunksOf
  <2>3. \A d \in rows' : status'[d] = status[d] \/ ChunksOf(d)' = {}
    BY <1>0, <2>1, <2>2 DEF TypeOK
  <2>4. \A q \in Calls : pc'[q] \in Ingesting =>
          (pc[q] \in Ingesting /\ target'[q] = target[q]) \/ \A c \in chunks' : c.doc # target'[q]
    BY <2>1, <2>2 DEF ChunksOf
  <2> QED BY <2>1, <2>3, <2>4, ApartFrame
\* Nobody else is to write this index, which is empty so far.
<1>6. ASSUME NEW p \in Calls, IngestFinish(p) PROVE ApartOK'
  <2>1. /\ pc[p] = "finish" /\ pc'[p] = "done" /\ UNCHANGED <<rows, target>>
        /\ \A q \in Calls \ {p} : pc'[q] = pc[q]
        /\ chunks' = chunks \cup Pending(p)
        /\ status' = IF target[p] \in rows THEN [status EXCEPT ![target[p]] = "ready"] ELSE status
    BY <1>0, <1>6 DEF IngestFinish, SetStatus, Goto, TypeOK
  <2>2. \A c \in Pending(p) : c.doc = target[p] /\ c.run = p
    BY DEF Pending
  <2>3. \A c \in chunks : c.doc # target[p]
    BY <2>1 DEF ApartOK, FindsEmpty, ChunksOf
  <2>4. \A q \in Calls \ {p} : pc[q] \in Ingesting => target[q] # target[p]
    BY <2>1 DEF IngestsApart
  <2>5. FindsEmpty'
    BY <2>1, <2>2, <2>4 DEF ApartOK, FindsEmpty, ChunksOf
  <2>6. OneRunPerDoc'
    BY <2>1, <2>2, <2>3 DEF ApartOK, OneRunPerDoc
  <2>7. OnlyReadyHasChunks'
    BY <1>0, <2>1, <2>2 DEF ApartOK, OnlyReadyHasChunks, ChunksOf, TypeOK
  <2> QED BY <2>5, <2>6, <2>7 DEF ApartOK
<1>7. CASE Crash \/ UNCHANGED vars
  BY <1>0, <1>7, ApartFrame DEF Crash, Active, EndPc, vars, tableVars
<1> QED BY <1>1, <1>2, <1>3, <1>4, <1>5, <1>6, <1>7 DEF Next, Running, Quiet, Step, Request, Ingest

\* An index is replaced as if in one step under the condition the code leaves
\* open: when no two ingests of a document overlap, its chunks are of one
\* ingest, no chunk is there twice, and a status other than 'ready' means there
\* are none, whatever fails, dies or is deleted meanwhile.
THEOREM IngestsApartIndexOnce ==
  Spec /\ []IngestsApart => [](OneRunPerDoc /\ OnlyReadyHasChunks)
<1>1. Init => ApartOK
  BY DEF Init, ApartOK, FindsEmpty, OneRunPerDoc, OnlyReadyHasChunks, ChunksOf
<1>2. ApartOK => OneRunPerDoc /\ OnlyReadyHasChunks
  BY DEF ApartOK
<1>3. IInv /\ ApartOK /\ IngestsApart /\ [Next]_vars => ApartOK'
  BY ApartStep
<1> QED BY <1>1, <1>2, <1>3, InitIInv, NextIInv, PTL DEF Spec

-----------------------------------------------------------------------------
(* With the syncs.                                                         *)

USE SourcesAssumption

Types ==
  /\ SyncTypeOK
  /\ publish \in [Calls -> BOOLEAN]
  /\ raw \in [Calls -> Contents \cup {NoContent}]

\* What a call works on, by where it is.
CallOK(p) ==
  /\ target[p] \in issued \cup {NoDoc}
  /\ pc[p] \in {"audit", "reindex", "purged", "review", "delete", "record"} \cup IngestPc =>
       target[p] \in issued
  /\ pc[p] = "audit" \/ (pc[p] \in IngestPc /\ publish[p]) => origin[target[p]] = NoSource
  /\ pc[p] \in IngestPc \ {"ingest"} => raw[p] \in Contents
  /\ pc[p] \in {"lookup", "fetch", "upsert", "record"} => source[p] \in Sources
  /\ pc[p] \in {"fetch", "upsert"} /\ seenDoc[p] # NoDoc =>
       seenDoc[p] \in issued /\ origin[seenDoc[p]] = source[p]
  /\ pc[p] = "upsert" => page[p] \in Contents /\ target[p] = seenDoc[p]
  /\ pc[p] = "record" => page[p] \in Contents /\ origin[target[p]] = source[p]

SyncBodyOK ==
  /\ \A d \in issued : content[d] \in Contents
  /\ \A d \in Docs \ issued : origin[d] = NoSource

\* Of every source, a deleted one included.
PointerOK ==
  \A s \in Sources : sourceDoc[s] # NoDoc => sourceDoc[s] \in rows /\ origin[sourceDoc[s]] = s

\* Whether it is indexed yet or not.
PublishedOK ==
  \A d \in rows : origin[d] # NoSource /\ review[d] = "published" => content[d] = reviewed[d]

TablesOK == SyncBodyOK /\ PointerOK /\ PublishedOK
SInv == Types /\ (\A p \in Calls : CallOK(p)) /\ TablesOK

\* Ids are handed out once, each to a document of one origin.
Kept == issued \subseteq issued' /\ \A d \in issued : origin'[d] = origin[d]

\* Only p moves.
Only(p) ==
  \A q \in Calls \ {p} :
    /\ pc'[q] = pc[q] /\ target'[q] = target[q] /\ publish'[q] = publish[q]
    /\ raw'[q] = raw[q] /\ source'[q] = source[q] /\ seenDoc'[q] = seenDoc[q]
    /\ page'[q] = page[q]

LEMMA InitSInv == SyncInit => SInv
<1> SUFFICES ASSUME SyncInit PROVE SInv
  OBVIOUS
<1>1. Types
  BY DEF SyncInit, Init, Types, SyncTypeOK, Status, ReviewState, CallPc
<1>2. \A p \in Calls : CallOK(p)
  BY DEF SyncInit, Init, CallOK, IngestPc
<1>3. TablesOK
  BY DEF SyncInit, Init, TablesOK, SyncBodyOK, PointerOK, PublishedOK
<1> QED BY <1>1, <1>2, <1>3 DEF SInv

LEMMA StepSInv ==
  ASSUME SInv, NEW p \in Calls, Types', Kept, Only(p), CallOK(p)', TablesOK' PROVE SInv'
<1> SUFFICES ASSUME NEW q \in Calls, q # p PROVE CallOK(q)'
  BY DEF SInv
<1>1. CallOK(q)
  BY DEF SInv
<1> QED BY <1>1 DEF CallOK, Kept, Only, Types, SyncTypeOK, SInv
-----------------------------------------------------------------------------
(* Steps that leave documents and sources alone.                           *)

LEMMA TablesFrame ==
  ASSUME SInv, UNCHANGED <<issued, rows, review, content, origin, reviewed, sourceDoc>>
  PROVE  TablesOK' /\ Kept
BY DEF SInv, TablesOK, SyncBodyOK, PointerOK, PublishedOK, Kept

LEMMA SyncCallSteps ==
  ASSUME SInv, NEW p \in Calls,
         \/ Arrive(p) \/ UploadSchedule(p) \/ UploadFails(p) \/ ReindexPurge(p)
         \/ ReindexCommit(p) \/ IngestSelect(p) \/ IngestChunk(p)
         \/ IngestFails(p) \/ IngestError(p),
         UNCHANGED syncVars
  PROVE  SInv'
<1>0. Types /\ CallOK(p) /\ SyncBodyOK
  BY DEF SInv, TablesOK
<1>1. TablesOK' /\ Kept
  BY TablesFrame
  DEF Arrive, UploadCheck, ReindexCheck, ReviewCheck, DeleteCheck, Begin, UploadSchedule,
      UploadFails, ReindexPurge, ReindexCommit, IngestSelect, IngestChunk,
      IngestFails, IngestError, tableVars, syncVars
<1>2. CASE Arrive(p)
  <2>1. CASE UploadCheck(p)
    <3>1. Types'
      BY <1>0, <2>1
      DEF UploadCheck, Goto, Types, SyncTypeOK, CallOK, SyncBodyOK, tableVars, syncVars,
          SetStatus, Status, CallPc, RequestPc, IngestPc, EndPc, SyncPc
    <3>2. CallOK(p)' /\ Only(p)
      BY <1>0, <2>1
      DEF UploadCheck, Goto, Types, SyncTypeOK, CallOK, SyncBodyOK, Only, tableVars, syncVars,
          CallPc, RequestPc, IngestPc, EndPc, SyncPc
    <3> QED BY <1>1, <3>1, <3>2, StepSInv
  <2>2. CASE ReindexCheck(p)
    <3>1. Types'
      BY <1>0, <2>2
      DEF ReindexCheck, Begin, Goto, Types, SyncTypeOK, CallOK, SyncBodyOK, tableVars, syncVars,
          SetStatus, Status, CallPc, RequestPc, IngestPc, EndPc, SyncPc
    <3>2. CallOK(p)' /\ Only(p)
      BY <1>0, <2>2
      DEF ReindexCheck, Begin, Goto, Types, SyncTypeOK, CallOK, SyncBodyOK, Only, tableVars, syncVars,
          CallPc, RequestPc, IngestPc, EndPc, SyncPc
    <3> QED BY <1>1, <3>1, <3>2, StepSInv
  <2>3. CASE ReviewCheck(p)
    <3>1. Types'
      BY <1>0, <2>3
      DEF ReviewCheck, Begin, Goto, Types, SyncTypeOK, CallOK, SyncBodyOK, tableVars, syncVars,
          SetStatus, Status, CallPc, RequestPc, IngestPc, EndPc, SyncPc
    <3>2. CallOK(p)' /\ Only(p)
      BY <1>0, <2>3
      DEF ReviewCheck, Begin, Goto, Types, SyncTypeOK, CallOK, SyncBodyOK, Only, tableVars, syncVars,
          CallPc, RequestPc, IngestPc, EndPc, SyncPc
    <3> QED BY <1>1, <3>1, <3>2, StepSInv
  <2>4. CASE DeleteCheck(p)
    <3>1. Types'
      BY <1>0, <2>4
      DEF DeleteCheck, Begin, Goto, Types, SyncTypeOK, CallOK, SyncBodyOK, tableVars, syncVars,
          SetStatus, Status, CallPc, RequestPc, IngestPc, EndPc, SyncPc
    <3>2. CallOK(p)' /\ Only(p)
      BY <1>0, <2>4
      DEF DeleteCheck, Begin, Goto, Types, SyncTypeOK, CallOK, SyncBodyOK, Only, tableVars, syncVars,
          CallPc, RequestPc, IngestPc, EndPc, SyncPc
    <3> QED BY <1>1, <3>1, <3>2, StepSInv
  <2> QED BY <1>2, <2>1, <2>2, <2>3, <2>4 DEF Arrive
<1>3. CASE UploadSchedule(p)
  <2>1. Types'
    BY <1>0, <1>3
    DEF UploadSchedule, Goto, Types, SyncTypeOK, CallOK, SyncBodyOK, tableVars, syncVars,
        SetStatus, Status, CallPc, RequestPc, IngestPc, EndPc, SyncPc
  <2>2. CallOK(p)' /\ Only(p)
    BY <1>0, <1>3
    DEF UploadSchedule, Goto, Types, SyncTypeOK, CallOK, SyncBodyOK, Only, tableVars, syncVars,
        CallPc, RequestPc, IngestPc, EndPc, SyncPc
  <2> QED BY <1>1, <2>1, <2>2, StepSInv
<1>4. CASE UploadFails(p)
  <2>1. Types'
    BY <1>0, <1>4
    DEF UploadFails, Goto, Types, SyncTypeOK, CallOK, SyncBodyOK, tableVars, syncVars,
        SetStatus, Status, CallPc, RequestPc, IngestPc, EndPc, SyncPc
  <2>2. CallOK(p)' /\ Only(p)
    BY <1>0, <1>4
    DEF UploadFails, Goto, Types, SyncTypeOK, CallOK, SyncBodyOK, Only, tableVars, syncVars,
        CallPc, RequestPc, IngestPc, EndPc, SyncPc
  <2> QED BY <1>1, <2>1, <2>2, StepSInv
<1>5. CASE ReindexPurge(p)
  <2>1. Types'
    BY <1>0, <1>5
    DEF ReindexPurge, Goto, Types, SyncTypeOK, CallOK, SyncBodyOK, tableVars, syncVars,
        SetStatus, Status, CallPc, RequestPc, IngestPc, EndPc, SyncPc
  <2>2. CallOK(p)' /\ Only(p)
    BY <1>0, <1>5
    DEF ReindexPurge, Goto, Types, SyncTypeOK, CallOK, SyncBodyOK, Only, tableVars, syncVars,
        CallPc, RequestPc, IngestPc, EndPc, SyncPc
  <2> QED BY <1>1, <2>1, <2>2, StepSInv
<1>6. CASE ReindexCommit(p)
  <2>1. Types'
    BY <1>0, <1>6
    DEF ReindexCommit, Goto, Types, SyncTypeOK, CallOK, SyncBodyOK, tableVars, syncVars,
        SetStatus, Status, CallPc, RequestPc, IngestPc, EndPc, SyncPc
  <2>2. CallOK(p)' /\ Only(p)
    BY <1>0, <1>6
    DEF ReindexCommit, Goto, Types, SyncTypeOK, CallOK, SyncBodyOK, Only, tableVars, syncVars,
        CallPc, RequestPc, IngestPc, EndPc, SyncPc
  <2> QED BY <1>1, <2>1, <2>2, StepSInv
<1>7. CASE IngestSelect(p)
  <2>1. Types'
    BY <1>0, <1>7
    DEF IngestSelect, Goto, Types, SyncTypeOK, CallOK, SyncBodyOK, tableVars, syncVars,
        SetStatus, Status, CallPc, RequestPc, IngestPc, EndPc, SyncPc
  <2>2. CallOK(p)' /\ Only(p)
    BY <1>0, <1>7
    DEF IngestSelect, Goto, Types, SyncTypeOK, CallOK, SyncBodyOK, Only, tableVars, syncVars,
        CallPc, RequestPc, IngestPc, EndPc, SyncPc
  <2> QED BY <1>1, <2>1, <2>2, StepSInv
<1>8. CASE IngestChunk(p)
  <2>1. Types'
    BY <1>0, <1>8
    DEF IngestChunk, Goto, Types, SyncTypeOK, CallOK, SyncBodyOK, tableVars, syncVars,
        SetStatus, Status, CallPc, RequestPc, IngestPc, EndPc, SyncPc
  <2>2. CallOK(p)' /\ Only(p)
    BY <1>0, <1>8
    DEF IngestChunk, Goto, Types, SyncTypeOK, CallOK, SyncBodyOK, Only, tableVars, syncVars,
        CallPc, RequestPc, IngestPc, EndPc, SyncPc
  <2> QED BY <1>1, <2>1, <2>2, StepSInv
<1>9. CASE IngestFails(p)
  <2>1. Types'
    BY <1>0, <1>9
    DEF IngestFails, Goto, Types, SyncTypeOK, CallOK, SyncBodyOK, tableVars, syncVars,
        SetStatus, Status, CallPc, RequestPc, IngestPc, EndPc, SyncPc
  <2>2. CallOK(p)' /\ Only(p)
    BY <1>0, <1>9
    DEF IngestFails, Goto, Types, SyncTypeOK, CallOK, SyncBodyOK, Only, tableVars, syncVars,
        CallPc, RequestPc, IngestPc, EndPc, SyncPc
  <2> QED BY <1>1, <2>1, <2>2, StepSInv
<1>10. CASE IngestError(p)
  <2>1. Types'
    BY <1>0, <1>10
    DEF IngestError, Goto, Types, SyncTypeOK, CallOK, SyncBodyOK, tableVars, syncVars,
        SetStatus, Status, CallPc, RequestPc, IngestPc, EndPc, SyncPc
  <2>2. CallOK(p)' /\ Only(p)
    BY <1>0, <1>10
    DEF IngestError, Goto, Types, SyncTypeOK, CallOK, SyncBodyOK, Only, tableVars, syncVars,
        CallPc, RequestPc, IngestPc, EndPc, SyncPc
  <2> QED BY <1>1, <2>1, <2>2, StepSInv
<1> QED BY <1>2, <1>3, <1>4, <1>5, <1>6, <1>7, <1>8, <1>9, <1>10

LEMMA IngestWriteSteps ==
  ASSUME SInv, NEW p \in Calls, IngestClaim(p) \/ IngestInsert(p), UNCHANGED syncVars
  PROVE  SInv'
<1>0. Types /\ CallOK(p) /\ SyncBodyOK
  BY DEF SInv, TablesOK
<1>1. TablesOK' /\ Kept
  BY TablesFrame DEF IngestClaim, IngestInsert, tableVars, syncVars
<1>2. CASE IngestClaim(p)
  <2>1. Types'
    BY <1>0, <1>2
    DEF IngestClaim, Types, SyncTypeOK, CallOK, Goto, SetStatus, syncVars, CallPc, IngestPc, Status
  <2>2. CallOK(p)' /\ Only(p)
    BY <1>0, <1>2
    DEF IngestClaim, Types, SyncTypeOK, CallOK, Only, Goto, syncVars, IngestPc
  <2> QED BY <1>1, <2>1, <2>2, StepSInv
<1>3. CASE IngestInsert(p)
  <2>1. Types'
    BY <1>0, <1>3
    DEF IngestInsert, Types, SyncTypeOK, Goto, tableVars, syncVars, CallPc, IngestPc
  <2>2. CallOK(p)' /\ Only(p)
    BY <1>0, <1>3
    DEF IngestInsert, Types, SyncTypeOK, CallOK, Only, Goto, tableVars, syncVars, IngestPc
  <2> QED BY <1>1, <2>1, <2>2, StepSInv
<1> QED BY <1>2, <1>3

LEMMA BatchSteps ==
  ASSUME SInv, NEW p \in Calls,
         SyncNow(p) \/ NextSource(p) \/ Lookup(p) \/ Fetch(p) \/ SyncLockFails(p)
  PROVE  SInv'
<1>0. Types /\ CallOK(p) /\ PointerOK
  BY DEF SInv, TablesOK
<1>1. TablesOK' /\ Kept
  BY TablesFrame
  DEF SyncNow, NextSource, Lookup, Fetch, SyncLockFails, Victim, tableVars, sourceVars,
      historyVars, syncVars
<1>2. CASE SyncNow(p)
  <2>1. Types'
    BY <1>0, <1>2
    DEF SyncNow, Goto, Types, SyncTypeOK, CallOK, tableVars,
        sourceVars, historyVars, syncVars, CallPc, RequestPc, IngestPc, EndPc, SyncPc
  <2>2. CallOK(p)' /\ Only(p)
    BY <1>0, <1>2
    DEF SyncNow, Goto, Types, SyncTypeOK, CallOK, Only, tableVars,
        sourceVars, historyVars, syncVars, CallPc, RequestPc, IngestPc, EndPc, SyncPc
  <2> QED BY <1>1, <2>1, <2>2, StepSInv
<1>3. CASE NextSource(p)
  <2>1. Types'
    BY <1>0, <1>3, SMTT(30)
    DEF NextSource, Goto, Types, SyncTypeOK, tableVars,
        sourceVars, historyVars, syncVars, CallPc, RequestPc, IngestPc, EndPc, SyncPc
  <2>2. CallOK(p)' /\ Only(p)
    BY <1>0, <1>3
    DEF NextSource, Goto, Types, SyncTypeOK, CallOK, Only, tableVars,
        sourceVars, historyVars, syncVars, CallPc, RequestPc, IngestPc, EndPc, SyncPc
  <2> QED BY <1>1, <2>1, <2>2, StepSInv
<1>4. CASE Lookup(p)
  <2>1. Types'
    BY <1>0, <1>4
    DEF Lookup, PointerOK, Goto, Types, SyncTypeOK, CallOK, tableVars,
        sourceVars, historyVars, syncVars, CallPc, RequestPc, IngestPc, EndPc, SyncPc
  <2>2. CallOK(p)' /\ Only(p)
    BY <1>0, <1>4
    DEF Lookup, PointerOK, Goto, Types, SyncTypeOK, CallOK, Only, tableVars,
        sourceVars, historyVars, syncVars, CallPc, RequestPc, IngestPc, EndPc, SyncPc
  <2> QED BY <1>1, <2>1, <2>2, StepSInv
<1>5. CASE Fetch(p)
  <2>1. Types'
    BY <1>0, <1>5, SMTT(30)
    DEF Fetch, Goto, Types, SyncTypeOK, tableVars,
        sourceVars, historyVars, syncVars, CallPc, RequestPc, IngestPc, EndPc, SyncPc
  <2>2. CallOK(p)' /\ Only(p)
    BY <1>0, <1>5
    DEF Fetch, Goto, Types, SyncTypeOK, CallOK, Only, tableVars,
        sourceVars, historyVars, syncVars, CallPc, RequestPc, IngestPc, EndPc, SyncPc
  <2> QED BY <1>1, <2>1, <2>2, StepSInv
<1>6. CASE SyncLockFails(p)
  <2>1. Types'
    BY <1>0, <1>6
    DEF SyncLockFails, Victim, Goto, Types, SyncTypeOK, CallOK, tableVars,
        sourceVars, historyVars, syncVars, CallPc, RequestPc, IngestPc, EndPc, SyncPc
  <2>2. CallOK(p)' /\ Only(p)
    BY <1>0, <1>6
    DEF SyncLockFails, Victim, Goto, Types, SyncTypeOK, CallOK, Only, tableVars,
        sourceVars, historyVars, syncVars, CallPc, RequestPc, IngestPc, EndPc, SyncPc
  <2> QED BY <1>1, <2>1, <2>2, StepSInv
<1> QED BY <1>2, <1>3, <1>4, <1>5, <1>6
-----------------------------------------------------------------------------
(* Steps that write documents or sources.                                  *)

LEMMA SyncUploadInsertStep ==
  ASSUME SInv, NEW p \in Calls, UploadInsert(p), UNCHANGED syncVars PROVE SInv'
<1>0. Types /\ CallOK(p) /\ TablesOK
  BY DEF SInv
<1> PICK d \in Docs \ issued, c \in Contents :
      /\ issued' = issued \cup {d}
      /\ rows' = rows \cup {d}
      /\ status' = [status EXCEPT ![d] = "pending"]
      /\ review' = [review EXCEPT ![d] = "draft"]
      /\ content' = [content EXCEPT ![d] = c]
      /\ target' = [target EXCEPT ![p] = d]
  BY DEF UploadInsert
<1>1. /\ pc[p] = "upload" /\ pc' = [pc EXCEPT ![p] = "audit"]
      /\ UNCHANGED <<chunks, publish, raw, inserted>>
  BY DEF UploadInsert, Goto
<1>2. Types'
  BY <1>0, <1>1 DEF Types, SyncTypeOK, Status, ReviewState, CallPc, RequestPc, syncVars
<1>3. origin' = origin /\ origin[d] = NoSource /\ reviewed' = reviewed /\ sourceDoc' = sourceDoc
  BY <1>0 DEF TablesOK, SyncBodyOK, syncVars
<1>4. Kept
  BY <1>3 DEF Kept
<1>5. Only(p) /\ CallOK(p)'
  BY <1>0, <1>1, <1>3 DEF Types, SyncTypeOK, Only, CallOK, IngestPc, syncVars
<1>6. TablesOK'
  <2>1. SyncBodyOK' /\ PointerOK'
    BY <1>0, <1>3 DEF Types, SyncTypeOK, TablesOK, SyncBodyOK, PointerOK
  <2>2. PublishedOK'
    BY <1>0, <1>3 DEF Types, SyncTypeOK, TablesOK, PublishedOK, ReviewState
  <2> QED BY <2>1, <2>2 DEF TablesOK
<1> QED BY <1>2, <1>4, <1>5, <1>6, StepSInv

\* The only step that publishes without an editor is the end of an upload's
\* ingest, and an upload's document is no source's.
LEMMA SyncIngestFinishStep ==
  ASSUME SInv, NEW p \in Calls, IngestFinish(p), UNCHANGED syncVars PROVE SInv'
<1>0. Types /\ CallOK(p) /\ TablesOK
  BY DEF SInv
<1>1. /\ pc[p] = "finish" /\ pc' = [pc EXCEPT ![p] = "done"]
      /\ review' = IF publish[p] /\ target[p] \in rows
                   THEN [review EXCEPT ![target[p]] = "published"] ELSE review
      /\ chunks' = chunks \cup Pending(p)
      /\ inserted' = [inserted EXCEPT ![p] = 0]
      /\ status' = IF target[p] \in rows THEN [status EXCEPT ![target[p]] = "ready"] ELSE status
      /\ UNCHANGED <<issued, rows, content, target, publish, raw, syncVars>>
  BY DEF IngestFinish, Goto, SetStatus
<1>2. target[p] \in Docs /\ raw[p] \in Contents /\ publish[p] \in BOOLEAN
  BY <1>0, <1>1 DEF Types, SyncTypeOK, CallOK, IngestPc
<1>3. Pending(p) \subseteq Chunk
  BY <1>0, <1>2 DEF Pending, Chunk, Types, SyncTypeOK
<1>4. Types'
  <2>1. review' \in [Docs -> ReviewState] /\ status' \in [Docs -> Status]
    BY <1>0, <1>1, <1>2 DEF Types, SyncTypeOK, ReviewState, Status
  <2>2. chunks' \subseteq Chunk /\ pc' \in [Calls -> CallPc \cup SyncPc]
        /\ inserted' \in [Calls -> Nat]
    BY <1>0, <1>1, <1>3 DEF Types, SyncTypeOK, CallPc, EndPc
  <2> QED BY <2>1, <2>2, <1>0, <1>1 DEF Types, SyncTypeOK, syncVars
<1>5. Kept /\ Only(p) /\ CallOK(p)'
  BY <1>0, <1>1 DEF Types, SyncTypeOK, Kept, Only, CallOK, IngestPc, syncVars
<1>6. TablesOK'
  <2>1. SyncBodyOK' /\ PointerOK'
    BY <1>0, <1>1 DEF TablesOK, SyncBodyOK, PointerOK, syncVars
  <2>2. publish[p] => origin[target[p]] = NoSource
    BY <1>0, <1>1 DEF CallOK, IngestPc
  <2>3. \A d \in Docs : origin[d] # NoSource => review'[d] = review[d]
    BY <1>0, <1>1, <2>2 DEF Types, SyncTypeOK
  <2>4. PublishedOK'
    BY <1>0, <1>1, <2>3 DEF Types, SyncTypeOK, TablesOK, PublishedOK, syncVars
  <2> QED BY <2>1, <2>4 DEF TablesOK
<1> QED BY <1>4, <1>5, <1>6, StepSInv

LEMMA ReviewSyncedStep ==
  ASSUME SInv, NEW p \in Calls, ReviewSynced(p) PROVE SInv'
<1>0. Types /\ CallOK(p) /\ TablesOK
  BY DEF SInv
<1> PICK s \in ReviewState :
      review' = IF target[p] \in rows THEN [review EXCEPT ![target[p]] = s] ELSE review
  BY DEF ReviewSynced, ReviewUpdate
<1>1. /\ pc[p] = "review" /\ pc' = [pc EXCEPT ![p] = "done"]
      /\ reviewed' = [d \in Docs |-> IF d = target[p] /\ review'[d] = "published"
                                     THEN content[d] ELSE reviewed[d]]
      /\ UNCHANGED <<issued, rows, status, content, chunks, target, publish, raw, inserted>>
      /\ UNCHANGED <<sourceVars, batchVars, origin>>
  BY DEF ReviewSynced, ReviewUpdate, Goto
<1>2. Types'
  BY <1>0, <1>1 DEF Types, SyncTypeOK, CallPc, EndPc, sourceVars, batchVars
<1>3. Kept /\ Only(p) /\ CallOK(p)'
  BY <1>0, <1>1 DEF Types, SyncTypeOK, Kept, Only, CallOK, IngestPc, batchVars
<1>4. TablesOK'
  <2>1. SyncBodyOK' /\ PointerOK'
    BY <1>0, <1>1 DEF TablesOK, SyncBodyOK, PointerOK, sourceVars
  <2>2. \A d \in Docs \ {target[p]} : review'[d] = review[d] /\ reviewed'[d] = reviewed[d]
    BY <1>0, <1>1 DEF Types, SyncTypeOK
  <2>3. PublishedOK'
    <3> SUFFICES ASSUME NEW d \in rows, origin[d] # NoSource, review'[d] = "published"
                 PROVE  content[d] = reviewed'[d]
      BY <1>1 DEF PublishedOK
    <3>1. d \in Docs
      BY <1>0 DEF Types, SyncTypeOK
    <3>2. CASE d = target[p]
      BY <1>1, <3>1, <3>2
    <3>3. CASE d # target[p]
      BY <1>0, <2>2, <3>1, <3>3 DEF TablesOK, PublishedOK
    <3> QED BY <3>2, <3>3
  <2> QED BY <2>1, <2>3 DEF TablesOK
<1> QED BY <1>2, <1>3, <1>4, StepSInv

\* ON DELETE SET NULL: no source keeps an id whose row is gone.
LEMMA DeleteSyncedRowStep ==
  ASSUME SInv, NEW p \in Calls, DeleteSyncedRow(p) PROVE SInv'
<1>0. Types /\ CallOK(p) /\ TablesOK
  BY DEF SInv
<1>1. /\ pc[p] = "delete" /\ pc' = [pc EXCEPT ![p] = "done"]
      /\ rows' = rows \ {target[p]} /\ chunks' \subseteq chunks
      /\ sourceDoc' = [s \in Sources |-> IF sourceDoc[s] = target[p] THEN NoDoc
                                                                     ELSE sourceDoc[s]]
      /\ UNCHANGED <<issued, status, review, content, target, publish, raw, inserted>>
      /\ UNCHANGED <<configured, retired, sourceHash, batchVars, historyVars>>
  BY DEF DeleteSyncedRow, DeleteRow, Goto, ChunksOf
<1>2. Types'
  BY <1>0, <1>1 DEF Types, SyncTypeOK, CallPc, EndPc, batchVars, historyVars
<1>3. Kept /\ Only(p) /\ CallOK(p)'
  BY <1>0, <1>1 DEF Types, SyncTypeOK, Kept, Only, CallOK, IngestPc, batchVars, historyVars
<1>4. TablesOK'
  BY <1>0, <1>1 DEF TablesOK, SyncBodyOK, PointerOK, PublishedOK, historyVars
<1> QED BY <1>2, <1>3, <1>4, StepSInv

LEMMA CreateSyncedStep ==
  ASSUME SInv, NEW p \in Calls, CreateSynced(p) PROVE SInv'
<1>0. Types /\ CallOK(p) /\ TablesOK
  BY DEF SInv
<1> PICK d \in Docs \ issued :
      /\ issued' = issued \cup {d}
      /\ rows' = rows \cup {d}
      /\ status' = [status EXCEPT ![d] = "pending"]
      /\ review' = [review EXCEPT ![d] = "draft"]
      /\ content' = [content EXCEPT ![d] = page[p]]
      /\ target' = [target EXCEPT ![p] = d]
      /\ origin' = [origin EXCEPT ![d] = source[p]]
  BY DEF CreateSynced
<1>1. /\ pc[p] = "upsert" /\ pc' = [pc EXCEPT ![p] = "record"]
      /\ UNCHANGED <<chunks, publish, raw, inserted, sourceVars, batchVars, reviewed>>
  BY DEF CreateSynced, Goto
<1>2. page[p] \in Contents /\ source[p] \in Sources
  BY <1>0, <1>1 DEF CallOK
<1>3. Types'
  BY <1>0, <1>1, <1>2 DEF Types, SyncTypeOK, Status, ReviewState, SyncPc, sourceVars, batchVars
<1>4. Kept
  BY <1>0 DEF Kept, Types, SyncTypeOK
<1>5. Only(p) /\ CallOK(p)'
  BY <1>0, <1>1, <1>2 DEF Types, SyncTypeOK, Only, CallOK, IngestPc, batchVars
<1>6. TablesOK'
  <2>1. SyncBodyOK'
    BY <1>0, <1>2 DEF Types, SyncTypeOK, TablesOK, SyncBodyOK
  <2>2. PointerOK'
    BY <1>0, <1>1, <1>4 DEF Types, SyncTypeOK, TablesOK, PointerOK, Kept, sourceVars
  <2>3. PublishedOK'
    BY <1>0, <1>1 DEF Types, SyncTypeOK, TablesOK, PublishedOK, ReviewState
  <2> QED BY <2>1, <2>2, <2>3 DEF TablesOK
<1> QED BY <1>3, <1>4, <1>5, <1>6, StepSInv

\* A new body is a draft again.
LEMMA UpdateSyncedStep ==
  ASSUME SInv, NEW p \in Calls, UpdateSynced(p) PROVE SInv'
<1>0. Types /\ CallOK(p) /\ TablesOK
  BY DEF SInv
<1> DEFINE d == target[p]
<1>1. /\ pc[p] = "upsert" /\ seenDoc[p] # NoDoc /\ pc' = [pc EXCEPT ![p] = "record"]
      /\ UNCHANGED <<issued, rows, target, publish, raw, inserted, sourceVars, batchVars,
                     historyVars>>
      /\ chunks' \subseteq chunks
      /\ \/ UNCHANGED <<status, review, content>>
         \/ /\ status' = [status EXCEPT ![d] = "pending"]
            /\ review' = [review EXCEPT ![d] = "draft"]
            /\ content' = [content EXCEPT ![d] = page[p]]
  BY DEF UpdateSynced, Goto, ChunksOf
<1>2. page[p] \in Contents /\ source[p] \in Sources /\ d \in issued /\ origin[d] = source[p]
  BY <1>0, <1>1 DEF CallOK
<1>3. Types'
  BY <1>0, <1>1, <1>2
  DEF Types, SyncTypeOK, Status, ReviewState, SyncPc, sourceVars, batchVars, historyVars
<1>4. Kept /\ Only(p) /\ CallOK(p)'
  BY <1>0, <1>1, <1>2
  DEF Types, SyncTypeOK, Kept, Only, CallOK, IngestPc, batchVars, historyVars
<1>5. TablesOK'
  <2>1. SyncBodyOK' /\ PointerOK'
    BY <1>0, <1>1, <1>2
    DEF Types, SyncTypeOK, TablesOK, SyncBodyOK, PointerOK, sourceVars, historyVars
  <2>2. PublishedOK'
    BY <1>0, <1>1 DEF Types, SyncTypeOK, TablesOK, PublishedOK, ReviewState, historyVars
  <2> QED BY <2>1, <2>2 DEF TablesOK
<1> QED BY <1>3, <1>4, <1>5, StepSInv

\* The pointer is written under the foreign key, with a document that was made
\* for this source.
LEMMA RecordStep == ASSUME SInv, NEW p \in Calls, Record(p) PROVE SInv'
<1>0. Types /\ CallOK(p) /\ TablesOK
  BY DEF SInv
<1>1. /\ pc[p] = "record"
      /\ UNCHANGED <<tableVars, target, raw, inserted, configured, retired, batchVars,
                     historyVars>>
      /\ \/ pc' = [pc EXCEPT ![p] = "raised"] /\ UNCHANGED <<sourceDoc, sourceHash, publish>>
         \/ /\ pc' = [pc EXCEPT ![p] = "ingest"] /\ publish' = [publish EXCEPT ![p] = FALSE]
            /\ \/ UNCHANGED <<sourceDoc, sourceHash>>
               \/ /\ target[p] \in rows
                  /\ sourceDoc' = [sourceDoc EXCEPT ![source[p]] = target[p]]
                  /\ sourceHash' = [sourceHash EXCEPT ![source[p]] = page[p]]
  BY DEF Record, Goto
<1>2. page[p] \in Contents /\ source[p] \in Sources /\ target[p] \in issued
      /\ origin[target[p]] = source[p]
  BY <1>0, <1>1 DEF CallOK
<1>3. Types'
  BY <1>0, <1>1, <1>2
  DEF Types, SyncTypeOK, CallPc, EndPc, IngestPc, tableVars, batchVars, historyVars
<1>4. Kept /\ Only(p) /\ CallOK(p)'
  BY <1>0, <1>1, <1>2
  DEF Types, SyncTypeOK, Kept, Only, CallOK, IngestPc, tableVars, batchVars, historyVars
<1>5. TablesOK'
  <2>1. SyncBodyOK' /\ PublishedOK'
    BY <1>0, <1>1 DEF TablesOK, SyncBodyOK, PublishedOK, tableVars, historyVars
  <2>2. PointerOK'
    BY <1>0, <1>1, <1>2
    DEF Types, SyncTypeOK, TablesOK, PointerOK, tableVars, historyVars
  <2> QED BY <2>1, <2>2 DEF TablesOK
<1> QED BY <1>3, <1>4, <1>5, StepSInv
-----------------------------------------------------------------------------
\* Sources come and go, and a crash ends every call.
LEMMA OtherSteps ==
  ASSUME SInv,
         \/ SyncCrash
         \/ \E s \in Sources : AddSource(s) \/ DeleteSource(s)
         \/ UNCHANGED allVars
  PROVE  SInv'
<1>0. Types /\ \A p \in Calls : CallOK(p)
  BY DEF SInv
<1>1. TablesOK' /\ Kept
  BY TablesFrame
  DEF SyncCrash, AddSource, DeleteSource, allVars, vars, tableVars, sourceVars, batchVars,
      historyVars, syncVars
<1>2. CASE SyncCrash
  <2>1. Types'
    BY <1>0, <1>2
    DEF SyncCrash, Types, SyncTypeOK, CallPc, EndPc, tableVars, sourceVars, historyVars
  <2>2. \A p \in Calls : pc'[p] \in {pc[p], "crashed"}
    BY <1>2 DEF SyncCrash
  <2>3. \A p \in Calls : CallOK(p)'
    BY <1>0, <1>2, <2>2
    DEF SyncCrash, CallOK, IngestPc, tableVars, sourceVars, historyVars
  <2> QED BY <1>1, <2>1, <2>3 DEF SInv
<1>3. CASE (\E s \in Sources : AddSource(s) \/ DeleteSource(s)) \/ UNCHANGED allVars
  <2>1. Types'
    BY <1>0, <1>3
    DEF AddSource, DeleteSource, allVars, Types, SyncTypeOK, vars, batchVars, historyVars,
        sourceVars, syncVars
  <2>2. \A p \in Calls : CallOK(p)'
    BY <1>0, <1>3
    DEF AddSource, DeleteSource, allVars, CallOK, vars, batchVars, historyVars, syncVars
  <2> QED BY <1>1, <2>1, <2>2 DEF SInv
<1> QED BY <1>2, <1>3

LEMMA NextSInv == SInv /\ [SyncNext]_allVars => SInv'
<1> SUFFICES ASSUME SInv, [SyncNext]_allVars PROVE SInv'
  OBVIOUS
<1>1. CASE SyncCrash \/ UNCHANGED allVars
  BY <1>1, OtherSteps
<1>2. CASE \E s \in Sources : AddSource(s) \/ DeleteSource(s)
  BY <1>2, OtherSteps
<1>3. ASSUME NEW p \in Calls, (Arrive(p) /\ UNCHANGED syncVars) \/ SyncNow(p) \/ SyncStep(p)
      PROVE  SInv'
  BY <1>3, SyncCallSteps, IngestWriteSteps, BatchSteps, SyncUploadInsertStep, SyncIngestFinishStep,
     ReviewSyncedStep, DeleteSyncedRowStep, CreateSyncedStep, UpdateSyncedStep, RecordStep
  DEF SyncStep, DocumentStep, Ingest
<1> QED BY <1>1, <1>2, <1>3 DEF SyncNext, SyncRunning, SyncQuiet
-----------------------------------------------------------------------------
\* Documents, calls and sources are well typed in every behaviour with syncs.
THEOREM SyncTypeCorrect == SyncSpec => []SyncTypeOK
<1>1. SInv => SyncTypeOK
  BY DEF SInv, Types
<1> QED BY <1>1, InitSInv, NextSInv, PTL DEF SyncSpec

\* Whatever is deleted, synced again or crashes between the transactions of a
\* sync, a source points at no document or at an existing one made for it.
THEOREM PointersAreOwn == SyncSpec => []SourceDocIsOwn
<1>1. SInv => SourceDocIsOwn
  BY DEF SInv, Types, SyncTypeOK, TablesOK, PointerOK, SourceDocIsOwn
<1> QED BY <1>1, InitSInv, NextSInv, PTL DEF SyncSpec

\* No interleaving of syncs, ingests, reindexes and reviews brings a page live
\* with a body that no editor has published.
THEOREM SyncedPagesAreReviewed == SyncSpec => []LiveBodyReviewed
<1>1. SInv => LiveBodyReviewed
  BY DEF SInv, TablesOK, PublishedOK, LiveBodyReviewed, Searchable
<1> QED BY <1>1, InitSInv, NextSInv, PTL DEF SyncSpec
-----------------------------------------------------------------------------
(* The index of Documents, with the syncs.                                 *)

IndexInv == IngestOK /\ LockOK /\ WholeRuns /\ NoOrphanChunks /\ PendingIsEmpty

\* Steps that leave the index alone and move one call.
LEMMA IndexCalls ==
  ASSUME IndexInv, UNCHANGED <<rows, chunks>>, NEW p \in Calls, Only(p),
         \A q \in Calls \ {p} : inserted'[q] = inserted[q],
         \A d \in rows : status'[d] = "pending" => status[d] = "pending",
         pc'[p] = "insert" => inserted'[p] < NumChunks[raw'[p]] /\ target'[p] \in rows,
         pc'[p] = "finish" =>
           inserted'[p] = NumChunks[raw'[p]] /\ (inserted'[p] > 0 => target'[p] \in rows),
         pc'[p] \notin {"insert", "finish"} => inserted'[p] = 0
  PROVE  IndexInv'
<1>1. IngestOK' /\ LockOK'
  BY DEF IndexInv, IngestOK, LockOK, HoldsShared, Only
<1>2. WholeRuns' /\ NoOrphanChunks' /\ PendingIsEmpty'
  BY DEF IndexInv, WholeRuns, NoOrphanChunks, PendingIsEmpty, ChunksOf
<1> QED BY <1>1, <1>2 DEF IndexInv

LEMMA IndexQuietSteps ==
  ASSUME SInv, IndexInv, NEW p \in Calls,
         \/ (UploadCheck(p) \/ ReindexCheck(p) \/ ReviewCheck(p) \/ DeleteCheck(p)
             \/ UploadSchedule(p) \/ UploadFails(p) \/ ReindexPurge(p) \/ IngestSelect(p))
            /\ UNCHANGED syncVars
         \/ SyncNow(p) \/ NextSource(p) \/ Lookup(p) \/ Fetch(p) \/ Record(p)
         \/ ReviewSynced(p) \/ SyncLockFails(p)
  PROVE  IndexInv'
<1>0. Types /\ (pc[p] \notin {"insert", "finish"} => inserted[p] = 0)
  BY DEF SInv, IndexInv, IngestOK
<1>1. CASE (UploadCheck(p) \/ ReindexCheck(p) \/ ReviewCheck(p) \/ DeleteCheck(p))
           /\ UNCHANGED syncVars
  BY <1>0, <1>1, IndexCalls
  DEF UploadCheck, ReindexCheck, ReviewCheck, DeleteCheck, Begin, Goto, Types, SyncTypeOK, Only,
      tableVars, syncVars
<1>2. CASE (UploadSchedule(p) \/ UploadFails(p) \/ ReindexPurge(p)) /\ UNCHANGED syncVars
  BY <1>0, <1>2, IndexCalls
  DEF UploadSchedule, UploadFails, ReindexPurge, Goto, Types, SyncTypeOK, Only, tableVars, syncVars
<1>3. CASE IngestSelect(p) /\ UNCHANGED syncVars
  BY <1>0, <1>3, IndexCalls DEF IngestSelect, Goto, Types, SyncTypeOK, Only, tableVars, syncVars
<1>4. CASE SyncNow(p) \/ NextSource(p)
  BY <1>0, <1>4, IndexCalls
  DEF SyncNow, NextSource, Goto, Types, SyncTypeOK, Only, tableVars
<1>5. CASE Lookup(p)
  BY <1>0, <1>5, IndexCalls DEF Lookup, Goto, Types, SyncTypeOK, Only, tableVars
<1>6. CASE Fetch(p)
  BY <1>0, <1>6, IndexCalls DEF Fetch, Goto, Types, SyncTypeOK, Only, tableVars
<1>7. CASE Record(p)
  BY <1>0, <1>7, IndexCalls DEF Record, Goto, Types, SyncTypeOK, Only, tableVars, batchVars
<1>8. CASE ReviewSynced(p)
  BY <1>0, <1>8, IndexCalls DEF ReviewSynced, ReviewUpdate, Goto, Types, SyncTypeOK, Only, batchVars
<1>9. CASE SyncLockFails(p)
  <2>1. /\ UNCHANGED <<rows, status, chunks>> /\ Only(p)
        /\ \A q \in Calls \ {p} : inserted'[q] = inserted[q]
        /\ inserted'[p] = 0 /\ pc'[p] \in {"fail", "raised"}
    BY <1>0, <1>9 DEF SyncLockFails, Victim, Goto, Types, SyncTypeOK, Only, tableVars, syncVars
  <2> QED BY <2>1, IndexCalls
<1> QED BY <1>1, <1>2, <1>3, <1>4, <1>5, <1>6, <1>7, <1>8, <1>9

LEMMA IndexIngestSteps ==
  ASSUME SInv, IndexInv, NEW p \in Calls, UNCHANGED syncVars,
         IngestClaim(p) \/ IngestChunk(p) \/ IngestInsert(p) \/ IngestFails(p) \/ IngestError(p)
  PROVE  IndexInv'
<1>0. /\ Types /\ CallOK(p)
      /\ pc[p] = "insert" => inserted[p] < NumChunks[raw[p]] /\ target[p] \in rows
      /\ pc[p] \notin {"insert", "finish"} => inserted[p] = 0
  BY DEF SInv, IndexInv, IngestOK, LockOK, HoldsShared
<1>1. CASE IngestClaim(p) \/ IngestError(p)
  <2>1. /\ UNCHANGED <<rows, chunks>> /\ Only(p)
        /\ \A q \in Calls \ {p} : inserted'[q] = inserted[q]
        /\ pc'[p] \in {"chunk", "raised"} /\ inserted'[p] = 0
    BY <1>0, <1>1
    DEF IngestClaim, IngestError, Goto, Types, SyncTypeOK, Only, syncVars
  <2>2. \A d \in rows : status'[d] = "pending" => status[d] = "pending"
    BY <1>0, <1>1 DEF IngestClaim, IngestError, SetStatus, Types, SyncTypeOK
  <2> QED BY <2>1, <2>2, IndexCalls
<1>2. CASE IngestChunk(p)
  <2>1. raw[p] \in Contents /\ NumChunks[raw[p]] \in Nat
    BY <1>0, <1>2 DEF IngestChunk, CallOK, IngestPc
  <2>2. /\ UNCHANGED <<rows, status, chunks>> /\ Only(p) /\ inserted' = inserted
        /\ UNCHANGED <<raw, target>> /\ inserted[p] = 0
        /\ \/ NumChunks[raw[p]] = 0 /\ pc'[p] = "finish"
           \/ NumChunks[raw[p]] > 0 /\ target[p] \in rows /\ pc'[p] = "insert"
    BY <1>0, <1>2 DEF IngestChunk, Goto, Types, SyncTypeOK, Only, tableVars, syncVars
  <2> QED BY <2>1, <2>2, IndexCalls
<1>3. CASE IngestInsert(p)
  <2>1. raw[p] \in Contents /\ NumChunks[raw[p]] \in Nat /\ inserted[p] \in Nat
        /\ inserted[p] < NumChunks[raw[p]] /\ target[p] \in rows
    BY <1>0, <1>3 DEF IngestInsert, CallOK, IngestPc, Types, SyncTypeOK
  <2>2. /\ UNCHANGED <<rows, status, chunks, raw, target>> /\ Only(p)
        /\ \A q \in Calls \ {p} : inserted'[q] = inserted[q]
        /\ inserted'[p] = inserted[p] + 1
        /\ pc'[p] = IF inserted[p] + 1 = NumChunks[raw[p]] THEN "finish" ELSE "insert"
    BY <1>0, <1>3 DEF IngestInsert, Goto, Types, SyncTypeOK, Only, tableVars, syncVars
  <2> QED BY <2>1, <2>2, IndexCalls
<1>4. CASE IngestFails(p)
  <2>1. /\ UNCHANGED <<rows, status, chunks>> /\ Only(p)
        /\ \A q \in Calls \ {p} : inserted'[q] = inserted[q]
        /\ pc'[p] = "fail" /\ inserted'[p] = 0
    BY <1>0, <1>4 DEF IngestFails, Goto, Types, SyncTypeOK, Only, tableVars, syncVars
  <2> QED BY <2>1, IndexCalls
<1> QED BY <1>1, <1>2, <1>3, <1>4

\* A new row has a new id, which no chunk has.
LEMMA IndexNewRow ==
  ASSUME SInv, IndexInv, NEW p \in Calls, (UploadInsert(p) /\ UNCHANGED syncVars) \/ CreateSynced(p)
  PROVE  IndexInv'
<1>0. Types
  BY DEF SInv
<1>1. PICK d \in Docs \ issued : rows' = rows \cup {d} /\ status' = [status EXCEPT ![d] = "pending"]
  BY DEF UploadInsert, CreateSynced
<1>2. /\ UNCHANGED <<chunks, raw, inserted>>
      /\ pc[p] \in {"upload", "upsert"} /\ pc'[p] \in {"audit", "record"}
      /\ \A q \in Calls \ {p} : pc'[q] = pc[q] /\ target'[q] = target[q]
  BY <1>0 DEF UploadInsert, CreateSynced, Goto, Types, SyncTypeOK
<1>3. IngestOK' /\ LockOK'
  BY <1>1, <1>2 DEF IndexInv, IngestOK, LockOK, HoldsShared
<1>4. \A c \in chunks : c.doc # d
  BY <1>0, <1>1 DEF Types, SyncTypeOK, IndexInv, NoOrphanChunks
<1>5. WholeRuns' /\ NoOrphanChunks' /\ PendingIsEmpty'
  BY <1>0, <1>1, <1>2, <1>4
  DEF Types, SyncTypeOK, IndexInv, WholeRuns, NoOrphanChunks, PendingIsEmpty, ChunksOf
<1> QED BY <1>3, <1>5 DEF IndexInv

\* A document's chunks go all at once, and the lock waits for those who insert.
LEMMA IndexPurgeSteps ==
  ASSUME SInv, IndexInv, NEW p \in Calls,
         (ReindexCommit(p) /\ UNCHANGED syncVars) \/ UpdateSynced(p) \/ DeleteSyncedRow(p)
  PROVE  IndexInv'
<1>0. Types /\ CallOK(p)
  BY DEF SInv
<1>1. /\ UNCHANGED <<target, raw, inserted>>
      /\ pc[p] \in {"purged", "upsert", "delete"} /\ pc'[p] \in {"ingest", "record", "done"}
      /\ \A q \in Calls \ {p} : pc'[q] = pc[q]
  BY <1>0 DEF ReindexCommit, UpdateSynced, DeleteSyncedRow, DeleteRow, Goto, Types, SyncTypeOK
<1>2. /\ rows' = rows \/ (rows' = rows \ {target[p]} /\ RowFree(p))
      /\ \/ chunks' = chunks \ ChunksOf(target[p])
         \/ target[p] \notin rows /\ UNCHANGED <<rows, chunks, status>>
  BY DEF ReindexCommit, UpdateSynced, DeleteSyncedRow, DeleteRow
<1>3. \A d \in Docs : d # target[p] => status'[d] = status[d]
  BY <1>0 DEF ReindexCommit, UpdateSynced, DeleteSyncedRow, DeleteRow, SetStatus, Types, SyncTypeOK
<1>4. IngestOK'
  BY <1>1 DEF IndexInv, IngestOK
<1>5. LockOK'
  BY <1>1, <1>2 DEF IndexInv, LockOK, HoldsShared, RowFree, Rivals
<1>6. WholeRuns'
  BY <1>2 DEF IndexInv, WholeRuns, ChunksOf, Types, SyncTypeOK, Chunk
<1>7. NoOrphanChunks'
  <2>1. rows' = rows \ {target[p]} /\ rows' # rows => chunks' = chunks \ ChunksOf(target[p])
    BY <1>2
  <2> QED BY <1>2, <2>1 DEF IndexInv, NoOrphanChunks, ChunksOf
<1>8. PendingIsEmpty'
  BY <1>0, <1>2, <1>3 DEF IndexInv, PendingIsEmpty, ChunksOf, Types, SyncTypeOK
<1> QED BY <1>4, <1>5, <1>6, <1>7, <1>8 DEF IndexInv

\* The commit of an ingest adds all its chunks to a row that exists.
LEMMA IndexFinish ==
  ASSUME SInv, IndexInv, NEW p \in Calls, IngestFinish(p) PROVE IndexInv'
<1>0. /\ Types /\ pc[p] = "finish" /\ inserted[p] = NumChunks[raw[p]] /\ raw[p] \in Contents
      /\ inserted[p] > 0 => target[p] \in rows
      /\ target[p] \in Docs
  BY DEF SInv, IndexInv, IngestOK, LockOK, HoldsShared, CallOK, IngestPc, IngestFinish, Types,
         SyncTypeOK
<1>1. /\ rows' = rows /\ UNCHANGED <<target, raw>> /\ chunks' = chunks \cup Pending(p)
      /\ status' = IF target[p] \in rows THEN [status EXCEPT ![target[p]] = "ready"] ELSE status
      /\ pc'[p] = "done" /\ inserted'[p] = 0
      /\ \A q \in Calls \ {p} : pc'[q] = pc[q] /\ inserted'[q] = inserted[q]
  BY <1>0 DEF IngestFinish, Goto, SetStatus, Types, SyncTypeOK
<1>2. /\ \A c \in Pending(p) :
           /\ c.doc = target[p] /\ c.run = p /\ c.content = raw[p]
           /\ c.index \in 0 .. NumChunks[raw[p]] - 1
           /\ inserted[p] > 0
      /\ \A i \in 0 .. NumChunks[raw[p]] - 1 :
           [doc |-> target[p], run |-> p, index |-> i, content |-> raw[p]] \in Pending(p)
  BY <1>0 DEF Pending
<1>3. IngestOK' /\ LockOK'
  BY <1>1 DEF IndexInv, IngestOK, LockOK, HoldsShared
<1>4. NumChunks[raw[p]] \in Nat
  BY <1>0
<1>5. WholeRuns'
  BY <1>1, <1>2, <1>4 DEF IndexInv, WholeRuns
<1>6. NoOrphanChunks'
  BY <1>0, <1>1, <1>2 DEF IndexInv, NoOrphanChunks
<1>7. PendingIsEmpty'
  BY <1>0, <1>1, <1>2 DEF IndexInv, PendingIsEmpty, ChunksOf, Types, SyncTypeOK
<1> QED BY <1>3, <1>5, <1>6, <1>7 DEF IndexInv

LEMMA IndexStep == ASSUME SInv, IndexInv, [SyncNext]_allVars PROVE IndexInv'
<1>1. CASE SyncCrash
  <2>1. /\ UNCHANGED <<rows, status, chunks, raw, target>>
        /\ \A q \in Calls : inserted'[q] = 0
        /\ \A q \in Calls : pc'[q] \notin {"insert", "finish"}
    BY <1>1
    DEF SyncCrash, Busy, Active, EndPc, tableVars
  <2> QED BY <2>1 DEF IndexInv, IngestOK, LockOK, HoldsShared, WholeRuns, NoOrphanChunks,
                      PendingIsEmpty, ChunksOf
<1>2. CASE (\E s \in Sources : AddSource(s) \/ DeleteSource(s)) \/ UNCHANGED allVars
  BY <1>2
  DEF AddSource, DeleteSource, allVars, vars, IndexInv, IngestOK, LockOK, HoldsShared, WholeRuns,
      NoOrphanChunks, PendingIsEmpty, ChunksOf
<1>3. ASSUME NEW p \in Calls, (Arrive(p) /\ UNCHANGED syncVars) \/ SyncNow(p) \/ SyncStep(p)
      PROVE  IndexInv'
  BY <1>3, IndexQuietSteps, IndexIngestSteps, IndexNewRow, IndexPurgeSteps, IndexFinish
  DEF Arrive, SyncStep, DocumentStep, Ingest
<1> QED BY <1>1, <1>2, <1>3 DEF SyncNext, SyncRunning, SyncQuiet

\* Syncs that purge, reset and ingest documents next to everything else leave
\* their index as whole as the lifecycle does by itself: all chunks of an ingest
\* or none, none of a deleted document, none of a pending one.
THEOREM SyncIndexWhole == SyncSpec => [](WholeRuns /\ NoOrphanChunks /\ PendingIsEmpty)
<1>1. SyncInit => IndexInv
  BY DEF SyncInit, Init, IndexInv, IngestOK, LockOK, HoldsShared, WholeRuns, NoOrphanChunks,
         PendingIsEmpty, ChunksOf
<1>2. IndexInv => WholeRuns /\ NoOrphanChunks /\ PendingIsEmpty
  BY DEF IndexInv
<1> QED BY <1>1, <1>2, InitSInv, NextSInv, IndexStep, PTL DEF SyncSpec
-----------------------------------------------------------------------------
(* Fresh chunks, when no update overlaps an ingest of its document.        *)

Reading == IngestPc \ {"ingest"}

\* No call replaces a document's body while another has read it.
UpdatesApart ==
  \A p, q \in Calls : pc[p] = "upsert" /\ pc[q] \in Reading => target[p] # target[q]

CurrentOK ==
  /\ \A c \in chunks : c.doc \in issued /\ c.content = content[c.doc]
  /\ \A p \in Calls : pc[p] \in Reading => raw[p] = content[target[p]]

\* Steps that write no body and no chunk, and read no body.
LEMMA CurrentFrame ==
  ASSUME CurrentOK, chunks' \subseteq chunks, issued' = issued, content' = content,
         \A q \in Calls : pc'[q] \in Reading =>
           pc[q] \in Reading /\ raw'[q] = raw[q] /\ target'[q] = target[q]
  PROVE  CurrentOK'
BY DEF CurrentOK

LEMMA CurrentCallSteps ==
  ASSUME SInv, CurrentOK, NEW p \in Calls,
         \/ Arrive(p) /\ UNCHANGED syncVars
         \/ UploadSchedule(p) \/ UploadFails(p) \/ ReindexPurge(p) \/ ReindexCommit(p)
         \/ IngestClaim(p) \/ IngestChunk(p) \/ IngestInsert(p) \/ IngestFails(p)
         \/ IngestError(p) \/ ReviewSynced(p) \/ DeleteSyncedRow(p)
         \/ SyncNow(p) \/ NextSource(p) \/ Lookup(p) \/ Fetch(p) \/ Record(p)
         \/ SyncLockFails(p)
  PROVE  CurrentOK'
<1> USE DEF Reading, IngestPc
<1>0. Types
  BY DEF SInv
<1>1. CASE Arrive(p)
  BY <1>0, <1>1, CurrentFrame
  DEF Arrive, UploadCheck, ReindexCheck, ReviewCheck, DeleteCheck, Begin, Goto, tableVars,
      Types, SyncTypeOK
<1>2. CASE UploadSchedule(p) \/ UploadFails(p) \/ ReindexPurge(p) \/ ReindexCommit(p)
  BY <1>0, <1>2, CurrentFrame
  DEF UploadSchedule, UploadFails, ReindexPurge, ReindexCommit, Goto, tableVars, ChunksOf,
      Types, SyncTypeOK
<1>3. CASE IngestClaim(p) \/ IngestChunk(p) \/ IngestInsert(p) \/ IngestFails(p) \/ IngestError(p)
  BY <1>0, <1>3, CurrentFrame
  DEF IngestClaim, IngestChunk, IngestInsert, IngestFails, IngestError, Goto, tableVars,
      Types, SyncTypeOK
<1>4. CASE ReviewSynced(p) \/ DeleteSyncedRow(p)
  BY <1>0, <1>4, CurrentFrame
  DEF ReviewSynced, ReviewUpdate, DeleteSyncedRow, DeleteRow, Goto, ChunksOf, Types, SyncTypeOK
<1>5. CASE SyncNow(p) \/ NextSource(p) \/ Lookup(p)
  BY <1>0, <1>5, CurrentFrame
  DEF SyncNow, NextSource, Lookup, Goto, tableVars, Types, SyncTypeOK
<1>6. CASE Fetch(p) \/ Record(p)
  BY <1>0, <1>6, CurrentFrame DEF Fetch, Record, Goto, tableVars, Types, SyncTypeOK
<1>7. CASE SyncLockFails(p)
  BY <1>0, <1>7, CurrentFrame DEF SyncLockFails, Victim, Goto, tableVars, Types, SyncTypeOK
<1> QED BY <1>1, <1>2, <1>3, <1>4, <1>5, <1>6, <1>7

LEMMA CurrentStep ==
  ASSUME SInv, CurrentOK, UpdatesApart, [SyncNext]_allVars PROVE CurrentOK'
<1>0. Types /\ TablesOK /\ \A p \in Calls : CallOK(p)
  BY DEF SInv
\* A new document has no chunk and no reader.
<1>1. ASSUME NEW p \in Calls, UploadInsert(p) \/ CreateSynced(p) PROVE CurrentOK'
  <2>1. PICK d \in Docs \ issued, c \in Contents \cup {page[p]} :
          content' = [content EXCEPT ![d] = c] /\ issued' = issued \cup {d}
    BY <1>1 DEF UploadInsert, CreateSynced
  <2>2. /\ UNCHANGED <<chunks, raw>> /\ pc'[p] \in {"audit", "record"}
        /\ \A q \in Calls \ {p} : pc'[q] = pc[q] /\ target'[q] = target[q]
    BY <1>0, <1>1 DEF UploadInsert, CreateSynced, Goto, Types, SyncTypeOK
  <2>3. \A e \in issued : content'[e] = content[e]
    BY <1>0, <2>1 DEF Types, SyncTypeOK
  <2>4. \A q \in Calls : pc[q] \in Reading => target[q] \in issued
    BY <1>0 DEF CallOK, Reading
  <2> QED BY <2>1, <2>2, <2>3, <2>4 DEF CurrentOK, Reading, IngestPc
\* The old chunks go with the old body, and nobody has read it.
<1>2. ASSUME NEW p \in Calls, UpdateSynced(p) PROVE CurrentOK'
  <2>1. /\ pc[p] = "upsert" /\ pc'[p] = "record" /\ UNCHANGED <<issued, target, raw>>
        /\ \A q \in Calls \ {p} : pc'[q] = pc[q]
        /\ \/ UNCHANGED <<content, chunks>>
           \/ /\ content' = [content EXCEPT ![target[p]] = page[p]]
              /\ chunks' = chunks \ ChunksOf(target[p])
    BY <1>0, <1>2 DEF UpdateSynced, Goto, Types, SyncTypeOK
  <2>2. \A d \in Docs \ {target[p]} : content'[d] = content[d]
    BY <1>0, <2>1 DEF Types, SyncTypeOK
  <2>3. ASSUME NEW c \in chunks' PROVE c.doc \in issued' /\ c.content = content'[c.doc]
    <3>1. c \in chunks /\ c.doc \in Docs /\ (c.doc # target[p] \/ content' = content)
      BY <1>0, <2>1 DEF ChunksOf, Types, SyncTypeOK, Chunk
    <3> QED BY <2>1, <2>2, <3>1 DEF CurrentOK
  <2>4. ASSUME NEW q \in Calls, pc'[q] \in Reading PROVE raw'[q] = content'[target'[q]]
    <3>1. q # p /\ pc[q] \in Reading /\ target[q] \in Docs
      BY <1>0, <2>1, <2>4 DEF Reading, IngestPc, CallOK, Types, SyncTypeOK
    <3>2. target[q] # target[p]
      BY <2>1, <3>1 DEF UpdatesApart
    <3> QED BY <2>1, <2>2, <3>1, <3>2 DEF CurrentOK
  <2> QED BY <2>3, <2>4 DEF CurrentOK
<1>3. ASSUME NEW p \in Calls, IngestSelect(p) PROVE CurrentOK'
  <2>1. /\ UNCHANGED <<issued, content, chunks, target>>
        /\ \A q \in Calls \ {p} : pc'[q] = pc[q] /\ raw'[q] = raw[q]
        /\ pc'[p] = "done" \/ raw'[p] = content[target[p]]
    BY <1>0, <1>3 DEF IngestSelect, Goto, tableVars, Types, SyncTypeOK
  <2> QED BY <2>1 DEF CurrentOK, Reading, IngestPc
<1>4. ASSUME NEW p \in Calls, IngestFinish(p) PROVE CurrentOK'
  <2>1. /\ pc[p] = "finish" /\ pc'[p] = "done" /\ \A q \in Calls \ {p} : pc'[q] = pc[q]
        /\ UNCHANGED <<issued, content, target, raw>> /\ chunks' = chunks \cup Pending(p)
    BY <1>0, <1>4 DEF IngestFinish, Goto, Types, SyncTypeOK
  <2>2. target[p] \in issued /\ raw[p] = content[target[p]]
    BY <1>0, <2>1 DEF CallOK, CurrentOK, Reading, IngestPc
  <2>3. \A c \in Pending(p) : c.doc = target[p] /\ c.content = raw[p]
    BY DEF Pending
  <2> QED BY <2>1, <2>2, <2>3 DEF CurrentOK, Reading, IngestPc
<1>5. CASE SyncCrash \/ (\E s \in Sources : AddSource(s) \/ DeleteSource(s)) \/ UNCHANGED allVars
  BY <1>5, CurrentFrame
  DEF SyncCrash, Busy, Active, AddSource, DeleteSource, allVars, vars, tableVars, Reading, IngestPc,
      EndPc
<1>6. ASSUME NEW p \in Calls, (Arrive(p) /\ UNCHANGED syncVars) \/ SyncNow(p) \/ SyncStep(p)
      PROVE  CurrentOK'
  BY <1>1, <1>2, <1>3, <1>4, <1>6, CurrentCallSteps DEF SyncStep, DocumentStep, Ingest
<1> QED BY <1>5, <1>6 DEF SyncNext, SyncRunning, SyncQuiet

\* "clear old chunks, reset to pending, let ingest_document() rebuild" under the
\* condition the code leaves open: when no sync updates a document while an
\* ingest of it has read its body, every chunk is of its document's body, in a
\* live document and in any other.
THEOREM UpdatesApartStayCurrent == SyncSpec /\ []UpdatesApart => []LiveIndexIsCurrent
<1>1. SyncInit => CurrentOK
  BY DEF SyncInit, Init, CurrentOK, Reading, IngestPc
<1>2. CurrentOK => LiveIndexIsCurrent
  BY DEF CurrentOK, LiveIndexIsCurrent, ChunksOf
<1>3. SInv /\ CurrentOK /\ UpdatesApart /\ [SyncNext]_allVars => CurrentOK'
  BY CurrentStep
<1> QED BY <1>1, <1>2, <1>3, InitSInv, NextSInv, PTL DEF SyncSpec
-----------------------------------------------------------------------------
(* One document per source, when its syncs do not overlap or crash.        *)

AtSource == {"fetch", "upsert", "record"}

\* No two calls are between the lookup of a source and the record of its
\* document.
SyncsApart ==
  \A p, q \in Calls :
    pc[p] \in AtSource /\ pc[q] \in AtSource /\ source[p] = source[q] => p = q

\* Sources that exist or did.
Known == configured \cup retired

\* What a call at a source takes for its document is the only one there is.
SoleOK(p) ==
  /\ todo[p] \subseteq Known
  /\ pc[p] \in {"lookup"} \cup AtSource => source[p] \in Known
  /\ pc[p] \in {"fetch", "upsert"} => \A d \in rows : origin[d] = source[p] => d = seenDoc[p]
  /\ pc[p] = "record" => \A d \in rows : origin[d] = source[p] => d = target[p]

Recording(s) == \E p \in Calls : pc[p] = "record" /\ source[p] = s

\* A document of a source that exists is recorded, or about to be.
RecordedOK ==
  /\ \A d \in rows : origin[d] \in Known \cup {NoSource}
  /\ \A d \in rows : origin[d] \in configured => d = sourceDoc[origin[d]] \/ Recording(origin[d])

OwnOK == OneDocPerSource /\ RecordedOK /\ \A p \in Calls : SoleOK(p)

\* A call that stays where it is, moves on with what it has, or gives up.
Carries(q) ==
  /\ todo'[q] \subseteq Known
  /\ pc'[q] = "lookup" => source'[q] \in Known
  /\ pc'[q] \in {"fetch", "upsert"} =>
       pc[q] \in {"fetch", "upsert"} /\ source'[q] = source[q] /\ seenDoc'[q] = seenDoc[q]
  /\ pc'[q] = "record" =>
       /\ source'[q] = source[q] /\ target'[q] = target[q]
       /\ pc[q] = "record" \/ (pc[q] = "upsert" /\ seenDoc[q] = target[q])
  /\ pc[q] = "record" => pc'[q] = "record" /\ source'[q] = source[q]

\* Steps that make no synced document and record none.
LEMMA OwnFrame ==
  ASSUME SInv, OwnOK, origin' = origin, configured' \subseteq configured,
         Known' = Known, \A d \in rows' \ rows : origin[d] = NoSource,
         \A s \in Sources : sourceDoc[s] \in rows' => sourceDoc'[s] = sourceDoc[s],
         \A q \in Calls : Carries(q)
  PROVE  OwnOK'
<1>0. /\ Types /\ configured \subseteq Sources /\ Known \subseteq Sources /\ NoSource \notin Known
      /\ \A d \in rows' : d \in rows \/ origin[d] = NoSource
  BY DEF SInv, Types, SyncTypeOK, Known
<1>1. OneDocPerSource'
  BY <1>0 DEF OwnOK, OneDocPerSource
<1>2. RecordedOK'
  <2>1. \A s : Recording(s) => Recording(s)'
    BY DEF Recording, Carries
  <2>2. \A d \in rows' : origin[d] \in configured' => d = sourceDoc'[origin[d]] \/ Recording(origin[d])'
    <3> SUFFICES ASSUME NEW d \in rows', origin[d] \in configured', ~Recording(origin[d])'
                 PROVE  d = sourceDoc'[origin[d]]
      OBVIOUS
    <3>1. d \in rows /\ origin[d] \in configured /\ origin[d] \in Sources
      BY <1>0 DEF Known
    <3>2. d = sourceDoc[origin[d]]
      BY <2>1, <3>1 DEF OwnOK, RecordedOK
    <3> QED BY <3>1, <3>2
  <2>3. \A d \in rows' : origin[d] \in Known \cup {NoSource}
    BY <1>0 DEF OwnOK, RecordedOK
  <2> QED BY <2>2, <2>3 DEF RecordedOK
<1>3. ASSUME NEW q \in Calls PROVE SoleOK(q)'
  <2>1. SoleOK(q) /\ Carries(q)
    BY DEF OwnOK
  <2>2. pc'[q] \in {"lookup"} \cup AtSource => source'[q] \in Known
    BY <2>1 DEF SoleOK, Carries, AtSource
  <2>3. pc'[q] \in {"fetch", "upsert"} => \A d \in rows' : origin[d] = source'[q] => d = seenDoc'[q]
    BY <1>0, <2>1, <2>2 DEF SoleOK, Carries, AtSource
  <2>4. pc'[q] = "record" => \A d \in rows' : origin[d] = source'[q] => d = target'[q]
    BY <1>0, <2>1, <2>2 DEF SoleOK, Carries, AtSource
  <2> QED BY <2>1, <2>2, <2>3, <2>4 DEF SoleOK, Carries
<1> QED BY <1>1, <1>2, <1>3 DEF OwnOK

\* A call that does not move carries what it has.
LEMMA StillCarries ==
  ASSUME OwnOK, NEW q \in Calls, pc'[q] = pc[q], todo'[q] = todo[q], source'[q] = source[q],
         seenDoc'[q] = seenDoc[q], target'[q] = target[q]
  PROVE  Carries(q)
BY DEF OwnOK, SoleOK, Carries, AtSource

\* Steps of a call that is at no source, or leaves it without a record.
Aside(p) ==
  /\ UNCHANGED <<configured, retired, origin, source, seenDoc, todo>>
  /\ pc[p] # "record" /\ pc'[p] \notin {"lookup"} \cup AtSource
  /\ \A q \in Calls \ {p} : pc'[q] = pc[q] /\ target'[q] = target[q]
  /\ rows' \ rows \subseteq Docs \ issued
  /\ \A s \in Sources : sourceDoc[s] \in rows' => sourceDoc'[s] = sourceDoc[s]

LEMMA OwnAside == ASSUME SInv, OwnOK, NEW p \in Calls, Aside(p) PROVE OwnOK'
<1>1. \A q \in Calls : Carries(q)
  <2> SUFFICES ASSUME NEW q \in Calls PROVE Carries(q)
    OBVIOUS
  <2>1. CASE q = p
    BY <2>1 DEF Aside, OwnOK, SoleOK, Carries, AtSource
  <2>2. CASE q # p
    BY <2>2, StillCarries DEF Aside
  <2> QED BY <2>1, <2>2
<1>2. Known' = Known /\ \A d \in rows' \ rows : origin[d] = NoSource
  BY DEF Aside, Known, SInv, TablesOK, SyncBodyOK
<1> QED BY <1>1, <1>2, OwnFrame DEF Aside

LEMMA OwnDocumentSteps ==
  ASSUME SInv, OwnOK, NEW p \in Calls,
         \/ (Arrive(p) /\ UNCHANGED syncVars) \/ DocumentStep(p)
         \/ ReviewSynced(p) \/ DeleteSyncedRow(p) \/ SyncLockFails(p)
  PROVE  OwnOK'
<1>0. Types
  BY DEF SInv
<1> USE DEF Aside, AtSource, Goto, tableVars, syncVars, sourceVars, batchVars, historyVars,
            Types, SyncTypeOK
<1>1. CASE Arrive(p) /\ UNCHANGED syncVars
  <2>1. Aside(p)
    BY <1>0, <1>1 DEF Arrive, UploadCheck, ReindexCheck, ReviewCheck, DeleteCheck, Begin
  <2> QED BY ONLY SInv, OwnOK, <2>1, OwnAside
<1>2. CASE (UploadSchedule(p) \/ UploadFails(p) \/ UploadInsert(p)) /\ UNCHANGED syncVars
  <2>1. Aside(p)
    BY <1>0, <1>2 DEF UploadSchedule, UploadFails, UploadInsert
  <2> QED BY ONLY SInv, OwnOK, <2>1, OwnAside
<1>3. CASE (ReindexPurge(p) \/ ReindexCommit(p)) /\ UNCHANGED syncVars
  <2>1. Aside(p)
    BY <1>0, <1>3 DEF ReindexPurge, ReindexCommit
  <2> QED BY ONLY SInv, OwnOK, <2>1, OwnAside
<1>4. CASE Ingest(p) /\ UNCHANGED syncVars
  <2>1. Aside(p)
    BY <1>0, <1>4 DEF Ingest, IngestSelect, IngestClaim, IngestChunk, IngestInsert, IngestFinish,
                      IngestFails, IngestError
  <2> QED BY ONLY SInv, OwnOK, <2>1, OwnAside
<1>5. CASE ReviewSynced(p) \/ DeleteSyncedRow(p)
  <2>1. Aside(p)
    BY <1>0, <1>5 DEF ReviewSynced, ReviewUpdate, DeleteSyncedRow, DeleteRow
  <2> QED BY ONLY SInv, OwnOK, <2>1, OwnAside
<1>6. CASE SyncLockFails(p)
  <2>1. Aside(p)
    BY <1>0, <1>6 DEF SyncLockFails, SyncConflict, Conflict, HoldsShared, NeedsRow, Victim
  <2> QED BY ONLY SInv, OwnOK, <2>1, OwnAside
<1> QED BY <1>1, <1>2, <1>3, <1>4, <1>5, <1>6 DEF DocumentStep

LEMMA OwnBatchSteps ==
  ASSUME SInv, OwnOK, NEW p \in Calls,
         SyncNow(p) \/ NextSource(p) \/ Fetch(p) \/ UpdateSynced(p)
  PROVE  OwnOK'
<1>0. Types /\ CallOK(p) /\ SoleOK(p)
  BY DEF SInv, OwnOK
<1>1. /\ UNCHANGED <<rows, configured, retired, sourceDoc, origin>>
      /\ \A q \in Calls \ {p} :
           /\ pc'[q] = pc[q] /\ todo'[q] = todo[q] /\ source'[q] = source[q]
           /\ seenDoc'[q] = seenDoc[q] /\ target'[q] = target[q]
  BY <1>0 DEF SyncNow, NextSource, Fetch, UpdateSynced, Goto, Types, SyncTypeOK, tableVars,
              sourceVars, batchVars, historyVars
<1>2. Carries(p)
  <2>1. CASE SyncNow(p)
    BY <1>0, <2>1 DEF SyncNow, Goto, Carries, Known, AtSource, Types, SyncTypeOK
  <2>2. CASE NextSource(p)
    BY <1>0, <2>2 DEF NextSource, Goto, Carries, SoleOK, AtSource, Types, SyncTypeOK
  <2>3. CASE Fetch(p)
    BY <1>0, <2>3 DEF Fetch, Goto, Carries, SoleOK, AtSource, Types, SyncTypeOK
  <2>4. CASE UpdateSynced(p)
    BY <1>0, <2>4 DEF UpdateSynced, Goto, Carries, SoleOK, CallOK, batchVars, Types, SyncTypeOK
  <2> QED BY <2>1, <2>2, <2>3, <2>4
<1>3. \A q \in Calls : Carries(q)
  BY <1>1, <1>2, StillCarries
<1>4. Known' = Known
  BY <1>1 DEF Known
<1> QED BY <1>1, <1>3, <1>4, OwnFrame

\* The pointer read is that of the only document, unless another call is
\* about to record one.
LEMMA OwnLookup ==
  ASSUME SInv, OwnOK, SyncsApart', NEW p \in Calls, Lookup(p) PROVE OwnOK'
<1>0. Types /\ CallOK(p) /\ SoleOK(p)
  BY DEF SInv, OwnOK
<1>1. /\ pc[p] = "lookup"
      /\ UNCHANGED <<rows, configured, retired, sourceDoc, origin, source, target, todo>>
      /\ \A q \in Calls \ {p} : pc'[q] = pc[q] /\ seenDoc'[q] = seenDoc[q]
      /\ \/ pc'[p] = "batch"
         \/ pc'[p] = "fetch" /\ source[p] \in configured /\ seenDoc'[p] = sourceDoc[source[p]]
  BY <1>0 DEF Lookup, Goto, Types, SyncTypeOK, tableVars, sourceVars, historyVars
<1>2. \A s : Recording(s)' <=> Recording(s)
  BY <1>1 DEF Recording
<1>3. OneDocPerSource' /\ RecordedOK'
  BY <1>1, <1>2 DEF OwnOK, OneDocPerSource, RecordedOK, Known
<1>4. SoleOK(p)'
  <2> SUFFICES ASSUME pc'[p] = "fetch", NEW d \in rows, origin[d] = source[p]
               PROVE  d = seenDoc'[p]
    BY <1>0, <1>1 DEF SoleOK, Known, AtSource
  <2>1. ~Recording(source[p])
    <3> SUFFICES ASSUME NEW q \in Calls, pc[q] = "record", source[q] = source[p] PROVE FALSE
      BY DEF Recording
    <3> QED BY <1>1 DEF SyncsApart, AtSource
  <2> QED BY <1>1, <2>1 DEF OwnOK, RecordedOK
<1>5. ASSUME NEW q \in Calls, q # p PROVE SoleOK(q)'
  BY <1>1, <1>5 DEF OwnOK, SoleOK, Known
<1> QED BY <1>3, <1>4, <1>5 DEF OwnOK

\* The first document of a source is made by a call that found none, and no
\* other call is at the source.
LEMMA OwnCreate ==
  ASSUME SInv, OwnOK, SyncsApart, NEW p \in Calls, CreateSynced(p) PROVE OwnOK'
<1>0. Types /\ CallOK(p) /\ SoleOK(p) /\ SyncBodyOK
  BY DEF SInv, OwnOK, TablesOK
<1> PICK d \in Docs \ issued :
      /\ rows' = rows \cup {d} /\ target' = [target EXCEPT ![p] = d]
      /\ origin' = [origin EXCEPT ![d] = source[p]]
  BY DEF CreateSynced
<1>1. /\ pc[p] = "upsert" /\ seenDoc[p] = NoDoc /\ pc' = [pc EXCEPT ![p] = "record"]
      /\ UNCHANGED <<configured, retired, sourceDoc, todo, source, seenDoc>>
  BY DEF CreateSynced, Goto, sourceVars, batchVars
<1>2. source[p] \in Known /\ source[p] \in Sources
  BY <1>0, <1>1 DEF SoleOK, CallOK, AtSource
<1>3. /\ origin'[d] = source[p] /\ d \notin rows /\ pc'[p] = "record" /\ target'[p] = d
      /\ \A e \in rows : origin'[e] = origin[e] /\ e \in Docs
      /\ \A q \in Calls \ {p} : pc'[q] = pc[q] /\ target'[q] = target[q]
  BY <1>0, <1>1 DEF Types, SyncTypeOK
<1>4. \A e \in rows : origin[e] # source[p]
  BY <1>0, <1>1, <1>3 DEF SoleOK
<1>5. OneDocPerSource'
  BY <1>3, <1>4 DEF OwnOK, OneDocPerSource
<1>6. RecordedOK'
  <2>1. Recording(source[p])' /\ \A s : Recording(s) => Recording(s)'
    BY <1>1, <1>3 DEF Recording
  <2> QED BY <1>1, <1>2, <1>3, <2>1 DEF OwnOK, RecordedOK, Known
<1>7. SoleOK(p)'
  BY <1>0, <1>1, <1>2, <1>3, <1>4 DEF SoleOK, Known
<1>8. ASSUME NEW q \in Calls, q # p PROVE SoleOK(q)'
  <2>1. pc[q] \in AtSource => source[q] # source[p]
    BY <1>1, <1>8 DEF SyncsApart, AtSource
  <2>2. SoleOK(q)
    BY DEF OwnOK
  <2> QED BY <1>1, <1>3, <1>8, <2>1, <2>2 DEF SoleOK, Known, AtSource
<1> QED BY <1>5, <1>6, <1>7, <1>8 DEF OwnOK

LEMMA OwnRecord == ASSUME SInv, OwnOK, NEW p \in Calls, Record(p) PROVE OwnOK'
<1>0. Types /\ CallOK(p) /\ SoleOK(p)
  BY DEF SInv, OwnOK
<1>1. /\ pc[p] = "record" /\ source[p] \in Sources
      /\ UNCHANGED <<rows, configured, retired, origin, target, source, seenDoc, todo>>
      /\ pc'[p] \in {"raised", "ingest"} /\ \A q \in Calls \ {p} : pc'[q] = pc[q]
  BY <1>0 DEF Record, Goto, CallOK, Types, SyncTypeOK, tableVars, batchVars, historyVars
<1>2. \A s \in Sources \ {source[p]} : sourceDoc'[s] = sourceDoc[s]
  BY <1>0 DEF Record, Types, SyncTypeOK
<1>3. source[p] \in configured => target[p] \notin rows \/ sourceDoc'[source[p]] = target[p]
  BY <1>0, <1>1 DEF Record, Types, SyncTypeOK
<1>4. OneDocPerSource'
  BY <1>1 DEF OwnOK, OneDocPerSource
<1>5. RecordedOK'
  <2> SUFFICES ASSUME NEW d \in rows, origin[d] \in configured
               PROVE  d = sourceDoc'[origin[d]] \/ Recording(origin[d])'
    BY <1>1 DEF OwnOK, RecordedOK, Known
  <2>1. CASE origin[d] = source[p]
    BY <1>0, <1>1, <1>3, <2>1 DEF SoleOK
  <2>2. CASE origin[d] # source[p]
    <3>1. origin[d] \in Sources
      BY <1>0 DEF Types, SyncTypeOK
    <3>2. d = sourceDoc[origin[d]] \/ Recording(origin[d])
      BY DEF OwnOK, RecordedOK
    <3>3. sourceDoc'[origin[d]] = sourceDoc[origin[d]]
      BY <1>2, <2>2, <3>1
    <3>4. Recording(origin[d]) => Recording(origin[d])'
      BY <1>1, <2>2 DEF Recording
    <3> QED BY <3>2, <3>3, <3>4
  <2> QED BY <2>1, <2>2
<1>6. ASSUME NEW q \in Calls PROVE SoleOK(q)'
  BY <1>1 DEF OwnOK, SoleOK, Known, AtSource
<1> QED BY <1>4, <1>5, <1>6 DEF OwnOK

LEMMA OwnSources ==
  ASSUME SInv, OwnOK, (\E s \in Sources : AddSource(s) \/ DeleteSource(s)) \/ UNCHANGED allVars
  PROVE  OwnOK'
<1>0. UNCHANGED <<rows, pc, target, sourceDoc, todo, source, seenDoc, origin>>
  BY DEF AddSource, DeleteSource, allVars, vars, syncVars, batchVars, historyVars
<1>1. \A s : Recording(s)' <=> Recording(s)
  BY <1>0 DEF Recording
<1>2. ASSUME NEW s \in Sources, AddSource(s) PROVE OwnOK'
  <2>1. configured' = configured \cup {s} /\ Known' = Known \cup {s} /\ s \notin Known /\ s # NoSource
    BY <1>2 DEF AddSource, Known
  <2>2. OneDocPerSource' /\ RecordedOK'
    BY <1>0, <1>1, <2>1 DEF OwnOK, OneDocPerSource, RecordedOK
  <2>3. \A q \in Calls : SoleOK(q)'
    BY <1>0, <2>1 DEF OwnOK, SoleOK
  <2> QED BY <2>2, <2>3 DEF OwnOK
<1>3. CASE (\E s \in Sources : DeleteSource(s)) \/ UNCHANGED allVars
  <2>1. configured' \subseteq configured /\ Known' = Known
    BY <1>3 DEF DeleteSource, Known, allVars, syncVars
  <2>2. \A q \in Calls : Carries(q)
    BY <1>0, StillCarries
  <2> QED BY <1>0, <2>1, <2>2, OwnFrame
<1> QED BY <1>2, <1>3

LEMMA OwnStep ==
  ASSUME SInv, OwnOK, SyncsApart, SyncsApart', [SyncRunning]_allVars PROVE OwnOK'
<1>1. CASE (\E s \in Sources : AddSource(s) \/ DeleteSource(s)) \/ UNCHANGED allVars
  BY <1>1, OwnSources
<1>2. ASSUME NEW p \in Calls, (Arrive(p) /\ UNCHANGED syncVars) \/ SyncNow(p) \/ SyncStep(p)
      PROVE  OwnOK'
  BY <1>2, OwnDocumentSteps, OwnBatchSteps, OwnLookup, OwnCreate, OwnRecord DEF SyncStep
<1> QED BY <1>1, <1>2 DEF SyncRunning, SyncQuiet

\* "A source maps to exactly one document" under the condition the code leaves
\* open: while no two syncs of a source overlap between its lookup and its
\* record, and the server does not die there, no source has two documents,
\* whatever else is deleted, reindexed or rolled back meanwhile.
THEOREM SyncsApartOwnOneDoc == RunningSpec /\ []SyncsApart => []OneDocPerSource
<1>1. SyncInit => OwnOK
  BY DEF SyncInit, Init, OwnOK, OneDocPerSource, RecordedOK, SoleOK, AtSource
<1>2. OwnOK => OneDocPerSource
  BY DEF OwnOK
<1>3. [SyncRunning]_allVars => [SyncNext]_allVars
  BY DEF SyncNext
<1>4. SInv /\ OwnOK /\ SyncsApart /\ SyncsApart' /\ [SyncRunning]_allVars => OwnOK'
  BY OwnStep
<1> QED BY <1>1, <1>2, <1>3, <1>4, InitSInv, NextSInv, PTL DEF RunningSpec
=============================================================================
