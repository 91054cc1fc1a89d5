----------------------------- MODULE Documents -----------------------------
(***************************************************************************)
(* The document lifecycle of the knowledge base: upload, background        *)
(* ingestion, reindex, editorial review and deletion, as the handlers of   *)
(* app/api/documents.py and ingest_document of app/services/ingestion.py   *)
(* run them against MySQL/InnoDB.                                          *)
(*                                                                         *)
(* A call is one HTTP request together with the background task it         *)
(* schedules: FastAPI runs the task of a request after its response, in    *)
(* the same server process.  Calls interleave at every database statement  *)
(* that can wait or be seen by another call.  Every get_conn() block is a  *)
(* transaction: what it wrote is visible to others from its commit on.     *)
(*                                                                         *)
(* InnoDB locks that decide the interleavings:                             *)
(*  - inserting a document_chunk takes a shared lock on the parent         *)
(*    document row (foreign key check), held until the transaction ends;   *)
(*  - an UPDATE or DELETE of the document row needs the exclusive lock;    *)
(*  - DELETE FROM document_chunk WHERE document_id = d locks the rows it   *)
(*    finds and the range they live in, against inserts.                   *)
(* A statement that cannot get its lock waits; a cycle of waits is broken  *)
(* by rolling one transaction back, and a long wait by a timeout.          *)
(***************************************************************************)
EXTENDS Naturals, FiniteSets

CONSTANTS
  Docs,       \* document ids, handed out by AUTO_INCREMENT and never reused
  Calls,      \* the HTTP calls of a behaviour; each arrives at most once
  Contents,   \* markdown bodies
  NumChunks,  \* how many chunks chunk_markdown makes of each body
  DocLimit,   \* the tenant's plan_tier.doc_limit
  NoDoc, NoContent

ASSUME DocumentsAssumption ==
  /\ NumChunks \in [Contents -> Nat]
  /\ DocLimit \in Nat
  /\ NoDoc \notin Docs
  /\ NoContent \notin Contents

VARIABLES
  issued,    \* ids AUTO_INCREMENT has handed out
  rows,      \* ids whose document row exists
  status, review, content,   \* columns of document
  chunks,    \* committed document_chunk rows (each with its embedding)
  pc,        \* where each call is
  target,    \* the document each call works on
  publish,   \* auto_publish argument of the call's ingest_document
  raw,       \* raw_markdown as the ingest has read it
  inserted   \* chunks the ingest has inserted and not committed

tableVars == <<issued, rows, status, review, content, chunks>>
callVars == <<pc, target, publish, raw, inserted>>
vars == <<issued, rows, status, review, content, chunks,
          pc, target, publish, raw, inserted>>

Status == {"pending", "processing", "ready", "error"}
ReviewState == {"draft", "review", "published"}

\* pc values of a request before its ingest, and of the ingest itself.
RequestPc == {"upload", "audit", "reindex", "purged", "review", "delete"}
IngestPc == {"ingest", "claim", "chunk", "insert", "finish", "fail"}
EndPc == {"done", "raised", "crashed"}
CallPc == {"idle"} \cup RequestPc \cup IngestPc \cup EndPc

\* One document_chunk row; run is the ingest that wrote it.
Chunk == [doc : Docs, run : Calls, index : Nat, content : Contents]

TypeOK ==
  /\ issued \subseteq Docs
  /\ rows \subseteq issued
  /\ status \in [Docs -> Status]
  /\ review \in [Docs -> ReviewState]
  /\ content \in [Docs -> Contents \cup {NoContent}]
  /\ chunks \subseteq Chunk
  /\ pc \in [Calls -> CallPc]
  /\ target \in [Calls -> Docs \cup {NoDoc}]
  /\ publish \in [Calls -> BOOLEAN]
  /\ raw \in [Calls -> Contents \cup {NoContent}]
  /\ inserted \in [Calls -> Nat]

Init ==
  /\ issued = {} /\ rows = {} /\ chunks = {}
  /\ status = [d \in Docs |-> "pending"]
  /\ review = [d \in Docs |-> "draft"]
  /\ content = [d \in Docs |-> NoContent]
  /\ pc = [p \in Calls |-> "idle"]
  /\ target = [p \in Calls |-> NoDoc]
  /\ publish = [p \in Calls |-> FALSE]
  /\ raw = [p \in Calls |-> NoContent]
  /\ inserted = [p \in Calls |-> 0]

-----------------------------------------------------------------------------
(* Rows, chunks and locks.                                                 *)

ChunksOf(d) == {c \in chunks : c.doc = d}

\* The chunk rows of p's open transaction.
Pending(p) ==
  {[doc |-> target[p], run |-> p, index |-> i, content |-> raw[p]] :
     i \in 0 .. inserted[p] - 1}

\* p's open transaction holds the shared lock on its document's row.
HoldsShared(p) == pc[p] = "insert" \/ (pc[p] = "finish" /\ inserted[p] > 0)

\* Other calls on p's document.
Rivals(p) == {q \in Calls \ {p} : target[q] = target[p]}

\* The exclusive lock on the document row can be granted to p.
RowFree(p) == \A q \in Rivals(p) : ~HoldsShared(q)

\* p's next statement needs the exclusive lock on the document row.
NeedsRow(p) == pc[p] \in {"purged", "review", "delete", "claim", "finish", "fail"}

Goto(p, to) == pc' = [pc EXCEPT ![p] = to]

\* UPDATE document SET status = s WHERE id = target[p]: no row, no effect.
SetStatus(p, s) ==
  status' = IF target[p] \in rows THEN [status EXCEPT ![target[p]] = s]
                                  ELSE status

-----------------------------------------------------------------------------
(* upload_document.                                                        *)

\* enforce_document_limit counts the rows in a transaction of its own; the
\* request body is awaited after it (one of more than 1 MB is on disk, and
\* other requests run meanwhile).  A rejected upload changes nothing.
UploadCheck(p) ==
  /\ pc[p] = "idle"
  /\ Cardinality(rows) < DocLimit
  /\ Goto(p, "upload")
  /\ UNCHANGED <<tableVars, target, publish, raw, inserted>>

\* Mutated form: the id is not taken from AUTO_INCREMENT for good.
UploadInsertReusingIds(p) ==
  /\ pc[p] = "upload"
  /\ \E d \in Docs \ rows, c \in Contents :
       /\ rows' = rows \cup {d}
       /\ status' = [status EXCEPT ![d] = "pending"]
       /\ review' = [review EXCEPT ![d] = "draft"]
       /\ content' = [content EXCEPT ![d] = c]
       /\ target' = [target EXCEPT ![p] = d]
  /\ Goto(p, "audit")
  /\ UNCHANGED <<issued, chunks, publish, raw, inserted>>

UploadInsert(p) ==
  /\ pc[p] = "upload"
  /\ \E d \in Docs \ issued, c \in Contents :
       /\ issued' = issued \cup {d}
       /\ rows' = rows \cup {d}
       /\ status' = [status EXCEPT ![d] = "pending"]
       /\ review' = [review EXCEPT ![d] = "draft"]
       /\ content' = [content EXCEPT ![d] = c]
       /\ target' = [target EXCEPT ![p] = d]
  /\ Goto(p, "audit")
  /\ UNCHANGED <<chunks, publish, raw, inserted>>

\* The audit row is written, the response sent and the ingest scheduled.
UploadSchedule(p) ==
  /\ pc[p] = "audit"
  /\ Goto(p, "ingest")
  /\ publish' = [publish EXCEPT ![p] = TRUE]
  /\ UNCHANGED <<tableVars, target, raw, inserted>>

\* The body is not UTF-8 or the category is another tenant's; or, after the
\* insert has committed, log_audit_event raises and nothing is scheduled.
UploadFails(p) ==
  /\ pc[p] \in {"upload", "audit"}
  /\ Goto(p, "raised")
  /\ UNCHANGED <<tableVars, target, publish, raw, inserted>>

-----------------------------------------------------------------------------
(* reindex_document, set_review_state, delete_document: each looks the row *)
(* up first (404 when missing) and writes in a later statement.            *)

Begin(p, first) ==
  /\ pc[p] = "idle"
  /\ \E d \in rows : target' = [target EXCEPT ![p] = d]
  /\ Goto(p, first)
  /\ UNCHANGED <<tableVars, publish, raw, inserted>>

ReindexCheck(p) == Begin(p, "reindex")
ReviewCheck(p) == Begin(p, "review")
DeleteCheck(p) == Begin(p, "delete")

\* DELETE FROM document_chunk: waits for chunk rows another transaction has
\* inserted or deleted and not committed.  Visible only at the commit.
ReindexPurge(p) ==
  /\ pc[p] = "reindex"
  /\ \A q \in Rivals(p) :
       /\ inserted[q] = 0
       /\ pc[q] = "purged" => ChunksOf(target[p]) = {}
  /\ Goto(p, "purged")
  /\ UNCHANGED <<tableVars, target, publish, raw, inserted>>

\* Mutated form: the chunks are cleared and the status is left as it was.
ReindexCommitNoReset(p) ==
  /\ pc[p] = "purged"
  /\ RowFree(p)
  /\ chunks' = chunks \ ChunksOf(target[p])
  /\ publish' = [publish EXCEPT ![p] = FALSE]
  /\ Goto(p, "ingest")
  /\ UNCHANGED <<issued, rows, status, review, content, target, raw, inserted>>

\* Mutated form: the status is reset and the old chunks stay.
ReindexCommitNoPurge(p) ==
  /\ pc[p] = "purged"
  /\ RowFree(p)
  /\ SetStatus(p, "pending")
  /\ publish' = [publish EXCEPT ![p] = FALSE]
  /\ Goto(p, "ingest")
  /\ UNCHANGED <<issued, rows, review, content, chunks, target, raw, inserted>>

\* UPDATE document SET status = 'pending', commit, schedule the ingest.
ReindexCommit(p) ==
  /\ pc[p] = "purged"
  /\ RowFree(p)
  /\ chunks' = chunks \ ChunksOf(target[p])
  /\ SetStatus(p, "pending")
  /\ publish' = [publish EXCEPT ![p] = FALSE]
  /\ Goto(p, "ingest")
  /\ UNCHANGED <<issued, rows, review, content, target, raw, inserted>>

ReviewUpdate(p) ==
  /\ pc[p] = "review"
  /\ RowFree(p)
  /\ \E s \in ReviewState :
       review' = IF target[p] \in rows THEN [review EXCEPT ![target[p]] = s]
                                       ELSE review
  /\ Goto(p, "done")
  /\ UNCHANGED <<issued, rows, status, content, chunks,
                 target, publish, raw, inserted>>

\* The foreign keys cascade to the chunks, which must not be locked by a
\* reindex that has deleted them and not committed.
DeleteRow(p) ==
  /\ pc[p] = "delete"
  /\ RowFree(p)
  /\ \A q \in Rivals(p) : pc[q] = "purged" => ChunksOf(target[p]) = {}
  /\ rows' = rows \ {target[p]}
  /\ chunks' = chunks \ ChunksOf(target[p])
  /\ Goto(p, "done")
  /\ UNCHANGED <<issued, status, review, content,
                 target, publish, raw, inserted>>

-----------------------------------------------------------------------------
(* ingest_document.                                                        *)

\* SELECT tenant_id, raw_markdown; a missing row ends the task.
IngestSelect(p) ==
  /\ pc[p] = "ingest"
  /\ \/ /\ target[p] \in rows
        /\ raw' = [raw EXCEPT ![p] = content[target[p]]]
        /\ Goto(p, "claim")
     \/ /\ target[p] \notin rows
        /\ Goto(p, "done")
        /\ UNCHANGED raw
  /\ UNCHANGED <<tableVars, target, publish, inserted>>

\* UPDATE document SET status = 'processing', commit.
IngestClaim(p) ==
  /\ pc[p] = "claim"
  /\ RowFree(p)
  /\ SetStatus(p, "processing")
  /\ Goto(p, "chunk")
  /\ UNCHANGED <<issued, rows, review, content, chunks,
                 target, publish, raw, inserted>>

\* chunk_markdown, and the foreign key check of the first INSERT.
IngestChunk(p) ==
  /\ pc[p] = "chunk"
  /\ \/ NumChunks[raw[p]] = 0 /\ Goto(p, "finish")
     \/ NumChunks[raw[p]] > 0 /\ target[p] \in rows /\ Goto(p, "insert")
  /\ UNCHANGED <<tableVars, target, publish, raw, inserted>>

\* INSERT one chunk and its embedding; a reindex that has purged this
\* document and not committed keeps the range locked.
IngestInsert(p) ==
  /\ pc[p] = "insert"
  /\ \A q \in Rivals(p) : pc[q] # "purged"
  /\ inserted' = [inserted EXCEPT ![p] = @ + 1]
  /\ Goto(p, IF inserted[p] + 1 = NumChunks[raw[p]] THEN "finish" ELSE "insert")
  /\ UNCHANGED <<tableVars, target, publish, raw>>

\* UPDATE document SET status = 'ready' (and publish an upload), commit.
IngestFinish(p) ==
  /\ pc[p] = "finish"
  /\ RowFree(p)
  /\ SetStatus(p, "ready")
  /\ review' = IF publish[p] /\ target[p] \in rows
               THEN [review EXCEPT ![target[p]] = "published"] ELSE review
  /\ chunks' = chunks \cup Pending(p)
  /\ inserted' = [inserted EXCEPT ![p] = 0]
  /\ Goto(p, "done")
  /\ UNCHANGED <<issued, rows, content, target, publish, raw>>

\* Mutated form: no conn.rollback(), so the commit of the error status also
\* commits the chunks inserted so far.
IngestFailsKeepingChunks(p) ==
  /\ pc[p] \in {"chunk", "insert"}
  /\ chunks' = chunks \cup Pending(p)
  /\ inserted' = [inserted EXCEPT ![p] = 0]
  /\ Goto(p, "fail")
  /\ UNCHANGED <<issued, rows, status, review, content, target, publish, raw>>

\* Mutated form: the transaction is left open when the attempt fails.
IngestFailsLeavingLocks(p) ==
  /\ pc[p] \in {"chunk", "insert"}
  /\ Goto(p, "fail")
  /\ UNCHANGED <<tableVars, target, publish, raw, inserted>>

\* Chunking or embed_text raises, the parent row is gone, or the INSERT is
\* chosen as a deadlock victim: conn.rollback().
IngestFails(p) ==
  /\ pc[p] \in {"chunk", "insert"}
  /\ inserted' = [inserted EXCEPT ![p] = 0]
  /\ Goto(p, "fail")
  /\ UNCHANGED <<tableVars, target, publish, raw>>

\* Mutated form: raise before the commit, so get_conn rolls the error back.
IngestErrorLost(p) ==
  /\ pc[p] = "fail"
  /\ RowFree(p)
  /\ Goto(p, "raised")
  /\ UNCHANGED <<tableVars, target, publish, raw, inserted>>

\* UPDATE document SET status = 'error', commit, raise.
IngestError(p) ==
  /\ pc[p] = "fail"
  /\ RowFree(p)
  /\ SetStatus(p, "error")
  /\ Goto(p, "raised")
  /\ UNCHANGED <<issued, rows, review, content, chunks,
                 target, publish, raw, inserted>>

-----------------------------------------------------------------------------
(* Lock waits that end badly, and crashes.                                 *)

\* p waits for a lock q holds, or both wait for each other: p holds the
\* shared lock and asks for the exclusive one behind q's waiting request.
Conflict(p, q) ==
  \/ (NeedsRow(p) \/ pc[p] = "reindex") /\ HoldsShared(q)
  \/ NeedsRow(p) /\ HoldsShared(p) /\ NeedsRow(q)
  \/ {pc[p], pc[q]} = {"delete", "purged"}

\* p is the transaction InnoDB rolls back.  Of the statements that wait for
\* the row, only the last UPDATE of ingest_document is inside its try.
Victim(p) ==
  /\ inserted' = [inserted EXCEPT ![p] = 0]
  /\ Goto(p, IF pc[p] = "finish" THEN "fail" ELSE "raised")
  /\ UNCHANGED <<tableVars, target, publish, raw>>

\* A deadlock victim or a lock wait timeout.
LockFails(p) == (\E q \in Rivals(p) : Conflict(p, q)) /\ Victim(p)

Active(p) == pc[p] \notin {"idle"} \cup EndPc

\* The server process dies: running requests and queued background tasks
\* are gone, MySQL rolls open transactions back.  Nothing resumes them.
Crash ==
  /\ \E p \in Calls : Active(p)
  /\ pc' = [p \in Calls |-> IF Active(p) THEN "crashed" ELSE pc[p]]
  /\ inserted' = [p \in Calls |-> 0]
  /\ UNCHANGED <<tableVars, target, publish, raw>>

-----------------------------------------------------------------------------
Arrive(p) ==
  UploadCheck(p) \/ ReindexCheck(p) \/ ReviewCheck(p) \/ DeleteCheck(p)

Request(p) ==
  \/ UploadInsert(p) \/ UploadSchedule(p) \/ UploadFails(p)
  \/ ReindexPurge(p) \/ ReindexCommit(p)
  \/ ReviewUpdate(p) \/ DeleteRow(p)

Ingest(p) ==
  \/ IngestSelect(p) \/ IngestClaim(p) \/ IngestChunk(p) \/ IngestInsert(p)
  \/ IngestFinish(p) \/ IngestFails(p) \/ IngestError(p)

Step(p) == Request(p) \/ Ingest(p) \/ LockFails(p)

\* The server idles when no call is active.
Quiet == (\A p \in Calls : ~Active(p)) /\ UNCHANGED vars

Running == Quiet \/ \E p \in Calls : Arrive(p) \/ Step(p)

Next == Running \/ Crash

Spec == Init /\ [][Next]_vars

\* An accepted call keeps running while the server does: the thread pool runs
\* it and InnoDB grants, times out or breaks every lock wait.
FairSpec == Spec /\ \A p \in Calls : WF_vars(Step(p))
-----------------------------------------------------------------------------
(* Properties.                                                             *)

\* What the retrieval queries of vector_store.py join on.
Searchable(d) == d \in rows /\ status[d] = "ready" /\ review[d] = "published"

\* Whatever interleaving of ingests, reindexes, failures and crashes: the
\* committed chunks of one ingest are all the chunks of the body it read, or
\* none (ingest_document's single commit and its rollback).
WholeRuns ==
  \A c \in chunks :
    /\ c.index < NumChunks[c.content]
    /\ \A i \in 0 .. NumChunks[c.content] - 1 :
         [doc |-> c.doc, run |-> c.run, index |-> i, content |-> c.content] \in chunks

\* A deleted document leaves no chunk behind, even when an ingest of it was
\* under way: the foreign keys make the ingest or the delete give way.
NoOrphanChunks == \A c \in chunks : c.doc \in rows

\* A document waiting for its ingest serves nothing of an earlier one: the
\* reindex clears the chunks and resets the status in one transaction.
PendingIsEmpty == \A d \in rows : status[d] = "pending" => ChunksOf(d) = {}

\* 'ready' is never set on a document whose index is missing: whichever of
\* several overlapping ingests and reindexes wrote last, a ready document
\* whose body makes chunks has chunks of that body.
ReadyIsIndexed ==
  \A d \in rows :
    status[d] = "ready" /\ NumChunks[content[d]] > 0 =>
      \E c \in ChunksOf(d) : c.content = content[d]

\* The status of a document tells the truth about its index.
IndexMatchesStatus == NoOrphanChunks /\ PendingIsEmpty /\ ReadyIsIndexed

\* A step never takes chunks from a document that visitors can search before
\* and after it: the index of a live document is not seen half rebuilt.
SearchableKeepsChunks ==
  [][\A d \in Docs : Searchable(d) /\ Searchable(d)' => ChunksOf(d) \subseteq ChunksOf(d)']_vars

\* An ingest that has been scheduled brings its document out of 'pending' and
\* 'processing', or the document is deleted, unless the server dies with a call on
\* it: no failure, lock wait or deadlock leaves it stuck (ingestion.py, "Note on
\* transaction handling").
IngestSettles ==
  \A p \in Calls, d \in Docs :
    (pc[p] \in IngestPc /\ target[p] = d) ~>
      \/ d \notin rows \/ status[d] \in {"ready", "error"}
      \/ \E q \in Calls : target[q] = d /\ pc[q] = "crashed"

\* Every accepted call comes to an end: nobody waits for a lock forever.
CallsEnd == \A p \in Calls : Active(p) ~> pc[p] \in EndPc
=============================================================================
