----------------------------- MODULE WebsiteSync -----------------------------
(***************************************************************************)
(* "Sync now" (app/services/website_sync.py) composed with the document    *)
(* lifecycle of Documents: both write the document and document_chunk      *)
(* tables and both run ingest_document.                                    *)
(*                                                                         *)
(* A sync call runs a batch: for each configured source it reads the       *)
(* source row, fetches the page, creates or updates the source's document, *)
(* records the document and the content hash on the source, and ingests.   *)
(* Each of these is a transaction of its own; other calls run in between.  *)
(* The hash of a text stands for the text: two texts with one SHA-256 are  *)
(* left out.                                                               *)
(***************************************************************************)
EXTENDS Documents

CONSTANTS
  Sources,   \* tenant_sync_source ids
  NoSource

ASSUME SourcesAssumption == NoSource \notin Sources

VARIABLES
  configured,  \* tenant_sync_source rows
  retired,     \* ids of deleted ones: AUTO_INCREMENT never reuses them
  sourceDoc,   \* their document_id
  sourceHash,  \* their last_content_hash
  todo,        \* sources a batch has yet to visit
  source,      \* the source it is at
  seenDoc, seenHash,  \* the source row as this sync read it
  page,        \* the text it extracted from the page
  origin,      \* history: the source a document was created for
  reviewed     \* history: a document's body when an editor last published it

sourceVars == <<configured, retired, sourceDoc, sourceHash>>
batchVars == <<todo, source, seenDoc, seenHash, page>>
historyVars == <<origin, reviewed>>
syncVars == <<configured, retired, sourceDoc, sourceHash,
              todo, source, seenDoc, seenHash, page, origin, reviewed>>
allVars == <<vars, syncVars>>

SyncPc == {"batch", "lookup", "fetch", "upsert", "record"}

SyncTypeOK ==
  /\ issued \subseteq Docs /\ rows \subseteq issued /\ chunks \subseteq Chunk
  /\ status \in [Docs -> Status] /\ review \in [Docs -> ReviewState]
  /\ content \in [Docs -> Contents \cup {NoContent}]
  /\ pc \in [Calls -> CallPc \cup SyncPc]
  /\ target \in [Calls -> Docs \cup {NoDoc}]
  /\ inserted \in [Calls -> Nat]
  /\ configured \subseteq Sources \ retired
  /\ retired \subseteq Sources
  /\ sourceDoc \in [Sources -> Docs \cup {NoDoc}]
  /\ sourceHash \in [Sources -> Contents \cup {NoContent}]
  /\ todo \in [Calls -> SUBSET Sources]
  /\ source \in [Calls -> Sources \cup {NoSource}]
  /\ seenDoc \in [Calls -> Docs \cup {NoDoc}]
  /\ seenHash \in [Calls -> Contents \cup {NoContent}]
  /\ page \in [Calls -> Contents \cup {NoContent}]
  /\ origin \in [Docs -> Sources \cup {NoSource}]
  /\ reviewed \in [Docs -> Contents \cup {NoContent}]

SyncInit ==
  /\ Init
  /\ configured = {} /\ retired = {}
  /\ sourceDoc = [s \in Sources |-> NoDoc]
  /\ sourceHash = [s \in Sources |-> NoContent]
  /\ todo = [p \in Calls |-> {}]
  /\ source = [p \in Calls |-> NoSource]
  /\ seenDoc = [p \in Calls |-> NoDoc]
  /\ seenHash = [p \in Calls |-> NoContent]
  /\ page = [p \in Calls |-> NoContent]
  /\ origin = [d \in Docs |-> NoSource]
  /\ reviewed = [d \in Docs |-> NoContent]

-----------------------------------------------------------------------------
(* The configured sources.                                                 *)

\* Mutated form: the id of a deleted source is handed out again.
AddSourceReusingIds(s) ==
  /\ s \notin configured
  /\ configured' = configured \cup {s}
  /\ UNCHANGED <<vars, retired, sourceDoc, sourceHash, batchVars, historyVars>>

\* add_sync_source: the unique key refuses a URL that is already there.
AddSource(s) ==
  /\ s \notin configured \cup retired
  /\ configured' = configured \cup {s}
  /\ UNCHANGED <<vars, retired, sourceDoc, sourceHash, batchVars, historyVars>>

\* delete_sync_source: the document stays.
DeleteSource(s) ==
  /\ s \in configured
  /\ configured' = configured \ {s}
  /\ retired' = retired \cup {s}
  /\ UNCHANGED <<vars, sourceDoc, sourceHash, batchVars, historyVars>>

-----------------------------------------------------------------------------
(* sync_all_sources and sync_source.                                       *)

SyncNow(p) ==
  /\ pc[p] = "idle"
  /\ todo' = [todo EXCEPT ![p] = configured]
  /\ Goto(p, "batch")
  /\ UNCHANGED <<tableVars, target, publish, raw, inserted,
                 sourceVars, source, seenDoc, seenHash, page, historyVars>>

\* Mutated form: the batch does not move past the source it took.
NextSourceForever(p) ==
  /\ pc[p] = "batch" \/ (pc[p] = "done" /\ todo[p] # {})
  /\ \/ /\ todo[p] = {}
        /\ Goto(p, "done")
        /\ UNCHANGED source
     \/ \E s \in todo[p] :
          /\ source' = [source EXCEPT ![p] = s]
          /\ Goto(p, "lookup")
  /\ UNCHANGED <<tableVars, target, publish, raw, inserted,
                 sourceVars, todo, seenDoc, seenHash, page, historyVars>>

\* The next source, after the loop's start, a caught WebsiteSyncError, an
\* unchanged page, or an ingest that returned.
NextSource(p) ==
  /\ pc[p] = "batch" \/ (pc[p] = "done" /\ todo[p] # {})
  /\ \/ /\ todo[p] = {}
        /\ Goto(p, "done")
        /\ UNCHANGED <<todo, source>>
     \/ \E s \in todo[p] :
          /\ todo' = [todo EXCEPT ![p] = @ \ {s}]
          /\ source' = [source EXCEPT ![p] = s]
          /\ Goto(p, "lookup")
  /\ UNCHANGED <<tableVars, target, publish, raw, inserted,
                 sourceVars, seenDoc, seenHash, page, historyVars>>

\* SELECT url, document_id, last_content_hash; a source that is gone is a
\* WebsiteSyncError, which the batch catches.
Lookup(p) ==
  /\ pc[p] = "lookup"
  /\ \/ /\ source[p] \in configured
        /\ seenDoc' = [seenDoc EXCEPT ![p] = sourceDoc[source[p]]]
        /\ seenHash' = [seenHash EXCEPT ![p] = sourceHash[source[p]]]
        /\ Goto(p, "fetch")
     \/ /\ source[p] \notin configured
        /\ Goto(p, "batch")
        /\ UNCHANGED <<seenDoc, seenHash>>
  /\ UNCHANGED <<tableVars, target, publish, raw, inserted,
                 sourceVars, todo, source, page, historyVars>>

\* The website answers with any page, or the fetch fails (caught).  A page
\* that hashes as before, of a source that still has its document, is
\* 'unchanged'.
Fetch(p) ==
  /\ pc[p] = "fetch"
  /\ \/ Goto(p, "batch") /\ UNCHANGED <<page, target>>
     \/ \E c \in Contents :
          /\ page' = [page EXCEPT ![p] = c]
          /\ target' = [target EXCEPT ![p] = seenDoc[p]]
          /\ Goto(p, IF seenDoc[p] # NoDoc /\ c = seenHash[p] THEN "batch" ELSE "upsert")
  /\ UNCHANGED <<tableVars, publish, raw, inserted,
                 sourceVars, todo, source, seenDoc, seenHash, historyVars>>

\* _upsert_synced_document on a source's first sync.
CreateSynced(p) ==
  /\ pc[p] = "upsert" /\ seenDoc[p] = NoDoc
  /\ \E d \in Docs \ issued :
       /\ issued' = issued \cup {d}
       /\ rows' = rows \cup {d}
       /\ status' = [status EXCEPT ![d] = "pending"]
       /\ review' = [review EXCEPT ![d] = "draft"]
       /\ content' = [content EXCEPT ![d] = page[p]]
       /\ target' = [target EXCEPT ![p] = d]
       /\ origin' = [origin EXCEPT ![d] = source[p]]
  /\ Goto(p, "record")
  /\ UNCHANGED <<chunks, publish, raw, inserted, sourceVars, batchVars, reviewed>>

\* Mutated form: a changed page keeps the review state of its document.
UpdateSyncedKeepingReview(p) ==
  /\ pc[p] = "upsert" /\ seenDoc[p] # NoDoc
  /\ RowFree(p)
  /\ \A q \in Rivals(p) : pc[q] = "purged" => ChunksOf(target[p]) = {}
  /\ IF target[p] \in rows
     THEN /\ status' = [status EXCEPT ![target[p]] = "pending"]
          /\ content' = [content EXCEPT ![target[p]] = page[p]]
          /\ chunks' = chunks \ ChunksOf(target[p])
     ELSE UNCHANGED <<status, content, chunks>>
  /\ Goto(p, "record")
  /\ UNCHANGED <<issued, rows, review, target, publish, raw, inserted,
                 sourceVars, batchVars, historyVars>>

\* _upsert_synced_document in place: UPDATE, then DELETE of the chunks, in
\* one transaction.  A document deleted since the lookup is not noticed.
UpdateSynced(p) ==
  /\ pc[p] = "upsert" /\ seenDoc[p] # NoDoc
  /\ RowFree(p)
  /\ \A q \in Rivals(p) : pc[q] = "purged" => ChunksOf(target[p]) = {}
  /\ IF target[p] \in rows
     THEN /\ status' = [status EXCEPT ![target[p]] = "pending"]
          /\ review' = [review EXCEPT ![target[p]] = "draft"]
          /\ content' = [content EXCEPT ![target[p]] = page[p]]
          /\ chunks' = chunks \ ChunksOf(target[p])
     ELSE UNCHANGED <<status, review, content, chunks>>
  /\ Goto(p, "record")
  /\ UNCHANGED <<issued, rows, target, publish, raw, inserted,
                 sourceVars, batchVars, historyVars>>

\* Mutated form: the source is recorded and the ingest is not run.
RecordWithoutIngest(p) ==
  /\ pc[p] = "record"
  /\ source[p] \in configured /\ target[p] \in rows
  /\ sourceDoc' = [sourceDoc EXCEPT ![source[p]] = target[p]]
  /\ sourceHash' = [sourceHash EXCEPT ![source[p]] = page[p]]
  /\ Goto(p, "done")
  /\ UNCHANGED <<tableVars, target, publish, raw, inserted, configured, retired,
                 batchVars, historyVars>>

\* UPDATE tenant_sync_source, before the ingest.  The foreign key refuses a
\* document that was deleted meanwhile: not a WebsiteSyncError, so the batch
\* ends.  A source deleted meanwhile is no row to update.
Record(p) ==
  /\ pc[p] = "record"
  /\ IF source[p] \in configured /\ target[p] \notin rows
     THEN Goto(p, "raised") /\ UNCHANGED <<sourceDoc, sourceHash, publish>>
     ELSE /\ Goto(p, "ingest")
          /\ publish' = [publish EXCEPT ![p] = FALSE]
          /\ IF source[p] \in configured
             THEN /\ sourceDoc' = [sourceDoc EXCEPT ![source[p]] = target[p]]
                  /\ sourceHash' = [sourceHash EXCEPT ![source[p]] = page[p]]
             ELSE UNCHANGED <<sourceDoc, sourceHash>>
  /\ UNCHANGED <<tableVars, target, raw, inserted, configured, retired,
                 batchVars, historyVars>>

\* Lock conflicts in which the UPDATE of _upsert_synced_document takes part.
SyncConflict(p, q) ==
  \/ Conflict(p, q)
  \/ pc[p] = "upsert" /\ HoldsShared(q)
  \/ pc[q] = "upsert" /\ HoldsShared(p) /\ NeedsRow(p)
  \/ {pc[p], pc[q]} = {"upsert", "purged"}

SyncLockFails(p) ==
  /\ target[p] # NoDoc
  /\ \E q \in Rivals(p) : SyncConflict(p, q)
  /\ Victim(p)
  /\ UNCHANGED syncVars

-----------------------------------------------------------------------------
(* The steps of Documents, with what they do to the sources.               *)

\* Mutated form: document_id without its foreign key.
DeleteSyncedRowKeepingPointer(p) ==
  /\ DeleteRow(p)
  /\ UNCHANGED <<sourceVars, batchVars, historyVars>>

\* document_id is ON DELETE SET NULL.
DeleteSyncedRow(p) ==
  /\ DeleteRow(p)
  /\ sourceDoc' = [s \in Sources |-> IF sourceDoc[s] = target[p] THEN NoDoc
                                                                 ELSE sourceDoc[s]]
  /\ UNCHANGED <<configured, retired, sourceHash, batchVars, historyVars>>

ReviewSynced(p) ==
  /\ ReviewUpdate(p)
  /\ reviewed' = [d \in Docs |-> IF d = target[p] /\ review'[d] = "published"
                                 THEN content[d] ELSE reviewed[d]]
  /\ UNCHANGED <<sourceVars, batchVars, origin>>

DocumentStep(p) ==
  /\ \/ UploadInsert(p) \/ UploadSchedule(p) \/ UploadFails(p)
     \/ ReindexPurge(p) \/ ReindexCommit(p)
     \/ Ingest(p)
  /\ UNCHANGED syncVars

SyncStep(p) ==
  \/ NextSource(p) \/ Lookup(p) \/ Fetch(p)
  \/ CreateSynced(p) \/ UpdateSynced(p) \/ Record(p)
  \/ DeleteSyncedRow(p) \/ ReviewSynced(p) \/ DocumentStep(p)
  \/ SyncLockFails(p)

Busy(p) == Active(p) \/ (pc[p] = "done" /\ todo[p] # {})

SyncCrash ==
  /\ \E p \in Calls : Busy(p)
  /\ pc' = [p \in Calls |-> IF Busy(p) THEN "crashed" ELSE pc[p]]
  /\ inserted' = [p \in Calls |-> 0]
  /\ todo' = [p \in Calls |-> {}]
  /\ UNCHANGED <<tableVars, target, publish, raw,
                 sourceVars, source, seenDoc, seenHash, page, historyVars>>

SyncQuiet == (\A p \in Calls : ~Busy(p)) /\ UNCHANGED allVars

SyncRunning ==
  \/ SyncQuiet
  \/ \E p \in Calls : (Arrive(p) /\ UNCHANGED syncVars) \/ SyncNow(p) \/ SyncStep(p)
  \/ \E s \in Sources : AddSource(s) \/ DeleteSource(s)

SyncNext == SyncRunning \/ SyncCrash

SyncSpec == SyncInit /\ [][SyncNext]_allVars

RunningSpec == SyncInit /\ [][SyncRunning]_allVars
FairSyncSpec == SyncSpec /\ \A p \in Calls : WF_allVars(SyncStep(p))

-----------------------------------------------------------------------------
(* Properties.                                                             *)

\* A source points at no document, or at an existing one that was created
\* for it: neither a deletion during a sync nor a batch that carries values
\* from one source to the next makes it point elsewhere.
SourceDocIsOwn ==
  \A s \in configured :
    sourceDoc[s] # NoDoc => sourceDoc[s] \in rows /\ origin[sourceDoc[s]] = s

\* "synced pages get the same review gate as everything else": a synced
\* document that visitors can search has the body it had when an editor
\* last published it, however syncs, reindexes and reviews overlap.
LiveBodyReviewed ==
  \A d \in rows : origin[d] # NoSource /\ Searchable(d) => content[d] = reviewed[d]

\* Syncs that run next to reindexes, deletes and each other's ingests leave
\* no document stuck: what a sync created or reset is ingested to the end,
\* unless the server dies in the middle.
SyncSettles ==
  \A p \in Calls, d \in Docs :
    (pc[p] \in {"record"} \cup IngestPc /\ target[p] = d) ~>
      \/ d \notin rows \/ status[d] \in {"ready", "error"}
      \/ \E q \in Calls : target[q] = d /\ pc[q] = "crashed"

\* Every call ends, a batch included, whatever locks it meets.
SyncCallsEnd == \A p \in Calls : Busy(p) ~> pc[p] \in EndPc /\ ~Busy(p)

\* website_sync.py: "A source maps to exactly one document".
OneDocPerSource ==
  \A d, e \in rows : origin[d] = origin[e] /\ origin[d] # NoSource => d = e

\* website_sync.py, _upsert_synced_document: "clear old chunks, reset to
\* pending, let ingest_document() rebuild": a synced document that is live
\* serves chunks of its own body only.
LiveIndexIsCurrent ==
  \A d \in rows :
    origin[d] # NoSource /\ Searchable(d) => \A c \in ChunksOf(d) : c.content = content[d]
=============================================================================
