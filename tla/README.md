# SupportLM in TLA+

SupportLM is a multi-tenant support chatbot: a FastAPI application over
MySQL/InnoDB that indexes a tenant's documents and web pages, answers visitors'
questions from them through an LLM, and hands a question over to people when it
cannot. These modules model its state-changing operations as transactions and
steps of concurrent calls, model-check them with TLC on small instances, and
prove what matters most with TLAPS for every instance.

What makes this code hard is not in one function. There is no lock, queue or
task table in the application: every handler opens its own connections, commits
several times, and relies on InnoDB's row locks, foreign keys and unique keys.
Handlers written with `def` run in a thread pool, background tasks run after the
response, and both run next to each other. So the models keep the transaction
boundaries of the code, what each transaction sees, the locks it waits for, and
what is left when one of several transactions fails.

## Inventory

| Component | State | Operations | Interacts with | Hard part | Correct when |
|---|---|---|---|---|---|
| Document lifecycle (`api/documents.py`, `services/ingestion.py`) | `document`, `document_chunk`, `embedding` | upload, ingest, reindex, review, delete | plan limit, audit, search, sync | background task of several transactions; row locks shared then exclusive; crash without recovery | the index is whole or absent, follows the status, outlives nothing |
| Website sync (`services/website_sync.py`) | `tenant_sync_source` | add, delete, sync now | creates and ingests documents | five transactions per source, a fetch in between | own document, reviewed before live, every batch ends |
| Chat (`services/chat.py`, `services/vector_store.py`) | `conversation`, `message`, `citation` | ask | search, prompts, provider, gate, limits | long wait with no transaction between reading and writing; citations lock chunks a deletion waits for | turns in pairs, histories are prefixes, citations resolve, tenants are kept apart |
| Rate limit (`core/rate_limit.py`) | `rate_limit_bucket` | count a request twice | chat | two counters, two clock reads | a bucket lets in no more than its limit |
| Feedback (`api/chat.py`) | `message_feedback` | vote | chat | check then insert | one vote per answer, and it stands |
| Transcript e-mail (`services/transcript_email.py`) | `conversation.visitor_email` | build, send, record | chat, SMTP | mail outside any transaction | whole turns; an address is recorded after a send |
| Plan limits (`services/usage.py`) | counts of rows | check, warn | upload, chat | count then insert, answer then count | warned from the limit on |
| Escalation (`services/escalation.py`) | `sr_sequence`, `service_request`, e-mails sent | escalate | chat messages, SMTP | check, two mails, insert | announced before recorded, numbers never reused |
| Prompt versions (`services/prompt_versions.py`) | `tenant_prompt_version`, two columns of `tenant` | create, activate, read | chat, and every transaction that locks the tenant row | counter under a row lock others share | an append-only log with a chosen live entry |
| Sessions, roles, keys (`core/session.py`, `core/rbac.py`, `api/auth.py`, `api/api_keys.py`, `core/tenant_scope.py`) | `admin_user.session_version`, `tenant_user`, `api_key`, `tenant.status` | login, logout-all, mint, revoke, suspend, create tenant | every admin route | authorisation read in separate transactions | no handler without its authorisation, no role by a chain of keys |
| Duplicate detection (`services/duplicate_detection.py`) | `duplicate_flag` | scan, resolve | documents | check then insert, no unique key, a collation that merges labels | complete, about documents that exist, resolved stays resolved |
| Chunking and ranking (`services/chunking.py`, `vector_store.hybrid_search`) | none | pure functions | ingest, chat | no heading, a heading without a title, empty body, all scores equal, one pool empty | the text of the sections is whole, paths are outlines, pools hide nothing |
| Replies and prompts (`services/chat.py`) | none | marker, meta references, template | chat | nested clean-ups in a fixed order | words survive, a marker at the end escalates and is taken off |
| Chat widget, admin console (`frontend/`) | one page's state | forms over the API | all of the above | | |
| Providers, theme and agent configuration, categories, analytics, audit, scripts, migrations, application shell | single rows or none | upserts, reads | | none worth a model | |

`PROJECT.json` lists the same parts with their files and status, and under
`hazards` the places where each can go wrong, with the property that would show it.

## Modules

**`Documents`** A call is a request with the background task it schedules; `pc[p]`
is the statement it is at. Table variables (`issued`, `rows`, `status`, `review`,
`content`, `chunks`) hold committed data only; `inserted[p]` counts the chunks of
`p`'s open transaction. `upload_document` is `UploadCheck` (the limit, its own
transaction), `UploadInsert`, `UploadSchedule` or `UploadFails` (a bad body or
category, or the audit insert after the row has committed). `reindex_document` is
`ReindexCheck`, `ReindexPurge` (the DELETE, which locks the range) and
`ReindexCommit`. `ingest_document` is `IngestSelect`, `IngestClaim`
('processing', committed), `IngestChunk`, `IngestInsert` per chunk, `IngestFinish`,
and `IngestFails` then `IngestError` for its `except` branch. The locks are
conditions on the other calls' `pc`: `RowFree` (exclusive row lock against the
shared lock a chunk insert takes on its parent) and the range lock of a purge.
`LockFails` rolls back a call that waits in vain, `Crash` ends all of them.

**`WebsiteSync`** extends `Documents` with the sources and with sync calls that use
the same tables and the same ingest: `SyncNow`, `NextSource`, `Lookup`, `Fetch`,
`CreateSynced` or `UpdateSynced`, `Record`, then the ingest steps. Deleting a
document also clears `sourceDoc` (ON DELETE SET NULL). `origin` and `reviewed` are
history variables used by the properties only.

**`Chat`** models `ask()`: `ReadHistory`, `SemanticSearch`, `KeywordSearch`,
`CallProvider` with no transaction open, and the turn's transaction
`UpsertConversation`, `InsertUser`, `InsertAssistant`, `Cite` per chunk, `Commit`; `CiteFails`
is the foreign key of a chunk that has gone, `LockFails` a wait that is given up. A client sends any
conversation id: one of another tenant is dropped, and one that no conversation has is kept
(`fresh` remembers it), so that two tenants can come to write under the same id. Next to the asks
`AddChunk` is what an ingest commits, and `Delete`, `Purge` chunk by chunk, `PurgeCommit` and
`PurgeFails` are a reindex, sync or deletion, which waits for the chunks an open turn cites as a
turn waits for those it has taken. Deletions come one after another.

**`RateLimit`** is `check_rate_limit`: `CountAddress` and `CountTenant` increment a
bucket of (scope, minute) each and keep which buckets had room; each reads the clock
for itself; `GateFails` is a counting transaction that raises. **`Visitor`** composes it with `Chat` into what a visitor can do:
`Gate`, `Enter` (the first step of `ask()` for a request that was let in), the steps of
`Chat`, `Warn` (`message_limit_warning`, after the commit, or its failure) and `Fail`;
`VoteCheck` and `VoteInsert` are `post_message_feedback`; `Build`, `Send`, `Record` and
`RecordFails` are the transcript mail; `Die` ends every call of the process. The
knowledge base stands still there.

**`Escalation`** models `complete_escalation`: `CheckMessage`, `CheckExisting`,
`ReadDay`, `GenerateNumber`, `MailCompany`, `MailVisitor`, `InsertRequest`. A mail can leave
and its SMTP session fail all the same.

**`PromptLog`** says what prompt versions promise; **`PromptVersions`** is the code:
`Create`, `Bump`, `InsertVersion`, `CommitVersion`, `Activate`, `SetActive`, with the
tenant row's lock. Its refinement mapping reads the log off the committed rows in
the order of their numbers (`KeepsLog`).

**`Access`** follows an admin request through its lookups, each a transaction of its
own: `ResolveTenant` (the status), `RequireAdmin` (the session version), `ReadRole` or
`ReadKey`, `Refused`, and at the handler `Serve`, `Mint` or `Revoke`; a login is
`ReadAccount` and `SignToken`, logout-all is `Bump`. `CreateTenant` and `SetStatus` are
the operator scripts. A token is the admin and version it was signed for, a key the row
it hashes to. `witnessed` is a history variable: what was true at some moment since the
request arrived.

**`DuplicateFlags`** is `scan_for_duplicates` (`ReadTitles`, `ReadHeadings`,
`NextPairs`, then `Check` and `Insert` pair by pair, `InsertFails` when a document is
gone or a label too long, `Finish`, `Answer`) and `Resolve`, next to `Upload`, `Index`,
`Clear` and `Delete`. `Index` gives a document the heading paths of its sections, any number of
them. `Canon` is the collation: `Same` compares by it, and `Distinct` is the SELECT DISTINCT of
`ReadHeadings`, which keeps one, any, of a document's headings that differ in case or accents
only. Which labels are similar is a constant relation.

**`Chunking`**, **`Ranking`** and **`AnswerText`** hold the pure functions as operators:
`ChunkMarkdown`; `Fused`, `Results` and `Used` for `hybrid_search` and the confidence
gate; `Answer`, `StripMeta` and `SystemPrompt` for the text around the provider. A line of a body begins with the marks
of a heading or is text; `Taken` are the lines that a heading without a title takes for one, since
the blanks after the marks (`\s+`) can be line ends, and `HeadingLines` what the expression finds. A
title is the line it stands on, a character its place in the body, a score a whole number, a reply a sequence of
words, blanks, commas, markers and meta references. **`Listing`** is what they do to
lists: sort a set, keep some positions, join a list of lists. Nothing in them is declared
RECURSIVE: a loop is a recursive function over the prefixes of its input, so that proofs can
speak of it.

`MCDocuments`, `MCWebsiteSync`, `MCChat`, `MCVisitor`, `MCEscalation`,
`MCPromptVersions`, `MCAccess`, `MCDuplicateFlags` and `MCAnswering` give constants
their values; `MCAnswering` also enumerates the inputs of the pure functions. Operators
marked *Mutated form* in a module are a mistake the code could have made; replacing the
definition by it breaks the property `PROJECT.json` names.

## What the runs check

| Run | Instance | Shows |
|---|---|---|
| `documents` | 3 calls, 2 ids, bodies of 0 and 2 chunks, limit 1, crashes | the index is whole and follows the status, searchable documents keep their chunks, ingests settle, calls end |
| `sync` | 3 calls, 1 source, 3 ids, 2 pages, no crash | synced pages are live only with a reviewed body, a source's document is its own; no dead end |
| `sync_live` | 2 calls, 1 source, 2 ids, crashes | synced documents settle, batches end |
| `sync_one_doc` | 2 calls, crashes | violated: "A source maps to exactly one document" |
| `sync_stale_index` | 3 calls | violated: an updated page keeps chunks of the old one |
| `chat` | 2 asks, 1 tenant, 2 conversations, 2 chunks, deletions, crashes | paired turns, citations that resolve; every question ends, although citations and deletions wait for each other |
| `visitor` | 2 asks, 2 tenants, 2 conversations, 1 address, rate limits of 1, message limit 2, 2 minutes, 2 votes, 1 mail, crashes | gate, warning, votes, transcripts and histories next to overlapping questions; tenants share a conversation only by an id new to both |
| `escalation` | 3 attempts, 3 messages of 2 tenants, 2 days, crashes | announced, distinct, one per message |
| `prompts` | 3 calls, 2 tenants, 2 texts, crashes | implements `PromptLog`; contiguous numbers; every call ends |
| `access` | 2 requests at a time, 2 tenants, 2 keys of any of 3 roles, 2 versions | handlers are entitled, keys judged at one moment, no role by a chain of keys, logout for good |
| `duplicates` | 2 scans, 2 documents, 3 labels (one an accent's variant of another, one too long), 4 changes | flags stand, scans are complete, nothing is flagged again |
| `answering` | bodies of 4 lines with bare and titled headings, 4 chunks by 2 scores, replies of 6 tokens, templates of 4 parts | chunks, ranking, gate, clean-up and prompt against reference definitions |

**Findings.** The two violated runs are real disagreements between a sentence of the
repository and what its code does; each is quoted in `PROJECT.json`. The
one-document-per-source rule is checked in one transaction and relied on in another, and
a sync clears only the chunks that are committed, so an ingest that is under way adds
its own afterwards. More of them are in the models, with no run of their own:

- `AlreadyEscalatedIsRefused` (Escalation): the docstring of `EscalationError`
  (escalation.py:17) counts "already escalated" among the refusals, but an attempt
  that overlaps another fails on the unique key in its INSERT, unhandled, after both of
  its mails have left.
- `OneFlagPerPair` (DuplicateFlags): "already-flagged ... pairs aren't duplicated"
  (duplicate_detection.py:142), but two overlapping scans flag a pair twice; the table
  has no unique key. `NeverFlaggedAgain` is what holds.
- Two tenants that send the same id, new to both, pass the tenant check side by side and
  then share the conversation row, which belongs to the first to commit (`ReadHistory`,
  `UpsertConversation`; chat.py:322-323: "already resolved/guarded against cross-tenant reuse").
  Messages carry their own tenant, so no history and no transcript mixes them;
  `TenantsSeparated` says what holds.
- The marker "must never reach the visitor" (chat.py:188-189), but it is taken off once, at the
  end: of two in a row the first is shown, and so is one in the middle. And a reply that is a
  meta reference and the marker is not empty when the stock line would be put in, and is when the
  meta reference has gone (chat.py:193: "rather than show the visitor a blank message").
  `MarkerEscalates` says exactly what is left of an escalated reply.
- A heading without a title takes the next line that is not blank for its title, be it text
  or a heading (`Taken`; chunking.py:7). The text is then in the path of its section and in no
  chunk's content, and the heading opens no section; `ChunksCoverText` says that no other text is lost.
- A document's headings that differ in case or accents only are one to SELECT DISTINCT
  (duplicate_detection.py:72-75 under the collation of init_db.py:35) and two to the comparison: a
  scan that gets one of them misses the pairs of the other, identical headings included (`Hidden`).
- `{context.x}` and `{context[x]}` in a tenant's template raise AttributeError and TypeError,
  which `_render_system_prompt` does not catch; `AnswerText` models the errors it does catch.
- An error other than `WebsiteSyncError` (a lock wait, a page that cannot be parsed) ends the loop of
  `sync_all_sources` in the code and in `WebsiteSync`, against website_sync.py:86-87 ("so one bad
  URL doesn't abort an entire batch sync") and 177-178 ("one unreachable URL doesn't stop the rest
  of the batch from syncing").
- Text before the first heading of a body that has headings is in no chunk
  (`ChunksCoverText` begins at the first heading).
- Two uploads in flight exceed the document limit by one (`UploadCheck`,
  `UploadInsert`; usage.py:76-77: "the 26th upload is rejected"); `LimitOverrun` is what holds.
- An upload is published by its own ingest (`IngestFinish`; README.md:120-121:
  "nothing is instant-live"), and a reindex accepted during an ingest leaves every
  chunk twice.
- `message_limit_warning` "never raises" (usage.py:95-96) but reads the database, and a
  failure there answers a stored question with an error (`Warn`).
- A request refused for its address has still used up its tenant's minute
  (rate_limit.py:66-67: both counters are incremented before either is judged).

**Bounds.** The properties relate at most two documents, sources, messages or
numbers, so two ids suffice to mix them up, and a third id (`sync`) lets one be deleted
and another be created. Three overlapping calls are an ingest, what overtakes it and
what runs between the two. Two asks are the two that overlap in a conversation, or one that
reads what the other left; they need no more in `chat`, where the interleavings with deletions
fill the run, and the theorems about `Chat` and `Visitor` hold of any number. Three escalations are two that overlap and one after them,
and three prompt calls two creations and an activation. Two chunks per body give a
partial insert, none is a body of headings only, and one is enough for the sync runs,
where it matters which body a chunk is of. Two tenants, two days, two minutes and two
texts are the least that differ; `chat` has one tenant, and tenants meet in `visitor`. Rate limits
are 1, the least that lets something in, met by two requests of one minute; the message limit is 2,
so that a question reaches it only together with another. The document limit is 1, or 0 where
uploads only add states. `access` lets a key of each role be asked for, so that an admin's key can
mint another. `LastDay`, `Ids`,
`MaxVersion` and `MaxChanges` bound counters: two session versions are a
token before and one after a logout-all, four changes bring two documents up and index both, or
change or take away one of them while a scan runs.
In `access` requests return to `idle`, so that chains of any length occur. In `answering`
four lines hold two nested and two repeated headings or a text longer than two chunks;
four rows are one more than the pools hold.

Calls, ids, sources, chunks, messages and tenants are interchangeable where `MC` modules
say so, and the runs without a liveness property use that symmetry. `MCWebsiteSync` has
one source and `MCAccess` keeps tenants and admins apart, since they differ in what they
have.

**Deadlock.** TLC's deadlock check is on except in `answering`, whose inputs end at
their bounds. A state with nothing running may stutter (`Quiet`, `Rest`), in `visitor`
only when every request is answered or refused. The check says most in the runs without
crashes, where it shows that no waiting of calls for each other is final.

**Fairness.** `FairSpec` (of `Documents`, `Chat` and `PromptVersions`) and `FairSyncSpec` are weak
fairness of each call's own steps: the thread pool and event loop run what was accepted, InnoDB
grants, times out or breaks every lock wait, and HTTP clients have time limits or fail.
Arrivals, crashes and the environment get none, nor do the deletions of `Chat`: a question ends
although a deletion that holds its chunks never does. The runs with liveness are `documents`,
`sync_live`, `chat` and `prompts`, and all include crashes. A crash ends the calls; what it leaves of a document stays as it is, as
the code has no recovery: `IngestSettles` and `SyncSettles` say that a document settles
or the server has died with a call on it.

**Type invariants.** `TypeOK` and `SyncTypeOK` are checked in `documents` and `sync`; those
of `Documents`, `WebsiteSync`, `Chat`, `PromptVersions`, `Access` and `DuplicateFlags`
are theorems, and that of `Escalation` is a part of its inductive invariant.

**Assumptions of the environment.** A vote or an escalation names a message that exists, or is
refused. SHA-256 and uuid4 do not collide, and no client guesses an id that is yet to be drawn.
InnoDB runs at its default isolation and MySQL in its default, strict SQL mode (a heading path that
is too long for a flag is an error, `InsertFails`). A single
INSERT or UPDATE with its commit is one step when nothing can be seen in between. Plans
do not change and months do not end while the models run.

## What is proved

Every safety invariant and action property of the passing runs holds for any values of
the constants; what is left to TLC alone is liveness. The proofs assume the named
assumptions on constants of each module and nothing else. For the state machines each
follows one line: an inductive invariant, with one lemma per action or group of actions
that it survives. For the pure functions it is induction over the input.

**`WebsiteSync_proofs`** has two parts. *Documents by itself*: `TypeCorrect`, `IndexWhole`,
`IndexConsistent`, `SearchStable`. That a commit adds a whole run of an existing document
depends on where the call is. `IInv` adds `CallsOK`: a call past its lookup has a target that
was issued (`TargetOK`); one past `IngestSelect` carries the body of its document, which never
changes (`BodyOK`); `inserted` is within the body's chunks and all of them at `finish`
(`IngestOK`); a call that holds the shared row lock has its document's row (`LockOK`), because a
delete waits for it. *With the syncs*: `SyncTypeCorrect`, `PointersAreOwn`,
`SyncedPagesAreReviewed`. A batch carries a document id over five transactions in which the
document and the source may go. `CallOK` says the id stays one made for the source the call is
at; `PointerOK` says it of the sources, deleted ones included; `PublishedOK` says that a
published synced document has the body an editor published whether or not it is indexed yet,
which is what makes `LiveBodyReviewed` inductive. `SyncIndexWhole` says that syncs, which purge
and reset documents in transactions of their own, keep the index as whole as it was.

**`Visitor_proofs`** has two parts as well. *Chat by itself*: `TypeCorrect`, `TurnsStayPaired`,
`HistoryStaysPrefix`, `TenantsStaySeparated`, `CitationsAlwaysResolve`. While an ask holds a
conversation's row no other turn of it commits (`LocksOK`), so every message it has written
follows every stored one of the conversation (`TurnOK`). That tenants are kept apart is a claim
about asks that did not bring an id of their own: `TenantsStaySeparated` says that the message of any
other ask lies in a conversation of its tenant, and that every history, fresh id or not, is of its
ask's tenant. *With the other requests*:
`ImplementsChat` is the refinement `VisitorSpec => Spec`, so that the invariant of `Chat` holds in
the composition. `NobodyPassesTheGate` counts: the requests a bucket had room for are finitely
many, at most its counter and at most its limit (`RoomOK`). `VotesAlwaysStand` and
`TranscriptsAreWhole` rest on rows that are never removed and on `NewMessages`: what a turn adds
is of one ask and follows what is stored. `WarningsAreDue` maps the answers without a warning
into the questions that were counted (`CountCovers`).

**`Escalation_proofs`**: `NumbersNeverShared`, `RecordedIsAnnounced`, `OneRequest`. The numbers of
two attempts of a tenant differ and are at most the day's counter, a mailed number is the
attempt's own, and an attempt at `visitor` or `insert` has sent the mails before it.

**`PromptVersions_proofs`**: `TypeCorrect`, `NumbersStayContiguous`, `ActiveStaysOwn`,
`ImplementsLog`. A number is read back under the lock that the commit releases, so a call
that holds the lock holds the tenant's next number (`HolderOK`). Because numbers are
contiguous and ids unique (`RowsOK`), the rows are a log: the committed rows in order of
their numbers are a sequence that only grows at its end, which is the refinement.

**`Access_proofs`**: `TypeCorrect`, `HandlersAreEntitled`, `KeysAreJudgedAtOnce`, `NoBackDoor`,
`KeysAreTheirAdmins`, `LogoutIsForGood`. `CallOK` says what the lookups behind a request
have established, and `Monotone` what no step undoes: links of a tenant, a key's tenant,
role and origin, a revocation, a version. `LogoutIsForGood` covers the login that read the
account before a logout-all and signs its token after it.

**`DuplicateFlags_proofs`**: `TypeCorrect`, `FlagsHaveDocuments`, `ScansAreComplete`, `FlaggedOnce`.
Of documents that have not changed since the scan began every similar pair is flagged, on
its list or in its hands (`CoverOK`). `DistinctCovers` is the step from the rows of SELECT DISTINCT to
all headings: a pair of them has its counterpart among the rows, which is similar unless the pair is
`Hidden`.

**`Chunking_proofs`**: `ChunksAlwaysCarryOutline` and `ChunksAlwaysCoverText`, for every body of
lines, and the lemmas about `Listing` that they and the next module rest on (a sorted set is
listed once and in order, a selection keeps the order, a join is associative). `LoopInv` says
what the loop of `chunk_markdown` has after each line: its stack holds the headings that are
still open, its chunks are the text of the sections so far under the outline of that text. The
reference definition has no stack: it looks for headings that no later one closes. Both take the
headings and titles from `HeadingLines` and `TitleLine`, those of a heading without a title included;
that a text line without such a heading right above it is in a chunk is the last part
(`ChunksCoverText`).

**`Answering_proofs`**: of every reply, list of scored chunks and template of any length
`WordsAlwaysSurvive`, `MarkersAlwaysEscalate`, `PoolsHideNothing`, `SoleHitAlwaysCounts`,
`GateIsAlwaysAbsolute` and `ContextAlwaysReachesModel`; and from these the invariants of
`answering` (`BodiesChunk`, `SearchesRank`, `GatesAreAbsolute`, `RepliesAreClean`,
`TemplatesGetContext`), whose inputs are lists in every reachable state (`InputsAreLists`). The
ranking rests on counting: the best k of a set are those with fewer than k before them, so
that a pool which holds all chunks is the set itself, and the place of a keyword hit is the
number of chunks that beat its blend.

*Induction.* The library's induction theorems take a predicate as a parameter, which the
provers cannot instantiate. `SetInduction` (in `Chunking_proofs`) takes a set of numbers in its
place: the numbers for which the claim holds. With it a recursive *function* can be reasoned
about; a `RECURSIVE` operator could not, and there is none.

### What the documentation claims, and when it is so

The two violated runs and three of the findings are claims that hold of one call at a time
and fail of two. The theorems below say under which condition on the calls that are under
way each claim is true, for any number of them one after the other and next to everything
else. The condition is on behaviours (`[]ScansApart`), not on constants; nothing in the code
provides it, and each names what a lock or a unique key would have to.

| Theorem | When | Then |
|---|---|---|
| `LimitOverrun` | at most k uploads at a time are between the count and the insert | fewer documents than the limit plus k: with one at a time, never over the limit |
| `IngestsApartIndexOnce` | no two ingests of a document overlap | its chunks are of one ingest, and only a `ready` document has any |
| `SyncsApartOwnOneDoc` | no two syncs of a source are between its lookup and its record, no crash | a source has one document at most (`OneDocPerSource`) |
| `UpdatesApartStayCurrent` | no sync updates a document while an ingest has its body in hand | live synced documents have chunks of their own body only (`LiveIndexIsCurrent`) |
| `ApartAttemptsAreRefused` | attempts of a message do not overlap past their lookup | none meets a request in its INSERT (`AlreadyEscalatedIsRefused`), none mails about an escalated message |
| `ScansApartFlagOnce` | no two scans overlap | one flag for a pair (`OneFlagPerPair`) |

### Only model-checked

Liveness under fairness (`IngestSettles`, `CallsEnd`, `SyncSettles`, `SyncCallsEnd`,
`AsksEnd`, and `CallsEnd` of `prompts`), which is outside the prover's reach; so is that
the runs do not deadlock. `KeepsLog` is a refinement of safety: `PromptLog` promises no progress.

## Not modelled

The chat widget and the admin console: what a page can cause on the server (repeated and
overlapping questions, votes, escalations with ids it was given) is in the models; the rest
is layout. LLM providers and their configuration: HTTP clients of external services; an
answer or a failure is in `Chat`. Theme, agent, support inbox and categories: single rows,
last writer wins. Analytics and audit log: reads, and an insert whose failure is in
`Documents`. Migrations and scripts other than tenant creation and status: one-shot SQL.
Cryptography and HTML extraction: what they yield is chosen by the model.

The order of a history is by `created_at`, which has a resolution of one second; `Chat`
orders by id, so ties within a second are outside it. The tenant filter of the searches is left
out of `Chat`, whose chunks are one pool.

## Plan

1. `AtomicIndex`: an index that is replaced in one step, implemented by `Documents` when no
   two ingests of a document overlap (`IngestsApartIndexOnce` is the invariant it needs).
2. `Escalation` composed with `Visitor`, so that the message escalated is one a turn has
   stored, and with the transcript of its mails.
3. The widget as a client of `Visitor`: lost answers, second conversations, one question in
   flight.
4. Two sources per batch in the sync runs, and three asks in `chat`.

## Running

    tlc -config documents.cfg MCDocuments
    tlapm WebsiteSync_proofs.tla
