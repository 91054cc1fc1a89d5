--------------------------- MODULE DuplicateFlags ---------------------------
(***************************************************************************)
(* Duplicate detection of one tenant: app/services/duplicate_detection.py  *)
(* behind POST /scan-duplicates, and the review of the flags it leaves.    *)
(*                                                                         *)
(* A scan reads the titles in one transaction and the headings in another, *)
(* and then, for every similar pair, looks for a flag in one transaction   *)
(* and inserts it in the next.  Documents are uploaded, retitled, cleared, *)
(* indexed and deleted meanwhile; a deletion takes the flags of its        *)
(* document along (ON DELETE CASCADE).                                     *)
(*                                                                         *)
(* The collation of the database makes no difference of case and accents,  *)
(* in SELECT DISTINCT as in the search for a flag; SequenceMatcher makes   *)
(* one of accents.  The rows come in no promised order, so that the        *)
(* similar pairs are taken in any; that SequenceMatcher can score a pair   *)
(* differently the other way round is left out.                            *)
(***************************************************************************)
EXTENDS Naturals, FiniteSets

CONSTANTS
  Docs,      \* document ids, never reused
  Labels,    \* titles and heading paths
  Canon,     \* what the collation of the database takes a label for
  Similar,   \* pairs of labels that score 0.80 or more
  TooLong,   \* heading paths over 255 characters: flags cannot hold them, and
             \* the server (in its default, strict mode) refuses to cut them
  Scans,     \* POST /scan-duplicates calls; each arrives at most once
  MaxChanges,  \* bound on the changes to documents
  NoLabel

ASSUME DuplicateFlagsAssumption ==
  /\ Docs \subseteq Nat
  /\ Canon \in [Labels -> Labels]
  /\ Similar \subseteq SUBSET Labels
  /\ TooLong \subseteq Labels
  /\ MaxChanges \in Nat
  /\ NoLabel \notin Labels

VARIABLES
  issued,    \* document ids handed out
  title,     \* document.title; NoLabel when there is no such row
  headings,  \* heading paths of the document's chunks
  flags,     \* duplicate_flag rows
  nextFlag,  \* their AUTO_INCREMENT
  changes,   \* how often documents have changed
  scan       \* the scans

vars == <<issued, title, headings, flags, nextFlag, changes, scan>>

Source == {"title", "heading"}
Item == [doc : Docs, source : Source, label : Labels]
Pair == [a : Docs, b : Docs, source : Source, la : Labels, lb : Labels]
Flag == [id : Nat, pair : Pair, resolved : BOOLEAN]

\* todo: similar pairs it has yet to look at; pair: the one it is inserting.
\* History: known, the next flag id when it began; steady, the documents
\* that have not changed since.
Scan == [at : {"idle", "headings", "check", "insert", "end", "done"},
         todo : SUBSET Pair, pair : SUBSET Pair, known : Nat, steady : SUBSET Docs]
Before == [at |-> "idle", todo |-> {}, pair |-> {}, known |-> 0, steady |-> {}]
After == [Before EXCEPT !.at = "done"]

Rows == {d \in Docs : title[d] # NoLabel}

TypeOK ==
  /\ issued \subseteq Docs /\ Rows \subseteq issued
  /\ title \in [Docs -> Labels \cup {NoLabel}]
  /\ headings \in [Docs -> SUBSET Labels]
  /\ \A d \in Docs \ Rows : headings[d] = {}
  /\ flags \subseteq Flag /\ nextFlag \in Nat /\ changes \in Nat
  /\ scan \in [Scans -> Scan]

Titles == {i \in Item : i.source = "title" /\ i.label = title[i.doc]}
Headings == {i \in Item : i.source = "heading" /\ i.label \in headings[i.doc]}

\* A result of SELECT DISTINCT: one row, any, for the headings of a document
\* that the collation takes for one.
Distinct(rows) ==
  LET Merged(i, j) == i.doc = j.doc /\ Canon[i.label] = Canon[j.label]
  IN  /\ \A i \in Headings : \E j \in rows : Merged(i, j)
      /\ \A i, j \in rows : Merged(i, j) => i = j

\* _similarity(x, y) >= threshold.
Alike(x, y) == x = y \/ {x, y} \in Similar

\* The similar pairs of items of two documents, the lower id first.
Pairs(items) ==
  {p \in Pair :
     /\ p.a < p.b /\ Alike(p.la, p.lb)
     /\ [doc |-> p.a, source |-> p.source, label |-> p.la] \in items
     /\ [doc |-> p.b, source |-> p.source, label |-> p.lb] \in items}

\* Equality of labels in SQL: case and accents make no difference.
Same(p, q) ==
  /\ <<p.a, p.b, p.source>> = <<q.a, q.b, q.source>>
  /\ Canon[p.la] = Canon[q.la] /\ Canon[p.lb] = Canon[q.lb]

Flagged(p) == \E f \in flags : Same(f.pair, p)

Init ==
  /\ issued = {} /\ flags = {} /\ nextFlag = 1 /\ changes = 0
  /\ title = [d \in Docs |-> NoLabel]
  /\ headings = [d \in Docs |-> {}]
  /\ scan = [s \in Scans |-> Before]

-----------------------------------------------------------------------------
(* The documents (see Documents and WebsiteSync for how they change).      *)

Change(d, t, hs) ==
  /\ changes < MaxChanges /\ changes' = changes + 1
  /\ title' = [title EXCEPT ![d] = t]
  /\ headings' = [headings EXCEPT ![d] = hs]
  /\ scan' = [s \in Scans |-> [scan[s] EXCEPT !.steady = @ \ {d}]]
  /\ UNCHANGED nextFlag

Upload(d) ==
  /\ d \notin issued
  /\ issued' = issued \cup {d}
  /\ \E t \in Labels \ TooLong : Change(d, t, {})
  /\ UNCHANGED flags

\* ingest_document: the chunks of a body, one for each section with text in
\* it, appear at one commit.
Index(d) ==
  /\ d \in Rows /\ headings[d] = {}
  /\ \E ls \in SUBSET Labels : ls # {} /\ Change(d, title[d], ls)
  /\ UNCHANGED <<issued, flags>>

\* A reindex, or the sync of a changed page, which can change the title.
Clear(d) ==
  /\ d \in Rows
  /\ \E t \in Labels \ TooLong : Change(d, t, {})
  /\ UNCHANGED <<issued, flags>>

Delete(d) ==
  /\ d \in Rows
  /\ Change(d, NoLabel, {})
  /\ flags' = {f \in flags : d \notin {f.pair.a, f.pair.b}}
  /\ UNCHANGED issued

-----------------------------------------------------------------------------
(* scan_for_duplicates.                                                    *)

ReadTitles(s) ==
  /\ scan[s].at = "idle"
  /\ scan' = [scan EXCEPT ![s] =
       [at |-> "headings", todo |-> Pairs(Titles), pair |-> {},
        known |-> nextFlag, steady |-> Rows]]
  /\ UNCHANGED <<issued, title, headings, flags, nextFlag, changes>>

ReadHeadings(s) ==
  /\ scan[s].at = "headings"
  /\ \E rows \in SUBSET Headings :
       /\ Distinct(rows)
       /\ scan' = [scan EXCEPT ![s].at = "check", ![s].todo = @ \cup Pairs(rows)]
  /\ UNCHANGED <<issued, title, headings, flags, nextFlag, changes>>

\* The titles are compared first.
NextPairs(s) ==
  LET titles == {p \in scan[s].todo : p.source = "title"}
  IN IF titles # {} THEN titles ELSE scan[s].todo

\* Mutated form: the scan stops at the first pair that has its flag.
CheckStopping(s) ==
  /\ scan[s].at = "check"
  /\ \E p \in NextPairs(s) :
       scan' = IF Flagged(p) THEN [scan EXCEPT ![s].todo = {}]
               ELSE [scan EXCEPT ![s].todo = @ \ {p}, ![s].pair = {p}, ![s].at = "insert"]
  /\ UNCHANGED <<issued, title, headings, flags, nextFlag, changes>>

\* Mutated form: a flag that has been resolved does not count.
CheckUnresolved(s) ==
  /\ scan[s].at = "check"
  /\ \E p \in NextPairs(s) :
       scan' = IF \E f \in flags : Same(f.pair, p) /\ ~f.resolved
               THEN [scan EXCEPT ![s].todo = @ \ {p}]
               ELSE [scan EXCEPT ![s].todo = @ \ {p}, ![s].pair = {p}, ![s].at = "insert"]
  /\ UNCHANGED <<issued, title, headings, flags, nextFlag, changes>>

\* _flag_exists, resolved or not.
Check(s) ==
  /\ scan[s].at = "check"
  /\ \E p \in NextPairs(s) :
       scan' = IF Flagged(p) THEN [scan EXCEPT ![s].todo = @ \ {p}]
               ELSE [scan EXCEPT ![s].todo = @ \ {p}, ![s].pair = {p}, ![s].at = "insert"]
  /\ UNCHANGED <<issued, title, headings, flags, nextFlag, changes>>

\* Mutated form: duplicate_flag without its foreign keys.
InsertUnchecked(s) ==
  /\ scan[s].at = "insert"
  /\ flags' = flags \cup {[id |-> nextFlag, pair |-> p, resolved |-> FALSE] : p \in scan[s].pair}
  /\ nextFlag' = nextFlag + 1
  /\ scan' = [scan EXCEPT ![s].at = "check", ![s].pair = {}]
  /\ UNCHANGED <<issued, title, headings, changes>>

\* _insert_flag.
Insert(s) ==
  /\ scan[s].at = "insert"
  /\ \A p \in scan[s].pair : {p.a, p.b} \subseteq Rows /\ {p.la, p.lb} \cap TooLong = {}
  /\ flags' = flags \cup {[id |-> nextFlag, pair |-> p, resolved |-> FALSE] : p \in scan[s].pair}
  /\ nextFlag' = nextFlag + 1
  /\ scan' = [scan EXCEPT ![s].at = "check", ![s].pair = {}]
  /\ UNCHANGED <<issued, title, headings, changes>>

\* A document that is gone fails the foreign key, and a label that is too
\* long its column: the scan raises, and the flags it has inserted stay.
InsertFails(s) ==
  /\ scan[s].at = "insert"
  /\ \E p \in scan[s].pair : ~({p.a, p.b} \subseteq Rows) \/ {p.la, p.lb} \cap TooLong # {}
  /\ scan' = [scan EXCEPT ![s] = After]
  /\ UNCHANGED <<issued, title, headings, flags, nextFlag, changes>>

\* The loops are over.
Finish(s) ==
  /\ scan[s].at = "check" /\ scan[s].todo = {}
  /\ scan' = [scan EXCEPT ![s].at = "end"]
  /\ UNCHANGED <<issued, title, headings, flags, nextFlag, changes>>

\* The response, from a transaction of its own (_hydrate_flags).
Answer(s) ==
  /\ scan[s].at = "end"
  /\ scan' = [scan EXCEPT ![s] = After]
  /\ UNCHANGED <<issued, title, headings, flags, nextFlag, changes>>

\* resolve_duplicate_flag
Resolve(f) ==
  /\ ~f.resolved
  /\ flags' = (flags \ {f}) \cup {[f EXCEPT !.resolved = TRUE]}
  /\ UNCHANGED <<issued, title, headings, nextFlag, changes, scan>>

-----------------------------------------------------------------------------
Step(s) ==
  \/ ReadTitles(s) \/ ReadHeadings(s) \/ Check(s) \/ Insert(s) \/ InsertFails(s)
  \/ Finish(s) \/ Answer(s)

\* No scan is under way.
Quiet == (\A s \in Scans : scan[s].at \in {"idle", "done"}) /\ UNCHANGED vars

Next ==
  \/ Quiet
  \/ \E s \in Scans : Step(s)
  \/ \E d \in Docs : Upload(d) \/ Index(d) \/ Clear(d) \/ Delete(d)
  \/ \E f \in flags : Resolve(f)

Spec == Init /\ [][Next]_vars
-----------------------------------------------------------------------------
(* Properties.                                                             *)

\* A flag is about two documents that exist, the lower id first, whose labels
\* are similar and fit into it: a document deleted between the scan's read and
\* its insert leaves no flag about nothing.
FlagsStand ==
  \A f \in flags :
    /\ {f.pair.a, f.pair.b} \subseteq Rows /\ f.pair.a < f.pair.b
    /\ Alike(f.pair.la, f.pair.lb) /\ {f.pair.la, f.pair.lb} \cap TooLong = {}

\* Some headings of the documents of p that the collation takes for those of p
\* are not similar: SELECT DISTINCT may have returned these instead.
Hidden(p) ==
  \E i, j \in Headings :
    /\ i.doc = p.a /\ Canon[i.label] = Canon[p.la]
    /\ j.doc = p.b /\ Canon[j.label] = Canon[p.lb]
    /\ ~Alike(i.label, j.label)

\* A scan that reaches its end has left no similar pair without a flag, among
\* the documents that did not change while it ran: whatever it skipped was
\* flagged before, by itself, or by another scan.  Only a pair of headings that
\* variants in case or accents hide from it can be missing.
ScanIsComplete ==
  \A s \in Scans : scan[s].at = "end" =>
    \A p \in Pairs(Titles \cup Headings) : {p.a, p.b} \subseteq scan[s].steady =>
      Flagged(p) \/ (p.source = "heading" /\ Hidden(p))

\* "Already-flagged pairs aren't duplicated, and previously-resolved pairs
\* aren't recreated": a scan never inserts a flag for a pair that had one when
\* the scan began.  (For two scans that overlap this is all that holds.)
NeverFlaggedAgain ==
  [][\A f \in flags' : f.id >= nextFlag =>
       \E s \in Scans : /\ scan[s].at = "insert"
                        /\ \A g \in flags : g.id < scan[s].known => ~Same(g.pair, f.pair)]_vars

\* The same sentence for any number of scans: one flag for a pair.
OneFlagPerPair ==
  \A f, g \in flags : Same(f.pair, g.pair) => f = g
=============================================================================
