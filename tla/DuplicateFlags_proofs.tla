------------------------ MODULE DuplicateFlags_proofs ------------------------
(***************************************************************************)
(* Proofs about DuplicateFlags for any documents, labels and scans.  A     *)
(* scan compares what it read with what it finds later; the argument for   *)
(* its completeness is that what did not change meanwhile is at every      *)
(* moment flagged, on its list, or in its hands.                           *)
(***************************************************************************)
EXTENDS DuplicateFlags, TLAPS

USE DuplicateFlagsAssumption

FlagOK ==
  \A f \in flags :
    /\ f.id < nextFlag
    /\ {f.pair.a, f.pair.b} \subseteq Rows /\ f.pair.a < f.pair.b
    /\ Alike(f.pair.la, f.pair.lb) /\ {f.pair.la, f.pair.lb} \cap TooLong = {}

ScanOK(s) ==
  /\ \A p \in scan[s].todo \cup scan[s].pair : p.a < p.b /\ Alike(p.la, p.lb)
  /\ scan[s].at # "insert" => scan[s].pair = {}
  /\ scan[s].at = "end" => scan[s].todo = {}
  /\ scan[s].known <= nextFlag
  /\ \A p \in scan[s].pair, f \in flags : f.id < scan[s].known => ~Same(f.pair, p)

Covered(s, p) ==
  Flagged(p) \/ \E q \in scan[s].todo \cup scan[s].pair : Same(q, p)

CoverOK(s) ==
  \A p \in Pair : {p.a, p.b} \subseteq scan[s].steady =>
    /\ scan[s].at \in {"headings", "check", "insert", "end"} /\ p \in Pairs(Titles) =>
         Covered(s, p)
    /\ scan[s].at \in {"check", "insert", "end"} /\ p \in Pairs(Headings) =>
         Covered(s, p) \/ Hidden(p)

IInv == TypeOK /\ FlagOK /\ \A s \in Scans : ScanOK(s) /\ CoverOK(s)

LEMMA InitIInv == Init => IInv
<1> SUFFICES ASSUME Init PROVE IInv
  OBVIOUS
<1>1. TypeOK
  BY DEF Init, TypeOK, Rows, Scan, Before
<1>2. FlagOK /\ \A s \in Scans : ScanOK(s)
  BY DEF Init, FlagOK, ScanOK, Before
<1>3. \A s \in Scans : CoverOK(s)
  BY DEF Init, CoverOK, Before
<1> QED BY <1>1, <1>2, <1>3 DEF IInv

\* Whether a pair is one of titles depends on the titles of its documents
\* only, and so for the headings and for what hides a pair.
LEMMA PairsLocal ==
  ASSUME NEW p \in Pair, title'[p.a] = title[p.a], title'[p.b] = title[p.b],
         headings'[p.a] = headings[p.a], headings'[p.b] = headings[p.b]
  PROVE  /\ p \in Pairs(Titles)' <=> p \in Pairs(Titles)
         /\ p \in Pairs(Headings)' <=> p \in Pairs(Headings)
         /\ Hidden(p)' <=> Hidden(p)
<1>1. /\ p \in Pairs(Titles)' <=> p \in Pairs(Titles)
      /\ p \in Pairs(Headings)' <=> p \in Pairs(Headings)
  BY DEF Pairs, Titles, Headings, Item, Source, Pair
<1>2. \A i \in Item : i.doc \in {p.a, p.b} => (i \in Headings' <=> i \in Headings)
  BY DEF Headings
<1>3. Headings \subseteq Item /\ Headings' \subseteq Item
  BY DEF Headings
<1> QED BY <1>1, <1>2, <1>3 DEF Hidden

LEMMA FlagPair == TypeOK => \A f \in flags : f.pair \in Pair /\ f.id \in Nat
BY DEF TypeOK, Flag

\* What a change to a document other than its deletion leaves of a scan.
LEMMA ChangeStep ==
  ASSUME IInv, NEW d \in Docs, NEW t \in Labels \cup {NoLabel}, NEW hs \in SUBSET Labels,
         Change(d, t, hs), t = NoLabel => hs = {} /\ d \in Rows,
         t # NoLabel => issued' = issued \cup {d} /\ flags' = flags,
         t = NoLabel => issued' = issued
                        /\ flags' = {f \in flags : d \notin {f.pair.a, f.pair.b}}
  PROVE  IInv'
<1>1. /\ title' = [title EXCEPT ![d] = t] /\ headings' = [headings EXCEPT ![d] = hs]
      /\ scan' = [s \in Scans |-> [scan[s] EXCEPT !.steady = @ \ {d}]]
      /\ nextFlag' = nextFlag /\ changes' = changes + 1
  BY DEF Change
<1>2. TypeOK /\ FlagOK /\ flags' \subseteq flags
  BY DEF IInv
<1>3. \A s \in Scans :
        /\ scan'[s].at = scan[s].at /\ scan'[s].todo = scan[s].todo
        /\ scan'[s].pair = scan[s].pair /\ scan'[s].known = scan[s].known
        /\ scan'[s].steady = scan[s].steady \ {d}
  BY <1>1, <1>2 DEF TypeOK, Scan
<1>4. Rows' = IF t = NoLabel THEN Rows \ {d} ELSE Rows \cup {d}
  BY <1>1, <1>2 DEF TypeOK, Rows
<1>5. TypeOK'
  <2>1. scan' \in [Scans -> Scan]
    <3> SUFFICES ASSUME NEW s \in Scans
                 PROVE  [scan[s] EXCEPT !.steady = @ \ {d}] \in Scan
      BY <1>1
    <3> scan[s] \in Scan
      BY <1>2 DEF TypeOK
    <3> QED BY DEF Scan
  <2> QED BY <2>1, <1>1, <1>2, <1>4 DEF TypeOK, Rows
<1>6. FlagOK'
  BY <1>1, <1>2, <1>4, FlagPair DEF FlagOK, Pair
<1>7. ASSUME NEW s \in Scans PROVE ScanOK(s)'
  BY <1>1, <1>2, <1>3 DEF IInv, ScanOK, Same
<1>8. ASSUME NEW s \in Scans PROVE CoverOK(s)'
  <2> SUFFICES ASSUME NEW p \in Pair, {p.a, p.b} \subseteq scan[s].steady \ {d}
               PROVE  /\ scan[s].at \in {"headings", "check", "insert", "end"}
                         /\ p \in Pairs(Titles)' => Covered(s, p)'
                      /\ scan[s].at \in {"check", "insert", "end"}
                         /\ p \in Pairs(Headings)' => Covered(s, p)' \/ Hidden(p)'
    BY <1>3 DEF CoverOK
  <2>1. p.a \in Docs \ {d} /\ p.b \in Docs \ {d}
    BY DEF Pair
  <2>2. /\ p \in Pairs(Titles)' <=> p \in Pairs(Titles)
        /\ p \in Pairs(Headings)' <=> p \in Pairs(Headings)
        /\ Hidden(p)' <=> Hidden(p)
    BY <1>1, <1>2, <2>1, PairsLocal DEF TypeOK
  <2>3. Flagged(p) => Flagged(p)'
    BY <2>1 DEF Flagged, Same
  <2>4. Covered(s, p) => Covered(s, p)'
    BY <2>3, <1>3 DEF Covered, Same
  <2> QED BY <2>2, <2>4 DEF IInv, CoverOK
<1> QED BY <1>5, <1>6, <1>7, <1>8 DEF IInv

\* A step of one scan, or of none, that leaves the documents alone and keeps
\* every flag.
LEMMA ScanStep ==
  ASSUME IInv, NEW s \in Scans, UNCHANGED <<issued, title, headings, changes>>,
         TypeOK', FlagOK', nextFlag' >= nextFlag,
         \A f \in flags : \E g \in flags' : g.pair = f.pair,
         \A g \in flags' : g.id < nextFlag => \E f \in flags : f.id = g.id /\ f.pair = g.pair,
         \A q \in Scans \ {s} : scan'[q] = scan[q], ScanOK(s)', CoverOK(s)'
  PROVE  IInv'
<1> SUFFICES ASSUME NEW q \in Scans, q # s PROVE ScanOK(q)' /\ CoverOK(q)'
  BY DEF IInv
<1>1. TypeOK /\ ScanOK(q) /\ CoverOK(q) /\ scan'[q] = scan[q]
  BY DEF IInv
<1>2. ScanOK(q)'
  <2>1. scan[q].known <= nextFlag' /\ scan[q].known \in Nat
        /\ nextFlag \in Nat /\ nextFlag' \in Nat
    BY <1>1 DEF TypeOK, Scan, ScanOK
  <2>2. ASSUME NEW p \in scan[q].pair, NEW g \in flags', g.id < scan[q].known
        PROVE  ~Same(g.pair, p)
    <3>1. g.id \in Nat
      BY DEF TypeOK, Flag
    <3>2. PICK f \in flags : f.id = g.id /\ f.pair = g.pair
      BY <2>1, <2>2, <3>1, <1>1 DEF ScanOK
    <3> QED BY <3>2, <2>2, <1>1 DEF ScanOK
  <2> QED BY <1>1, <2>1, <2>2 DEF ScanOK, Same
<1>3. CoverOK(q)'
  <2>1. Pairs(Titles)' = Pairs(Titles) /\ Pairs(Headings)' = Pairs(Headings)
        /\ \A x \in Pair : Hidden(x)' = Hidden(x)
    BY DEF Pairs, Titles, Headings, Hidden
  <2>2. \A p \in Pair : Covered(q, p) => Covered(q, p)'
    BY <1>1 DEF Covered, Flagged, Same
  <2> QED BY <1>1, <2>1, <2>2 DEF CoverOK
<1> QED BY <1>2, <1>3
-----------------------------------------------------------------------------
(* The steps.                                                              *)

LEMMA DocumentSteps ==
  ASSUME IInv, NEW d \in Docs, Upload(d) \/ Index(d) \/ Clear(d) \/ Delete(d) PROVE IInv'
<1>0. TypeOK
  BY DEF IInv
<1>1. CASE Upload(d)
  <2> PICK t \in Labels \ TooLong : Change(d, t, {})
    BY <1>1 DEF Upload
  <2> QED BY <1>1, ChangeStep DEF Upload
<1>2. CASE Index(d)
  <2> PICK t \in Labels \cup {NoLabel}, hs \in SUBSET Labels : t = title[d] /\ Change(d, t, hs)
    BY <1>0, <1>2 DEF Index, TypeOK
  <2>1. t \in Labels /\ t # NoLabel /\ d \in issued
    BY <1>0, <1>2 DEF Index, Rows, TypeOK
  <2>2. issued' = issued \cup {d} /\ flags' = flags
    BY <1>2, <2>1 DEF Index
  <2> QED BY <2>1, <2>2, ChangeStep
<1>3. CASE Clear(d)
  <2> PICK t \in Labels \ TooLong : Change(d, t, {})
    BY <1>3 DEF Clear
  <2>1. issued' = issued \cup {d} /\ flags' = flags /\ t # NoLabel
    BY <1>0, <1>3 DEF Clear, TypeOK
  <2> QED BY <2>1, ChangeStep
<1>4. CASE Delete(d)
  <2> PICK t \in Labels \cup {NoLabel}, hs \in SUBSET Labels :
        t = NoLabel /\ hs = {} /\ Change(d, t, hs)
    BY <1>4 DEF Delete
  <2> QED BY <1>4, ChangeStep DEF Delete
<1> QED BY <1>1, <1>2, <1>3, <1>4

\* The scan that moves, in the steps that write no flag.
LEMMA ReadingStep ==
  ASSUME IInv, NEW s \in Scans, UNCHANGED <<issued, title, headings, flags, nextFlag, changes>>,
         NEW r \in Scan, scan' = [scan EXCEPT ![s] = r], ScanOK(s)', CoverOK(s)'
  PROVE  IInv'
<1>1. TypeOK' /\ FlagOK'
  BY DEF IInv, TypeOK, FlagOK, Rows
<1>2. \A q \in Scans \ {s} : scan'[q] = scan[q]
  BY DEF IInv, TypeOK
<1>3. nextFlag' >= nextFlag
  BY DEF IInv, TypeOK
<1> QED BY <1>1, <1>2, <1>3, ScanStep

LEMMA ReadTitlesStep == ASSUME IInv, NEW s \in Scans, ReadTitles(s) PROVE IInv'
<1> DEFINE r == [at |-> "headings", todo |-> Pairs(Titles), pair |-> {},
                 known |-> nextFlag, steady |-> Rows]
<1>1. TypeOK /\ scan' = [scan EXCEPT ![s] = r]
      /\ UNCHANGED <<issued, title, headings, flags, nextFlag, changes>>
  BY DEF ReadTitles, IInv
<1>2. r \in Scan
  BY <1>1 DEF Scan, Pairs, Rows, TypeOK
<1>3. scan'[s] = r
  BY <1>1 DEF TypeOK
<1>4. ScanOK(s)'
  BY <1>1, <1>3 DEF ScanOK, Pairs, TypeOK
<1>5. CoverOK(s)'
  <2>1. Pairs(Titles)' = Pairs(Titles) /\ \A p : Same(p, p)
    BY <1>1 DEF Pairs, Titles, Same
  <2> QED BY <1>3, <2>1 DEF CoverOK, Covered
<1> HIDE DEF r
<1> QED BY <1>1, <1>2, <1>4, <1>5, ReadingStep

\* What SELECT DISTINCT returns has a pair for every pair of headings but a
\* hidden one.
LEMMA DistinctCovers ==
  ASSUME NEW rows \in SUBSET Headings, Distinct(rows), NEW p \in Pairs(Headings), ~Hidden(p)
  PROVE  \E q \in Pairs(rows) : Same(q, p)
<1> DEFINE i0 == [doc |-> p.a, source |-> p.source, label |-> p.la]
           j0 == [doc |-> p.b, source |-> p.source, label |-> p.lb]
<1>1. p \in Pair /\ p.a < p.b /\ p.source = "heading" /\ i0 \in Headings /\ j0 \in Headings
  BY DEF Pairs, Headings
<1> PICK i \in rows : i.doc = p.a /\ Canon[i.label] = Canon[p.la]
  BY <1>1 DEF Distinct
<1> PICK j \in rows : j.doc = p.b /\ Canon[j.label] = Canon[p.lb]
  BY <1>1 DEF Distinct
<1> DEFINE q == [a |-> p.a, b |-> p.b, source |-> "heading", la |-> i.label, lb |-> j.label]
<1>2. Alike(i.label, j.label)
  BY DEF Hidden
<1>3. /\ i \in Item /\ j \in Item /\ i.source = "heading" /\ j.source = "heading"
      /\ i = [doc |-> p.a, source |-> "heading", label |-> i.label]
      /\ j = [doc |-> p.b, source |-> "heading", label |-> j.label]
  BY DEF Headings, Item
<1>4. q \in Pair
  BY <1>1, <1>3 DEF Pair, Item
<1>5. q \in Pairs(rows)
  BY <1>1, <1>2, <1>3, <1>4 DEF Pairs
<1>6. Same(q, p)
  BY <1>1 DEF Same
<1> QED BY <1>5, <1>6

LEMMA ReadHeadingsStep == ASSUME IInv, NEW s \in Scans, ReadHeadings(s) PROVE IInv'
<1> PICK rows \in SUBSET Headings :
      /\ Distinct(rows)
      /\ scan' = [scan EXCEPT ![s].at = "check", ![s].todo = @ \cup Pairs(rows)]
  BY DEF ReadHeadings
<1> DEFINE r == [scan[s] EXCEPT !.at = "check", !.todo = @ \cup Pairs(rows)]
<1>1. TypeOK /\ ScanOK(s) /\ CoverOK(s) /\ scan[s] \in Scan /\ scan[s].at = "headings"
      /\ scan' = [scan EXCEPT ![s] = r]
      /\ UNCHANGED <<issued, title, headings, flags, nextFlag, changes>>
  BY DEF ReadHeadings, IInv, TypeOK
<1>2. r \in Scan
  BY <1>1 DEF Scan, Pairs
<1>3. scan'[s] = r
  BY <1>1 DEF TypeOK
<1>4. r.at = "check" /\ r.todo = scan[s].todo \cup Pairs(rows) /\ r.pair = scan[s].pair
      /\ r.known = scan[s].known /\ r.steady = scan[s].steady
  BY <1>1 DEF Scan
<1> HIDE DEF r
<1>5. ScanOK(s)'
  BY <1>1, <1>3, <1>4 DEF ScanOK, Pairs
<1>6. CoverOK(s)'
  <2>1. Pairs(Titles)' = Pairs(Titles) /\ Pairs(Headings)' = Pairs(Headings)
        /\ \A x \in Pair : Hidden(x)' = Hidden(x)
    BY <1>1 DEF Pairs, Titles, Headings, Hidden
  <2>2. \A p \in Pair : Covered(s, p) => Covered(s, p)'
    BY <1>1, <1>3, <1>4 DEF Covered, Flagged, Same
  <2>3. ASSUME NEW p \in Pair, p \in Pairs(Headings), ~Hidden(p) PROVE Covered(s, p)'
    <3> PICK q \in Pairs(rows) : Same(q, p)
      BY <2>3, DistinctCovers
    <3> QED BY <1>3, <1>4 DEF Covered, Same
  <2> QED BY <1>1, <1>3, <1>4, <2>1, <2>2, <2>3 DEF CoverOK
<1> QED BY <1>1, <1>2, <1>5, <1>6, ReadingStep

LEMMA CheckStep == ASSUME IInv, NEW s \in Scans, Check(s) PROVE IInv'
<1>1. TypeOK /\ ScanOK(s) /\ CoverOK(s) /\ scan[s] \in Scan /\ scan[s].at = "check"
      /\ UNCHANGED <<issued, title, headings, flags, nextFlag, changes>>
  BY DEF Check, IInv, TypeOK
<1> PICK p \in NextPairs(s) :
      scan' = IF Flagged(p) THEN [scan EXCEPT ![s].todo = @ \ {p}]
              ELSE [scan EXCEPT ![s].todo = @ \ {p}, ![s].pair = {p}, ![s].at = "insert"]
  BY DEF Check
<1>2. p \in scan[s].todo
  BY DEF NextPairs
<1> DEFINE r == IF Flagged(p) THEN [scan[s] EXCEPT !.todo = @ \ {p}]
                ELSE [scan[s] EXCEPT !.todo = @ \ {p}, !.pair = {p}, !.at = "insert"]
<1>3. p \in Pair
  BY <1>1, <1>2 DEF Scan
<1>4. r \in Scan /\ scan' = [scan EXCEPT ![s] = r] /\ scan'[s] = r
  <2>1. r \in Scan
    BY <1>1, <1>3 DEF Scan
  <2>2. scan' = [scan EXCEPT ![s] = r]
    BY <1>1 DEF TypeOK
  <2> HIDE DEF r
  <2> QED BY <1>1, <2>1, <2>2 DEF TypeOK
<1>5. /\ r.todo = scan[s].todo \ {p} /\ r.known = scan[s].known /\ r.steady = scan[s].steady
      /\ Flagged(p) => r.at = "check" /\ r.pair = scan[s].pair
      /\ ~Flagged(p) => r.at = "insert" /\ r.pair = {p}
  BY <1>1 DEF Scan
<1> HIDE DEF r
<1>6. ScanOK(s)'
  <2>1. \A q \in r.todo \cup r.pair : q.a < q.b /\ Alike(q.la, q.lb)
    BY <1>1, <1>2, <1>5 DEF ScanOK
  <2>2. \A q \in r.pair, f \in flags : f.id < r.known => ~Same(f.pair, q)
    BY <1>1, <1>5 DEF ScanOK, Flagged
  <2>3. (r.at # "insert" => r.pair = {}) /\ r.at # "end" /\ r.known <= nextFlag
    BY <1>1, <1>5 DEF ScanOK
  <2> QED BY <1>1, <1>4, <2>1, <2>2, <2>3 DEF ScanOK, Same
<1>7. CoverOK(s)'
  <2>1. Pairs(Titles)' = Pairs(Titles) /\ Pairs(Headings)' = Pairs(Headings)
        /\ \A x \in Pair : Hidden(x)' = Hidden(x)
    BY <1>1 DEF Pairs, Titles, Headings, Hidden
  <2>2. scan[s].pair = {}
    BY <1>1 DEF ScanOK
  <2>3. \A q \in Pair : Covered(s, q) => Covered(s, q)'
    BY <1>1, <1>4, <1>5, <2>2 DEF Covered, Flagged, Same
  <2> QED BY <1>1, <1>4, <1>5, <2>1, <2>3 DEF CoverOK
<1> QED BY <1>1, <1>4, <1>6, <1>7, ReadingStep

LEMMA InsertStep == ASSUME IInv, NEW s \in Scans, Insert(s) PROVE IInv'
<1> DEFINE new == {[id |-> nextFlag, pair |-> p, resolved |-> FALSE] : p \in scan[s].pair}
<1>1. TypeOK /\ FlagOK /\ ScanOK(s) /\ CoverOK(s) /\ scan[s] \in Scan /\ nextFlag \in Nat
      /\ scan[s].at = "insert" /\ flags' = flags \cup new /\ nextFlag' = nextFlag + 1
      /\ UNCHANGED <<issued, title, headings, changes>>
      /\ \A p \in scan[s].pair : {p.a, p.b} \subseteq Rows /\ {p.la, p.lb} \cap TooLong = {}
  BY DEF Insert, IInv, TypeOK
<1>2. /\ scan' \in [Scans -> Scan] /\ \A q \in Scans \ {s} : scan'[q] = scan[q]
      /\ scan'[s].at = "check" /\ scan'[s].pair = {} /\ scan'[s].todo = scan[s].todo
      /\ scan'[s].known = scan[s].known /\ scan'[s].steady = scan[s].steady
  <2>1. [scan[s] EXCEPT !.at = "check", !.pair = {}] \in Scan
    BY <1>1 DEF Scan
  <2>2. scan' = [scan EXCEPT ![s] = [scan[s] EXCEPT !.at = "check", !.pair = {}]]
    BY <1>1 DEF Insert, TypeOK
  <2> QED BY <1>1, <2>1, <2>2 DEF TypeOK, Scan
<1>3. \A g \in new : g.id = nextFlag /\ g.pair \in scan[s].pair /\ g \in Flag
  <2>1. scan[s].pair \subseteq Pair
    BY <1>1 DEF Scan
  <2> SUFFICES ASSUME NEW p \in scan[s].pair, NEW g, g = [id |-> nextFlag, pair |-> p, resolved |-> FALSE]
               PROVE  g.id = nextFlag /\ g.pair \in scan[s].pair /\ g \in Flag
    OBVIOUS
  <2> QED BY <1>1, <2>1 DEF Flag
<1>4. ASSUME NEW p \in scan[s].pair PROVE \E g \in new : g.pair = p
  <2> WITNESS [id |-> nextFlag, pair |-> p, resolved |-> FALSE] \in new
  <2> QED OBVIOUS
<1> HIDE DEF new
<1>5. TypeOK'
  <2>1. flags' \subseteq Flag /\ nextFlag' \in Nat
    BY <1>1, <1>3 DEF TypeOK
  <2> QED BY <1>1, <1>2, <2>1 DEF TypeOK, Rows
<1>6. FlagOK'
  <2>1. \A f \in flags : f.id \in Nat
    BY <1>1, FlagPair
  <2> QED BY <1>1, <1>3, <2>1 DEF FlagOK, ScanOK, Rows
<1>7. ScanOK(s)'
  BY <1>1, <1>2 DEF ScanOK, Scan
<1>8. CoverOK(s)'
  <2>1. Pairs(Titles)' = Pairs(Titles) /\ Pairs(Headings)' = Pairs(Headings)
        /\ \A x \in Pair : Hidden(x)' = Hidden(x)
    BY <1>1 DEF Pairs, Titles, Headings, Hidden
  <2>2. \A q \in Pair : Covered(s, q) => Covered(s, q)'
    BY <1>1, <1>2, <1>4 DEF Covered, Flagged, Same
  <2> QED BY <1>1, <1>2, <2>1, <2>2 DEF CoverOK
<1> QED BY <1>1, <1>2, <1>3, <1>5, <1>6, <1>7, <1>8, ScanStep

LEMMA EndSteps ==
  ASSUME IInv, NEW s \in Scans, InsertFails(s) \/ Finish(s) \/ Answer(s) PROVE IInv'
<1>1. TypeOK /\ ScanOK(s) /\ CoverOK(s) /\ scan[s] \in Scan /\ nextFlag \in Nat
      /\ UNCHANGED <<issued, title, headings, flags, nextFlag, changes>>
  BY DEF InsertFails, Finish, Answer, IInv, TypeOK
<1>2. CASE Finish(s)
  <2> DEFINE r == [scan[s] EXCEPT !.at = "end"]
  <2>1. r \in Scan /\ scan' = [scan EXCEPT ![s] = r] /\ scan'[s] = r /\ scan[s].at = "check"
        /\ scan[s].todo = {}
    BY <1>1, <1>2 DEF Finish, Scan, TypeOK
  <2>2. r.at = "end" /\ r.todo = {} /\ r.pair = scan[s].pair /\ r.known = scan[s].known
        /\ r.steady = scan[s].steady
    BY <1>1, <2>1 DEF Scan
  <2> HIDE DEF r
  <2>3. ScanOK(s)'
    BY <1>1, <2>1, <2>2 DEF ScanOK, Same
  <2>4. CoverOK(s)'
    <3>1. Pairs(Titles)' = Pairs(Titles) /\ Pairs(Headings)' = Pairs(Headings)
          /\ \A x \in Pair : Hidden(x)' = Hidden(x)
      BY <1>1 DEF Pairs, Titles, Headings, Hidden
    <3>2. \A q \in Pair : Covered(s, q) => Covered(s, q)'
      BY <1>1, <2>1, <2>2 DEF Covered, Flagged, Same
    <3> QED BY <1>1, <2>1, <2>2, <3>1, <3>2 DEF CoverOK
  <2> QED BY <1>1, <2>1, <2>3, <2>4, ReadingStep
<1>3. CASE InsertFails(s) \/ Answer(s)
  <2>1. After \in Scan /\ scan' = [scan EXCEPT ![s] = After] /\ scan'[s] = After
    BY <1>1, <1>3 DEF InsertFails, Answer, After, Before, Scan, TypeOK
  <2>2. After.at = "done" /\ After.todo = {} /\ After.pair = {} /\ After.known = 0
    BY DEF After, Before
  <2>3. ScanOK(s)'
    BY <1>1, <2>1, <2>2 DEF ScanOK
  <2>4. CoverOK(s)'
    BY <2>1, <2>2 DEF CoverOK
  <2> QED BY <1>1, <2>1, <2>3, <2>4, ReadingStep
<1> QED BY <1>2, <1>3

LEMMA ResolveStep == ASSUME IInv, NEW f \in flags, Resolve(f) PROVE IInv'
<1> DEFINE g == [f EXCEPT !.resolved = TRUE]
<1>1. TypeOK /\ FlagOK /\ f \in Flag /\ nextFlag \in Nat /\ flags' = (flags \ {f}) \cup {g}
      /\ UNCHANGED <<issued, title, headings, nextFlag, changes, scan>>
  BY DEF Resolve, IInv, TypeOK
<1>2. g \in Flag /\ g.id = f.id /\ g.pair = f.pair
  BY <1>1 DEF Flag
<1> HIDE DEF g
<1>3. TypeOK'
  BY <1>1, <1>2 DEF TypeOK, Rows
<1>4. FlagOK'
  BY <1>1, <1>2 DEF FlagOK, Rows
<1>5. ASSUME NEW s \in Scans PROVE ScanOK(s)'
  BY <1>1, <1>2 DEF IInv, ScanOK, Same
<1>6. ASSUME NEW s \in Scans PROVE CoverOK(s)'
  <2>1. Pairs(Titles)' = Pairs(Titles) /\ Pairs(Headings)' = Pairs(Headings)
        /\ \A x \in Pair : Hidden(x)' = Hidden(x)
    BY <1>1 DEF Pairs, Titles, Headings, Hidden
  <2>2. \A q \in Pair : Covered(s, q) => Covered(s, q)'
    BY <1>1, <1>2 DEF Covered, Flagged, Same
  <2> QED BY <1>1, <2>1, <2>2 DEF IInv, CoverOK
<1> QED BY <1>3, <1>4, <1>5, <1>6 DEF IInv

LEMMA NextIInv == IInv /\ [Next]_vars => IInv'
<1> SUFFICES ASSUME IInv, [Next]_vars PROVE IInv'
  OBVIOUS
<1>1. CASE UNCHANGED vars
  <2>1. TypeOK' /\ FlagOK'
    BY <1>1 DEF vars, IInv, TypeOK, FlagOK, Rows
  <2>2. ASSUME NEW s \in Scans PROVE ScanOK(s)' /\ CoverOK(s)'
    BY <1>1
    DEF vars, IInv, ScanOK, CoverOK, Covered, Flagged, Same, Pairs, Titles, Headings, Hidden
  <2> QED BY <2>1, <2>2 DEF IInv
<1>2. CASE \E s \in Scans : Step(s)
  BY <1>2, ReadTitlesStep, ReadHeadingsStep, CheckStep, InsertStep, EndSteps DEF Step
<1>3. CASE \E d \in Docs : Upload(d) \/ Index(d) \/ Clear(d) \/ Delete(d)
  BY <1>3, DocumentSteps
<1>4. CASE \E f \in flags : Resolve(f)
  BY <1>4, ResolveStep
<1> QED BY <1>1, <1>2, <1>3, <1>4 DEF Next, Quiet
-----------------------------------------------------------------------------
\* Documents, flags and scans are well typed in every behaviour.
THEOREM TypeCorrect == Spec => []TypeOK
<1>1. IInv => TypeOK
  BY DEF IInv
<1> QED BY <1>1, InitIInv, NextIInv, PTL DEF Spec

\* However scans, changes of documents, deletions and reviews of flags
\* interleave, no flag outlives or precedes its documents or holds a label that
\* does not fit.
THEOREM FlagsHaveDocuments == Spec => []FlagsStand
<1>1. IInv => FlagsStand
  BY DEF IInv, FlagOK, FlagsStand
<1> QED BY <1>1, InitIInv, NextIInv, PTL DEF Spec

\* A scan that reaches its end has left no similar pair of documents that
\* stayed as they were without a flag, but those that variants of a heading in
\* its own document hide.
THEOREM ScansAreComplete == Spec => []ScanIsComplete
<1>1. IInv => ScanIsComplete
  <2> SUFFICES ASSUME IInv, NEW s \in Scans, scan[s].at = "end",
                      NEW p \in Pairs(Titles \cup Headings), {p.a, p.b} \subseteq scan[s].steady
               PROVE  Flagged(p) \/ (p.source = "heading" /\ Hidden(p))
    BY DEF ScanIsComplete
  <2>1. p \in Pair /\ (p \in Pairs(Titles) \/ (p.source = "heading" /\ p \in Pairs(Headings)))
    BY DEF Pairs, Titles, Headings, Pair, Source
  <2>2. scan[s].todo = {} /\ scan[s].pair = {}
    BY DEF IInv, ScanOK
  <2>3. Covered(s, p) \/ (p.source = "heading" /\ Hidden(p))
    BY <2>1 DEF IInv, CoverOK
  <2> QED BY <2>2, <2>3 DEF Covered
<1> QED BY <1>1, InitIInv, NextIInv, PTL DEF Spec

\* No scan flags a pair that had its flag, resolved or not, when it began.
THEOREM FlaggedOnce == Spec => NeverFlaggedAgain
<1> DEFINE A == \A f \in flags' : f.id >= nextFlag =>
                  \E s \in Scans :
                    /\ scan[s].at = "insert"
                    /\ \A g \in flags : g.id < scan[s].known => ~Same(g.pair, f.pair)
<1>1. IInv /\ [Next]_vars => [A]_vars
  <2> SUFFICES ASSUME IInv, Next, NEW f \in flags', f.id >= nextFlag
               PROVE  \E s \in Scans :
                        /\ scan[s].at = "insert"
                        /\ \A g \in flags : g.id < scan[s].known => ~Same(g.pair, f.pair)
    OBVIOUS
  <2>1. \A g \in flags : g.id < nextFlag /\ g.id \in Nat /\ g \in Flag
    BY FlagPair DEF IInv, FlagOK, TypeOK
  <2>2. nextFlag \in Nat
    BY DEF IInv, TypeOK
  <2>3. f \notin flags
    BY <2>1, <2>2
  <2>4. ASSUME NEW g \in flags, Resolve(g) PROVE FALSE
    BY <2>1, <2>2, <2>3, <2>4 DEF Resolve, Flag
  <2>5. PICK s \in Scans : Insert(s)
    BY <2>3, <2>4
    DEF Next, Quiet, vars, Step, ReadTitles, ReadHeadings, Check, InsertFails, Finish, Answer,
        Upload, Index, Clear, Delete
  <2>6. f.pair \in scan[s].pair /\ scan[s].at = "insert"
    BY <2>3, <2>5 DEF Insert
  <2> QED BY <2>6 DEF IInv, ScanOK
<1>2. Spec => [][A]_vars
  BY <1>1, InitIInv, NextIInv, PTL DEF Spec
<1> QED BY <1>2 DEF NeverFlaggedAgain
-----------------------------------------------------------------------------
(* One flag for a pair, when scans do not overlap.                         *)

\* At most one scan is under way.
ScansApart ==
  \A s, t \in Scans : {scan[s].at, scan[t].at} \cap {"idle", "done"} = {} => s = t

\* What a scan is about to insert had no flag when it looked, and in a scan
\* that is alone that is still so.
HandsOK ==
  \A s \in Scans : \A p, q \in scan[s].pair : ~Flagged(p) /\ p = q

LEMMA SameSymmetric == \A p, q \in Pair : Same(p, q) => Same(q, p)
BY DEF Same

LEMMA SoleStep ==
  ASSUME IInv, ScansApart, [Next]_vars, OneFlagPerPair, HandsOK
  PROVE  OneFlagPerPair' /\ HandsOK'
<1>0. TypeOK /\ (\A s \in Scans : scan[s] \in Scan /\ ScanOK(s))
      /\ (\A f \in flags : f.pair \in Pair)
  BY FlagPair DEF IInv, TypeOK
<1>1. CASE flags' \subseteq flags
           /\ \A s \in Scans : scan'[s].pair \subseteq scan[s].pair
  BY <1>1 DEF OneFlagPerPair, HandsOK, Flagged, Same
<1>2. ASSUME NEW s \in Scans, Check(s) PROVE OneFlagPerPair' /\ HandsOK'
  <2>1. PICK p \in NextPairs(s) :
          scan' = IF Flagged(p) THEN [scan EXCEPT ![s].todo = @ \ {p}]
                  ELSE [scan EXCEPT ![s].todo = @ \ {p}, ![s].pair = {p}, ![s].at = "insert"]
    BY <1>2 DEF Check
  <2>2. /\ \A t \in Scans \ {s} : scan'[t].pair = scan[t].pair
        /\ Flagged(p) => scan'[s].pair = scan[s].pair
        /\ ~Flagged(p) => scan'[s].pair = {p}
    BY <1>0, <2>1 DEF TypeOK, Scan
  <2>3. flags' = flags
    BY <1>2 DEF Check
  <2> QED BY <2>2, <2>3 DEF OneFlagPerPair, HandsOK, Flagged, Same
<1>3. ASSUME NEW s \in Scans, Insert(s) PROVE OneFlagPerPair' /\ HandsOK'
  <2> DEFINE new == {[id |-> nextFlag, pair |-> p, resolved |-> FALSE] : p \in scan[s].pair}
  <2>1. scan[s].at = "insert" /\ flags' = flags \cup new
    BY <1>3 DEF Insert
  <2>2. \A t \in Scans : scan'[t].pair = {}
    <3>1. scan'[s].pair = {} /\ \A t \in Scans \ {s} : scan'[t] = scan[t]
      BY <1>0, <1>3 DEF Insert, TypeOK, Scan
    \* Another scan that held a pair would be at its insert.
    <3>2. \A t \in Scans \ {s} : scan[t].pair = {}
      BY <1>0, <2>1 DEF ScansApart, ScanOK
    <3> QED BY <3>1, <3>2
  <2>3. \A f, g \in new : f = g
    <3> SUFFICES ASSUME NEW p \in scan[s].pair, NEW q \in scan[s].pair
                 PROVE  [id |-> nextFlag, pair |-> p, resolved |-> FALSE]
                        = [id |-> nextFlag, pair |-> q, resolved |-> FALSE]
      OBVIOUS
    <3>1. p = q
      BY DEF HandsOK
    <3> QED BY <3>1
  <2>4. \A f \in new, g \in flags : ~Same(f.pair, g.pair) /\ ~Same(g.pair, f.pair)
    <3>1. \A p \in scan[s].pair : p \in Pair /\ ~Flagged(p)
      BY <1>0 DEF Scan, HandsOK
    <3> QED BY <1>0, <3>1, SameSymmetric DEF Flagged
  <2> HIDE DEF new
  <2> QED BY <2>1, <2>2, <2>3, <2>4 DEF OneFlagPerPair, HandsOK
<1>4. ASSUME NEW f \in flags, Resolve(f) PROVE OneFlagPerPair' /\ HandsOK'
  <2> DEFINE g == [f EXCEPT !.resolved = TRUE]
  <2>1. flags' = (flags \ {f}) \cup {g} /\ scan' = scan
    BY <1>4 DEF Resolve
  <2>2. g.pair = f.pair
    BY <1>0 DEF TypeOK, Flag
  <2> HIDE DEF g
  <2> QED BY <2>1, <2>2 DEF OneFlagPerPair, HandsOK, Flagged, Same
<1>5. ASSUME NEW d \in Docs, NEW t, NEW hs, Change(d, t, hs)
      PROVE  \A s \in Scans : scan'[s].pair = scan[s].pair
  BY <1>0, <1>5 DEF Change, Scan
<1>6. ASSUME NEW d \in Docs, Upload(d) \/ Index(d) \/ Clear(d) \/ Delete(d)
      PROVE  OneFlagPerPair' /\ HandsOK'
  <2>1. \E t, hs : Change(d, t, hs)
    BY <1>6 DEF Upload, Index, Clear, Delete
  <2>2. flags' \subseteq flags
    BY <1>6 DEF Upload, Index, Clear, Delete
  <2> QED BY <1>1, <1>5, <2>1, <2>2
<1>7. ASSUME NEW s \in Scans, ReadTitles(s) \/ ReadHeadings(s) \/ InsertFails(s)
                              \/ Finish(s) \/ Answer(s)
      PROVE  OneFlagPerPair' /\ HandsOK'
  <2>1. \A t \in Scans : scan'[t].pair \subseteq scan[t].pair
    BY <1>0, <1>7
    DEF ReadTitles, ReadHeadings, InsertFails, Finish, Answer, After, Before, TypeOK, Scan
  <2>2. flags' = flags
    BY <1>7 DEF ReadTitles, ReadHeadings, InsertFails, Finish, Answer
  <2> QED BY <1>1, <2>1, <2>2
<1>8. CASE UNCHANGED vars
  BY <1>1, <1>8 DEF vars
<1> QED BY <1>2, <1>3, <1>4, <1>6, <1>7, <1>8 DEF Next, Step, Quiet

\* "Already-flagged pairs aren't duplicated" under exactly the condition the
\* code leaves open: when no two scans overlap, no two flags are of one pair.
THEOREM ScansApartFlagOnce == Spec /\ []ScansApart => []OneFlagPerPair
<1>1. Init => OneFlagPerPair /\ HandsOK
  BY DEF Init, OneFlagPerPair, HandsOK, Before
<1>2. Spec => []IInv
  BY InitIInv, NextIInv, PTL DEF Spec
<1>3. IInv /\ ScansApart /\ OneFlagPerPair /\ HandsOK /\ [Next]_vars => (OneFlagPerPair /\ HandsOK)'
  BY SoleStep
<1> QED BY <1>1, <1>2, <1>3, PTL DEF Spec
=============================================================================
