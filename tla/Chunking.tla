------------------------------ MODULE Chunking ------------------------------
(***************************************************************************)
(* chunk_markdown of app/services/chunking.py: a body is split into the    *)
(* sections of its headings, each with the path of titles that leads to    *)
(* it, and long sections into pieces.                                      *)
(*                                                                         *)
(* A body is a sequence of lines: one that begins with the marks of a      *)
(* heading, with a title after them or without, or a text line, of which   *)
(* only the length counts (0 for a blank one).  A piece is the sequence of *)
(* the characters it holds: <<i, n>> is the n-th one of line i; line ends  *)
(* are left out.  A title is the number of the line it stands on.          *)
(***************************************************************************)
EXTENDS Naturals, SequencesExt, Listing

CONSTANT MaxChunk   \* _MAX_CHUNK_CHARS

ASSUME ChunkingAssumption == MaxChunk \in Nat \ {0}

Heading == [level : 1 .. 6, titled : BOOLEAN]
Text == [length : Nat]

Marked(line) == "level" \in DOMAIN line
Bare(line) == Marked(line) /\ ~line.titled
Blank(line) == ~Marked(line) /\ line.length = 0

\* The bare headings right above line i, blank lines apart.
BareAbove(body, i) ==
  {j \in 1 .. i - 1 : Bare(body[j]) /\ \A k \in j .. i - 1 : Bare(body[k]) \/ Blank(body[k])}

\* The blanks between the marks of a heading and its title (\s+) can be line
\* ends: a bare heading takes the next line there is for its title, be it text
\* or a heading.  Of several bare ones every second is itself taken.
Taken(body) ==
  {i \in 1 .. Len(body) : ~Blank(body[i]) /\ Cardinality(BareAbove(body, i)) % 2 = 1}

\* What _HEADING_RE finds.  Marks that end the body are text.
HeadingLines(body) ==
  {i \in 1 .. Len(body) :
     Marked(body[i]) /\ i \notin Taken(body) /\ (body[i].titled \/ i # Len(body))}

\* The line that is the title of the heading at line i; 0 when all that follows
\* a bare one is blank.
TitleLine(body, i) ==
  LET below == {j \in i + 1 .. Len(body) : ~Blank(body[j])}
  IN IF body[i].titled THEN i
     ELSE IF below = {} THEN 0
     ELSE CHOOSE j \in below : \A k \in below : j <= k

\* The characters of line i that are text of a section.
TextLength(body, i) ==
  IF i \in Taken(body) \cup HeadingLines(body) THEN 0
  ELSE IF Marked(body[i]) THEN body[i].level ELSE body[i].length

\* The text from line i to line j, in order.
Chars(body, i, j) ==
  Joined([k \in 1 .. (j - i + 1) |->
    [n \in 1 .. TextLength(body, i + k - 1) |-> <<i + k - 1, n>>]])

\* _split_long: pieces of MaxChunk characters, the last one shorter.
SplitLong(chars, path) ==
  IF Len(chars) <= MaxChunk THEN << [path |-> path, content |-> chars] >>
  ELSE [p \in 1 .. (Len(chars) + MaxChunk - 1) \div MaxChunk |->
         [path |-> path,
          content |-> SubSeq(chars, (p - 1) * MaxChunk + 1,
                             IF p * MaxChunk < Len(chars) THEN p * MaxChunk ELSE Len(chars))]]

\* Mutated form: a heading of the same level stays on the stack.
PushHeadingKeepingLevel(stack, heading) ==
  Append(Kept(stack, {n \in DOMAIN stack : stack[n].level <= heading.level}), heading)

\* The headings above a new one are those of a lower level.
PushHeading(stack, heading) ==
  Append(Kept(stack, {n \in DOMAIN stack : stack[n].level < heading.level}), heading)

Entry(body, i) == [level |-> body[i].level, title |-> TitleLine(body, i)]

\* The last line of the section that begins with the heading at line i.
SectionEnd(body, i) ==
  IF \E j \in HeadingLines(body) : j > i
  THEN (CHOOSE j \in HeadingLines(body) :
          j > i /\ \A k \in HeadingLines(body) : k > i => j <= k) - 1
  ELSE Len(body)

\* One turn of the loop: the stack is updated, and a section with text is
\* split under its path.
Section(body, sofar, i) ==
  LET stack == PushHeading(sofar.stack, Entry(body, i))
      chars == Chars(body, i, SectionEnd(body, i))
  IN [stack |-> stack,
      chunks |-> IF chars = <<>> THEN sofar.chunks
                 ELSE sofar.chunks \o SplitLong(chars, [k \in DOMAIN stack |-> stack[k].title])]

\* A body without headings is one section without a path (an empty body one
\* empty chunk).  What stands before the first heading is in no section.
ChunkMarkdown(body) ==
  IF HeadingLines(body) = {} THEN SplitLong(Chars(body, 1, Len(body)), <<>>)
  ELSE LET loop[i \in 0 .. Len(body)] ==
             IF i = 0 THEN [stack |-> <<>>, chunks |-> <<>>]
             ELSE IF i \in HeadingLines(body) THEN Section(body, loop[i - 1], i)
             ELSE loop[i - 1]
       IN loop[Len(body)].chunks

-----------------------------------------------------------------------------
\* The outline above line i: the headings that no later one, up to the one i
\* belongs to, closes.
Outline(body, i) ==
  LET above == {j \in HeadingLines(body) : j <= i}
      open == {j \in above : \A k \in above : k > j => body[k].level > body[j].level}
  IN [n \in 1 .. Cardinality(open) |-> TitleLine(body, Ascending(open)[n])]

\* A citation names the section its text stands in: every chunk carries the
\* outline of each of its lines, although the code only keeps a stack.
PathsAreOutlines(body) ==
  \A c \in ToSet(ChunkMarkdown(body)) :
    \A n \in DOMAIN c.content : c.path = Outline(body, c.content[n][1])

\* The chunks, one after the other, are the text of the sections from the first
\* heading on (the whole text when there is none), nothing of it lost or
\* repeated, and each fits into the limit.  So text after the first heading is
\* in no chunk only if a bare heading above it has taken it for its title.
ChunksCoverText(body) ==
  LET first == IF HeadingLines(body) = {} THEN 1
               ELSE CHOOSE i \in HeadingLines(body) : \A j \in HeadingLines(body) : i <= j
      chunks == ChunkMarkdown(body)
      text == Joined([k \in DOMAIN chunks |-> chunks[k].content])
  IN /\ text = Chars(body, first, Len(body))
     /\ \A k \in DOMAIN chunks : Len(chunks[k].content) <= MaxChunk
     /\ \A i \in first .. Len(body) :
          ~Marked(body[i]) /\ BareAbove(body, i) = {} =>
            \A n \in 1 .. body[i].length : <<i, n>> \in ToSet(text)
=============================================================================
