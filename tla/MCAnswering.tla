----------------------------- MODULE MCAnswering -----------------------------
(* Bounded inputs for Chunking, Ranking and AnswerText: one of a body, the    *)
(* scores of the two searches, a reply and a prompt template grows at a time, *)
(* and every definition is compared with what it is to compute.              *)
EXTENDS Chunking, Ranking, AnswerText

CONSTANTS MaxLines, MaxRows, MaxScore, MaxTokens, MaxTemplate

VARIABLES body, rows, reply, template

input == <<body, rows, reply, template>>

\* An empty body, search, reply and template, to begin with.
Init == body = <<>> /\ rows = <<>> /\ reply = <<>> /\ template = <<>>

Lines == [level : 1 .. 3, titled : BOOLEAN] \cup [length : 0 .. MaxChunk + 1]
Hits == [semantic : -1 .. MaxScore, keyword : 0 .. MaxScore]

AddLine == /\ rows = <<>> /\ reply = <<>> /\ template = <<>> /\ Len(body) < MaxLines
           /\ \E line \in Lines : body' = Append(body, line)
           /\ UNCHANGED <<rows, reply, template>>
AddHit == /\ body = <<>> /\ reply = <<>> /\ template = <<>> /\ Len(rows) < MaxRows
          /\ \E hit \in Hits : rows' = Append(rows, hit)
          /\ UNCHANGED <<body, reply, template>>
AddToken == /\ body = <<>> /\ rows = <<>> /\ template = <<>> /\ Len(reply) < MaxTokens
            /\ \E x \in Tokens : reply' = Append(reply, x)
            /\ UNCHANGED <<body, rows, template>>
AddPlaceholder == /\ body = <<>> /\ rows = <<>> /\ reply = <<>> /\ Len(template) < MaxTemplate
                  /\ \E x \in Placeholders : template' = Append(template, x)
                  /\ UNCHANGED <<body, rows, reply>>

Next == AddLine \/ AddHit \/ AddToken \/ AddPlaceholder

Spec == Init /\ [][Next]_input
-----------------------------------------------------------------------------
\* chunk_markdown: the chunks are the text of the sections, whole and once, and
\* each carries the outline above its text.
BodyChunks == PathsAreOutlines(body) /\ ChunksCoverText(body)

\* hybrid_search: the ranking over the pools is the one over all chunks, and a
\* single keyword hit has its weight.
RowsRanked == AsIfAllWereBlended(rows) /\ SoleHitCounts(rows)

\* ask(): the gate depends on the raw similarity only.
RowsGate == GateIsAbsolute(rows)

\* The clean-up of a reply keeps what it says, but for the marker at its end,
\* which escalates and is taken off.
ReplyClean == WordsSurvive(reply) /\ MarkerEscalates(reply)

\* The model gets the context and the last instruction.
TemplateContext == ContextReachesModel(template)
=============================================================================
