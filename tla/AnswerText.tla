----------------------------- MODULE AnswerText -----------------------------
(***************************************************************************)
(* What ask() of app/services/chat.py sends to the model and makes of its  *)
(* reply: the system prompt of _render_system_prompt and the instructions, *)
(* then _detect_and_strip_escalation and _strip_meta_references.           *)
(*                                                                         *)
(* A reply is a sequence of tokens: words, blanks, commas, the escalation  *)
(* marker, and meta-references ("based on the context").  A prompt         *)
(* template is a sequence of placeholders and text.  Capitals are left out.*)
(***************************************************************************)
EXTENDS Naturals, SequencesExt, Listing

Tokens == {"word", "blank", "comma", "marker", "meta"}

\* The trailing blanks gone.
RStrip(s) ==
  LET ends == {i \in DOMAIN s : s[i] # "blank"}
  IN IF ends = {} THEN <<>> ELSE SubSeq(s, 1, CHOOSE i \in ends : \A j \in ends : j <= i)

Strip(s) == Reverse(RStrip(Reverse(RStrip(s))))

Default == <<"word">>

\* _detect_and_strip_escalation
Detect(reply) ==
  LET s == RStrip(reply)
  IN IF s # <<>> /\ Last(s) = "marker"
     THEN LET visible == RStrip(Front(s))
          IN [text |-> IF visible = <<>> THEN Default ELSE visible, escalate |-> TRUE]
     ELSE [text |-> reply, escalate |-> FALSE]

\* Mutated form: the clause is removed to the next comma.
AbsorbedToComma(s) ==
  {i \in DOMAIN s : \E j \in 1 .. i : s[j] = "meta" /\ \A k \in j + 1 .. i - 1 : s[k] # "comma"}

\* What _META_REFERENCE_RE matches: a meta-reference, a comma right after it,
\* and the blanks that follow.
Absorbed(s) ==
  {i \in DOMAIN s : \E j \in 1 .. i :
     /\ s[j] = "meta"
     /\ \A k \in j + 1 .. i : s[k] = "blank" \/ (s[k] = "comma" /\ k = j + 1)}

Without(s, drop) == Kept(s, DOMAIN s \ drop)

\* A comma the text begins with, and the blanks after it.
Leading(s) ==
  IF s = <<>> \/ s[1] # "comma" THEN {}
  ELSE {i \in DOMAIN s : \A k \in 2 .. i : s[k] = "blank"}

Doubled(s) == {i \in DOMAIN s : i > 1 /\ s[i] = "blank" /\ s[i - 1] = "blank"}

\* _strip_meta_references
StripMeta(s) ==
  LET removed == Without(s, Absorbed(s))
      headed == Without(removed, Leading(removed))
  IN Strip(Without(headed, Doubled(headed)))

\* What is stored in the message and shown to the visitor.
Answer(reply) ==
  LET d == Detect(reply) IN [text |-> StripMeta(d.text), escalate |-> d.escalate]

-----------------------------------------------------------------------------
\* Parts of a tenant's template: the two placeholders that are filled, one that
\* str.format refuses (a name it does not know, a stray brace), and plain text.
\* An attribute or an item of a placeholder, {context.x} or {context[x]}, is left
\* out: its AttributeError or TypeError is not caught and fails the question.
Placeholders == {"{context}", "{agent_name}", "{?}", "text"}

\* Mutated form: a malformed template is used as it is.
RenderBare(template) ==
  IF "{?}" \in ToSet(template) THEN template
  ELSE [n \in DOMAIN template |-> IF template[n] = "{context}" THEN "context" ELSE template[n]]

\* _render_system_prompt: a template that cannot be formatted is sent as it is,
\* with the context after it.
Render(template) ==
  IF "{?}" \in ToSet(template) THEN Append(template, "context")
  ELSE [n \in DOMAIN template |-> IF template[n] = "{context}" THEN "context" ELSE template[n]]

\* get_active_prompt(tenant_id) or _SYSTEM_PROMPT
TemplateOf(active) == IF active = <<>> THEN <<"{agent_name}", "text", "{context}">> ELSE active

\* The system prompt, with the instructions in the order they are appended.
SystemPrompt(active, language, tone, relevant) ==
  Render(TemplateOf(active))
    \o (IF language THEN <<"language">> ELSE <<>>)
    \o (IF tone THEN <<"tone">> ELSE <<>>)
    \o <<"no meta-references">>
    \o (IF relevant THEN <<"escalate">> ELSE <<"no match">>)

-----------------------------------------------------------------------------
\* What a text says: its words, and the markers among them.
Spoken == {"word", "marker"}
Said(s) == Kept(s, {i \in DOMAIN s : s[i] \in Spoken})

EndsWithMarker(s) ==
  \E i \in DOMAIN s : s[i] = "marker" /\ \A j \in i + 1 .. Len(s) : s[j] = "blank"
IsMarkerOnly(s) ==
  \E i \in DOMAIN s : s[i] = "marker" /\ \A j \in DOMAIN s \ {i} : s[j] = "blank"

\* The clean-up takes meta-references out and nothing else: what a reply says
\* reaches the visitor, all of it and in order, wherever the clauses, commas
\* and blanks stand.
WordsSurvive(reply) ==
  LET a == Answer(reply)
  IN /\ "meta" \notin ToSet(a.text)
     /\ ~a.escalate => Said(a.text) = Said(reply)

\* A reply escalates exactly if the model ends it with the marker, as it is told
\* to, be there blanks after it or clauses before it.  That one marker is taken
\* off, no other one and no word, and a reply that is only the marker becomes
\* the stock line: the visitor sees a marker if the reply has another one, and
\* a blank if all it has before the marker are meta-references and commas.
MarkerEscalates(reply) ==
  LET a == Answer(reply)
  IN /\ a.escalate <=> EndsWithMarker(reply)
     /\ a.escalate =>
          Said(a.text) = IF IsMarkerOnly(reply) THEN Said(Default) ELSE Front(Said(reply))

\* "Falls back to appending context after the raw template rather than
\* silently dropping context": a template that asks for the context, or one
\* that cannot be formatted, sends it, and the instruction the escalation
\* marker depends on is the last of the prompt.
ContextReachesModel(template) ==
  /\ "{context}" \in ToSet(TemplateOf(template)) \/ "{?}" \in ToSet(template) =>
       "context" \in ToSet(SystemPrompt(template, TRUE, TRUE, TRUE))
  /\ \A l, t, r \in BOOLEAN :
       Last(SystemPrompt(template, l, t, r)) \in {"escalate", "no match"}
=============================================================================
