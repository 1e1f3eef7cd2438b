--------------------------- MODULE GeminiTranslation ---------------------------
(***************************************************************************)
(* The pure translations of adapters/gemini_adapter.py between the         *)
(* chat-completions shape and Gemini's generateContent shape.              *)
(*                                                                         *)
(* A text of a request is the sequence of its lines.  A message is a       *)
(* record of its role, its text, the tool calls an assistant made (id and  *)
(* name) and the id a tool result answers.  A part of a Gemini answer is a *)
(* text, which is not empty, or a call; an event or a whole response holds *)
(* the parts of its first candidate and the finish reason, "none" when     *)
(* Gemini sent none.  The text of an answer is the sequence of the parts   *)
(* and line breaks it is written from.                                     *)
(***************************************************************************)
EXTENDS Selections, SequencesExt

\* "\n".join(texts): the lines of all the texts in a row.
Joined(texts) == FlattenSeq(texts)

IsSystem(m) == m.role = "system"

\* The calls with this id, by message and place.
CallsWithId(messages, id) ==
  UNION {{k} \X {c \in DOMAIN messages[k].calls : messages[k].calls[c].id = id} :
           k \in DOMAIN messages}

NotAfter(p, q) == p[1] < q[1] \/ (p[1] = q[1] /\ p[2] <= q[2])

\* Mutant: takes the latest call with the id that any message holds.
CallName_Last(messages, id) ==
  LET hits == CallsWithId(messages, id)
      last == CHOOSE p \in hits : \A q \in hits : NotAfter(q, p)
  IN  IF hits = {} THEN "unknown" ELSE messages[last[1]].calls[last[2]].name

\* _lookup_tool_call_name: the first call of the whole history with this id;
\* "unknown" stands for its ValueError.
CallName(messages, id) ==
  LET hits == CallsWithId(messages, id)
      first == CHOOSE p \in hits : \A q \in hits : NotAfter(p, q)
  IN  IF hits = {} THEN "unknown" ELSE messages[first[1]].calls[first[2]].name

\* One turn of contents: an assistant's text is dropped when it also calls tools.
Turn(messages, m) ==
  CASE m.role = "tool" ->
         [role |-> "user", says |-> <<>>, calls |-> <<>>,
          answers |-> CallName(messages, m.id)]
    [] m.role = "assistant" /\ m.calls # <<>> ->
         [role |-> "model", says |-> <<>>, answers |-> "none",
          calls |-> [k \in DOMAIN m.calls |-> m.calls[k].name]]
    [] m.role = "assistant" /\ m.calls = <<>> ->
         [role |-> "model", says |-> m.text, calls |-> <<>>, answers |-> "none"]
    [] OTHER ->
         [role |-> "user", says |-> m.text, calls |-> <<>>, answers |-> "none"]

\* translate_request: every system message, wherever it stands, becomes part of
\* the one systemInstruction; the others become turns in their order.
TranslateRequest(messages) ==
  LET systems == Selected(messages, {k \in DOMAIN messages : IsSystem(messages[k])})
      turns == Selected(messages, {k \in DOMAIN messages : ~IsSystem(messages[k])})
  IN  [system |-> Joined([k \in DOMAIN systems |-> systems[k].text]),
       contents |-> [k \in DOMAIN turns |-> Turn(messages, turns[k])]]

\* A tool result without its call makes translate_request raise.
Translatable(messages) ==
  \A k \in DOMAIN messages :
    messages[k].role = "tool" => CallName(messages, messages[k].id) # "unknown"

------------------------------------------------------------------------------
IsText(p) == p.kind = "text"
IsCall(p) == p.kind = "call"

\* _translate_finish_reason; "SAFETY" also stands for "RECITATION".
FinishReason(raw, hasCall) ==
  CASE raw = "MAX_TOKENS" -> "length"
    [] raw # "MAX_TOKENS" /\ hasCall -> "tool_calls"
    [] raw = "SAFETY" /\ ~hasCall -> "content_filter"
    [] OTHER -> "stop"

Calls(parts) == Selected(parts, {k \in DOMAIN parts : IsCall(parts[k])})
Texts(parts) == Selected(parts, {k \in DOMAIN parts : IsText(parts[k])})

\* A blocked prompt: an answer without candidates.
Blocked == [parts |-> <<>>, finish |-> "blocked"]

\* "\n".join(text_parts): a line break between each two.
LineBreak == [kind |-> "break"]
OneBelowTheOther(texts) ==
  [k \in 1 .. 2 * Len(texts) - 1 |-> IF k % 2 = 1 THEN texts[(k + 1) \div 2] ELSE LineBreak]

\* translate_response: the texts one below the other, the calls in their order.
TranslateResponse(response) ==
  [text |-> OneBelowTheOther(Texts(response.parts)),
   calls |-> Calls(response.parts),
   finish |-> IF response = Blocked THEN "content_filter"
              ELSE FinishReason(response.finish, Calls(response.parts) # <<>>)]

\* Mutant: a chunk for every part, in the order of the parts.
TranslateStreamChunk_ByPart(event) ==
  [k \in DOMAIN event.parts |->
     IF IsText(event.parts[k])
     THEN [kind |-> "content", of |-> <<event.parts[k]>>, index |-> 0]
     ELSE [kind |-> "call", of |-> <<event.parts[k]>>, index |-> k - 1]]

\* translate_stream_chunk: one chunk for the event's texts with nothing between them,
\* one per call with its place in the event as index, one for the finish reason.
TranslateStreamChunk(event) ==
  LET texts == Texts(event.parts)
      calls == Calls(event.parts)
  IN  (IF texts = <<>> THEN <<>>
       ELSE <<[kind |-> "content", of |-> texts, index |-> 0]>>)
      \o [k \in DOMAIN calls |->
            [kind |-> "call", of |-> <<calls[k]>>, index |-> k - 1]]
      \o (IF event.finish \in {"none", "blocked"} THEN <<>>
          ELSE <<[kind |-> FinishReason(event.finish, calls # <<>>),
                  of |-> <<>>, index |-> 0]>>)

\* The chunks of a whole stream.
StreamChunks(events) ==
  FlattenSeq([k \in DOMAIN events |-> TranslateStreamChunk(events[k])])

\* A chunk is a piece of text, a call or the end.
OfKind(chunks, kind) == Selected(chunks, {k \in DOMAIN chunks : chunks[k].kind = kind})
Ends(chunks) ==
  Selected(chunks, {k \in DOMAIN chunks : chunks[k].kind \notin {"content", "call"}})

\* The contents appended to each other, with nothing between them.
Content(chunks) ==
  LET of == OfKind(chunks, "content") IN FlattenSeq([k \in DOMAIN of |-> of[k].of])

\* What a chat-completions client makes of the chunks: it appends contents, merges
\* call deltas by their index and keeps the last finish reason.
Assembled(chunks) ==
  LET calls == OfKind(chunks, "call")
      indexes == {calls[k].index : k \in DOMAIN calls}
      delta(i) == Selected(calls, {k \in DOMAIN calls : calls[k].index = i})
      ends == Ends(chunks)
  IN  [text |-> Content(chunks),
       calls |-> [k \in 1 .. Cardinality(indexes) |->
                    [deltas |-> Len(delta(k - 1)), of |-> delta(k - 1)[1].of[1]]],
       finish |-> IF ends = <<>> THEN "none" ELSE ends[Len(ends)].kind]
==============================================================================
