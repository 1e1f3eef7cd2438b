------------------------------- MODULE SseStreams -------------------------------
(***************************************************************************)
(* The server-sent events of a completion on their way to the engine:      *)
(* GeminiAdapter.stream_generate_content, which turns Gemini's events into *)
(* chat-completions frames, and _consume_openai_sse of                     *)
(* orchestrator/engine.py, which reads frames from byte chunks that the    *)
(* network cuts anywhere.                                                  *)
(*                                                                         *)
(* Bytes are symbols: a newline, the "data: " mark, the two ends of a JSON *)
(* object and its body, so that a cut can fall inside a frame, inside its  *)
(* separator and inside its payload.                                       *)
(***************************************************************************)
EXTENDS GeminiTranslation

NL == [sym |-> "newline"]
Data == [sym |-> "data: "]
Open == [sym |-> "{"]
Close == [sym |-> "}"]
Done == [sym |-> "[DONE]"]
Body(chunk) == [sym |-> "body", chunk |-> chunk]

Frame(chunk) == <<Data, Open, Body(chunk), Close, NL, NL>>
DoneFrame == <<Data, Done, NL, NL>>

ReadEventLine(reader, line) ==
  IF line = <<>>
  THEN [buffer |-> <<>>, events |-> reader.events \o reader.buffer]
  ELSE [reader EXCEPT !.buffer = Append(@, line[1])]

\* _iter_sse_json_events: a line is blank (<<>>) or holds an event (<<event>>); a
\* last event needs no blank line after it.
GeminiEvents(lines) ==
  LET read[k \in 0 .. Len(lines)] ==
        IF k = 0 THEN [buffer |-> <<>>, events |-> <<>>]
        ELSE ReadEventLine(read[k - 1], lines[k])
  IN  read[Len(lines)].events \o read[Len(lines)].buffer

\* stream_generate_content: the frames of every event's chunks, then [DONE].
GeminiFrames(lines) ==
  LET chunks == StreamChunks(GeminiEvents(lines))
  IN  FlattenSeq([k \in DOMAIN chunks |-> Frame(chunks[k])]) \o DoneFrame

------------------------------------------------------------------------------
\* The places of a newline pair in a buffer.
Separators(buffer) ==
  {k \in 1 .. Len(buffer) - 1 : buffer[k] = NL /\ buffer[k + 1] = NL}

First(places) == CHOOSE k \in places : \A j \in places : k <= j

\* What a reader has: bytes not read yet, the text so far, and whether it met
\* [DONE] or a payload that is no JSON.
Reader == [buffer |-> <<>>, text |-> <<>>, state |-> "reading"]

\* One line of a frame: skipped unless it is data; [DONE] ends the reading.
ReadLine(reader, line) ==
  IF reader.state # "reading" \/ line = <<>> \/ line[1] # Data THEN reader
  ELSE IF line = <<Data, Done>> THEN [reader EXCEPT !.state = "done"]
  ELSE IF Len(line) = 4 /\ line[2] = Open /\ line[4] = Close
  THEN [reader EXCEPT !.text = IF line[3].chunk.kind = "content"
                               THEN @ \o line[3].chunk.of ELSE @]
  ELSE [reader EXCEPT !.state = "raised"]

\* The lines of a frame: frame.split(b"\n").
Lines(frame) ==
  LET breaks == Ascending({k \in 1 .. Len(frame) + 1 : k = Len(frame) + 1 \/ frame[k] = NL})
  IN  [n \in DOMAIN breaks |->
         SubSeq(frame, IF n = 1 THEN 1 ELSE breaks[n - 1] + 1, breaks[n] - 1)]

ReadFrame(reader, frame) ==
  LET lines == Lines(frame)
      read[k \in 0 .. Len(lines)] ==
        IF k = 0 THEN reader ELSE ReadLine(read[k - 1], lines[k])
  IN  read[Len(lines)]

\* Reads the first whole frame of the buffer, if there is one.
ReadFirst(reader) ==
  LET at == Separators(reader.buffer)
      rest == SubSeq(reader.buffer, First(at) + 2, Len(reader.buffer))
  IN  IF at = {} \/ reader.state # "reading" THEN reader
      ELSE [ReadFrame(reader, SubSeq(reader.buffer, 1, First(at) - 1))
              EXCEPT !.buffer = rest]

\* Mutant: reads each chunk by itself.
Feed_NoBuffer(reader, chunk) ==
  LET drain[k \in 0 .. Len(chunk)] ==
        IF k = 0 THEN [reader EXCEPT !.buffer = chunk]
        ELSE ReadFirst(drain[k - 1])
  IN  drain[Len(chunk)]

\* One turn of the loop: the chunk joins the buffer, and every whole frame in the
\* buffer is read.
Feed(reader, chunk) ==
  LET whole == reader.buffer \o chunk
      drain[k \in 0 .. Len(whole)] ==
        IF k = 0 THEN [reader EXCEPT !.buffer = whole]
        ELSE ReadFirst(drain[k - 1])
  IN  drain[Len(whole)]

\* _consume_openai_sse: what is left in the buffer at the end is dropped.
Consume(chunks) ==
  LET fed[k \in 0 .. Len(chunks)] ==
        IF k = 0 THEN Reader ELSE Feed(fed[k - 1], chunks[k])
  IN  fed[Len(chunks)]
==============================================================================
