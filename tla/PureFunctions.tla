----------------------------- MODULE PureFunctions -----------------------------
(***************************************************************************)
(* The gateway's functions without state, tried on every input up to a     *)
(* length: the Zclaw codec, the Gemini translations and the engine's       *)
(* reading of a stream, the deduplicator and the lossy passes.             *)
(* An input grows by one element at a time; the invariants call the        *)
(* functions.  The subject "conversation" has no input: its state is that  *)
(* of Compaction, whose actions take its steps.                            *)
(***************************************************************************)
EXTENDS SseStreams, Zclaw, TextPasses, Compaction

CONSTANTS
  Elements,  \* by subject, what an input is made of
  MaxLength, \* bound: by subject, how many elements an input has
  Configs,   \* the settings of the lossy passes
  Queries    \* the queries they are given

ASSUME InputAssumption ==
  /\ "texts" \in DOMAIN Elements => \A t \in Elements["texts"] : IsFiniteSet(t)
  /\ "codec" \in DOMAIN Elements => Elements["codec"] \subseteq Seq(Byte)
  /\ "history" \in DOMAIN Elements =>
       \A m \in Elements["history"] :
         Len(m.calls) \in Nat /\ DOMAIN m.calls = 1 .. Len(m.calls)
  /\ "answer" \in DOMAIN Elements =>
       \A e \in Elements["answer"] : e.parts \in Seq(ToSet(e.parts))
  /\ "passes" \in DOMAIN Elements => \A t \in Elements["passes"] : t \in Seq(ToSet(t))
  /\ Configs \subseteq [eco : BOOLEAN, pruning : BOOLEAN, query : BOOLEAN,
                        aggression : None .. 3]

VARIABLES
  subject,   \* the function under trial
  input      \* its input so far

\* The settings of the compactor matter to a conversation only.
Init ==
  /\ subject \in DOMAIN Elements /\ input = <<>>
  /\ CompactionInit
  /\ subject # "conversation" =>
       setting = CHOOSE s \in [threshold : Thresholds, keep : KeptTurns] : TRUE

Grow ==
  /\ Len(input) < MaxLength[subject]
  /\ \E e \in Elements[subject] : input' = Append(input, e)
  /\ UNCHANGED <<subject, vars>>

Converse == subject = "conversation" /\ CompactionNext /\ UNCHANGED <<subject, input>>

Next == Grow \/ Converse

Spec == Init /\ [][Next]_<<subject, input, vars>>

------------------------------------------------------------------------------
\* Storing data and reading it back is exact, every byte of the stored form is a
\* byte (indexes, lengths and the escape fit), and a stored form with one byte changed
\* or cut short raises and is never read as other data (storage/zclaw.py: "Round-trip
\* is exact by construction", and its length and digest checks).
CodecIsExact ==
  subject = "codec" =>
    LET data == FlattenSeq(input)
        blob == Encode(data)
        n == Len(blob.packed)
        changed == {[blob EXCEPT !.packed = ReplaceAt(@, k, b)] : k \in 1 .. n, b \in Byte}
        cut == {[blob EXCEPT !.packed = SubSeq(@, 1, k)] : k \in 0 .. n - 1}
    IN  /\ Decode(blob) = data
        /\ \A k \in 1 .. n : blob.packed[k] \in Byte
        /\ \A d \in changed \cup cut : Decode(d) \in {Raised, blob.digest}

\* The events of one Gemini answer: the finish reason comes with the last one.
OneAnswer == \A k \in 1 .. Len(input) - 1 : input[k].finish = "none"
WholeAnswer ==
  [parts |-> FlattenSeq([k \in DOMAIN input |-> input[k].parts]),
   finish |-> input[Len(input)].finish]

\* The events that hold calls.
CallEvents == {k \in DOMAIN input : Calls(input[k].parts) # <<>>}

\* Where a client that assembles the translated stream gets what the same answer
\* translated whole says, and where not.  It gets the same texts in the same order,
\* but the whole has a line break between each two of them.  It gets the same calls,
\* each in one delta, exactly if one event holds them all: every event numbers its calls
\* from 0, and calls of two events are merged into one.  It gets the same finish
\* reason exactly if the answer was cut off, calls nothing, or calls in the event that
\* ends it (translate_response and translate_stream_chunk; design of the routing: "the
\* final assembled tool call is identical").
StreamAgreesWithResponse ==
  subject = "answer" /\ input # <<>> /\ OneAnswer =>
    LET streamed == Assembled(StreamChunks(input))
        whole == TranslateResponse(WholeAnswer)
    IN  /\ streamed.text = Texts(whole.text)
        /\ streamed.text = whole.text <=> Len(streamed.text) <= 1
        /\ streamed.calls = [k \in DOMAIN whole.calls |-> [deltas |-> 1, of |-> whole.calls[k]]]
             <=> \A j, k \in CallEvents : j = k
        /\ WholeAnswer.finish \notin {"none", "blocked"} =>
             (streamed.finish = whole.finish
                <=> \/ WholeAnswer.finish = "MAX_TOKENS" \/ CallEvents = {}
                    \/ Len(input) \in CallEvents)

\* Gemini's lines: a blank one after each event, the last of which may be missing.
EventLines(blankEnd) ==
  FlattenSeq([k \in DOMAIN input |->
    IF k = Len(input) /\ ~blankEnd THEN <<<<input[k]>>>> ELSE <<<<input[k]>>, <<>>>>])

\* The first chunk has `first` bytes, the others `size`.
Cut(bytes, first, size) ==
  LET n == (Len(bytes) - first + size - 1) \div size
  IN  <<Slice(bytes, 1, first)>>
      \o [k \in 1 .. n |-> Slice(bytes, first + 1 + (k - 1) * size, size)]

\* The engine gets the whole text of a streamed answer, however the network cuts
\* the bytes and whether or not the last event is closed, and of a stream that ends
\* early a beginning: nothing is invented, repeated or taken from half a frame
\* (_consume_openai_sse over stream_generate_content).
EngineReadsWhatArrived ==
  subject = "answer" /\ input # <<>> /\ OneAnswer =>
    LET text == Texts(WholeAnswer.parts)
        bytes(blankEnd) == GeminiFrames(EventLines(blankEnd))
    IN  /\ \A blankEnd \in BOOLEAN, size \in 1 .. 9 : \A first \in 1 .. size :
             LET reader == Consume(Cut(bytes(blankEnd), first, size))
             IN  reader.state = "done" /\ reader.text = text
        /\ \A k \in 0 .. Len(bytes(TRUE)) - 1 :
             LET reader == Consume(Cut(SubSeq(bytes(TRUE), 1, k), 0, 4))
             IN  reader.state \in {"reading", "done"} /\ IsPrefix(reader.text, text)

\* Gemini sees every turn once and in order, the system text apart, and a tool's
\* result under the name of the call that it answers; the first call with the id
\* where a client gave an id twice (translate_request).
HistoryIsKept ==
  subject = "history" =>
    LET request == TranslateRequest(input)
        place == Ascending({k \in DOMAIN input : ~IsSystem(input[k])})
    IN  /\ Len(request.contents) = Len(place)
        /\ \A n \in DOMAIN place :
             LET m == input[place[n]] IN
               /\ (request.contents[n].role = "model") <=> (m.role = "assistant")
               /\ m.role = "tool" =>
                    \A k \in DOMAIN input : \A c \in DOMAIN input[k].calls :
                      /\ input[k].calls[c].id = m.id
                      /\ \A j \in 1 .. k - 1 : \A d \in DOMAIN input[j].calls :
                           input[j].calls[d].id # m.id
                      /\ \A d \in 1 .. c - 1 : input[k].calls[d].id # m.id
                      => request.contents[n].answers = input[k].calls[c].name

\* Following the pointers of collapsed texts ends at a text that is kept, and each
\* one is close enough to the text it points to; a text without a close earlier one
\* is kept (semantic_dedup.collapse).
PointersReachKeptText ==
  subject = "texts" =>
    LET pointer == Collapse(input)
    IN  \A i \in DOMAIN input :
          /\ pointer[i] < i
          /\ pointer[i] # 0 => AtThreshold(Similarity(input[i], input[pointer[i]]))
          /\ pointer[i] = 0 =>
               \A j \in 1 .. i - 1 : ~(Similarity(input[i], input[j]).num > 0
                                       /\ AtThreshold(Similarity(input[i], input[j])))

\* A text holds the words of another one in the same order, some left out.
Subsequence(part, whole) ==
  \E places \in SUBSET DOMAIN whole :
    Cardinality(places) = Len(part) /\ part = Selected(whole, places)

\* What a text says apart from fillers, and how it is divided: its gaps, each with the
\* word that opens the paragraph behind it.
Says(text, fillers) ==
  Selected(text, {k \in DOMAIN text : text[k] \notin fillers \cup {Gap}})
Outline(text) ==
  Selected(text, {k \in DOMAIN text : text[k] = Gap \/ k = 1 \/ text[k - 1] = Gap})

\* The lossy passes do nothing unless they are asked for, and whatever they are asked
\* for they only leave out: nothing is added or reordered.  Trimming leaves out no more
\* than fillers and the gaps behind them, pruning alone leaves every paragraph and the
\* word it opens with, and of a text that says anything but fillers something is left
\* (core/lossy_passes.py, apply_lossy_passes).
PassesOnlyDrop ==
  subject = "passes" =>
    \A config \in Configs, query \in Queries :
      LET text == FlattenSeq(input)
          result == ApplyLossyPasses(text, config, query)
          trims == config.eco /\ config.aggression # None
          fillers == IF trims THEN Fillers[config.aggression] ELSE {}
      IN  /\ config.aggression = None \/ ~(config.eco \/ config.pruning \/ config.query)
             => result = text
          /\ Subsequence(result, text)
          /\ ~config.pruning /\ ~config.query => Says(result, fillers) = Says(text, fillers)
          /\ ~config.eco /\ ~config.query => Outline(result) = Outline(text)
          /\ Says(text, fillers) # <<>> => Says(result, {}) # <<>>
==============================================================================
