-------------------------------- MODULE Gateway --------------------------------
(***************************************************************************)
(* The proxy routes of proxy/server.py and the engine's completion calls,  *)
(* over one httpx client: the cache boundary of a conversation is frozen   *)
(* or verified, the model is routed to a provider, the request relayed and *)
(* the provider's status checked before the client hears of a success.     *)
(*                                                                         *)
(* A request's handler runs without a break from the moment its body is    *)
(* read to the moment it asks for a connection: Handle is one step.  The   *)
(* boundaries live in memory and die with the process.                     *)
(*                                                                         *)
(* A body is a record of the route it is sent to ("chat", "messages", or   *)
(* "engine" for GatewayCompletionFn), its model, messages, tools and       *)
(* whether it is streamed; the system blocks of a "messages" body are its  *)
(* leading system messages.  No text is empty.                             *)
(***************************************************************************)
EXTENDS GeminiTranslation

CONSTANTS
  Requests,        \* bound: the requests in flight at once
  Headers,         \* the values of the x-conversation-id header but "default"
  NoHeader,        \* the client sends none
  Default,         \* "default"
  Bodies,          \* the bodies clients send
  ModelRoutes,     \* ProvidersConfig.model_routes
  DefaultProvider, \* ProvidersConfig.default_provider
  WireShape,       \* by provider with an entry: "openai_compatible" or "gemini"
  PoolSize,        \* max_connections of the httpx client
  MaxRestarts,     \* bound: how often the process dies
  NoPrefix         \* no boundary registered

ASSUME GatewayAssumption ==
  /\ NoHeader \notin Headers /\ Default \notin Headers
  /\ PoolSize \in Nat \ {0} /\ MaxRestarts \in Nat
  /\ \A b \in Bodies :
       /\ b.api \in {"chat", "messages", "engine"}
       /\ b.api = "messages" => b.stream = FALSE
       /\ b.api = "engine" => b.stream = TRUE

Conversations == Headers \cup {Default}

VARIABLES
  frozen,   \* BoundaryGuard._boundaries
  slot,     \* the requests in flight, their answers and their connections
  restarts, \* deaths of the process so far
  judged,   \* history: header and prefix of every request the guard let pass
  sent      \* history: what the provider saw as prefix of every guarded request

vars == <<frozen, slot, restarts, judged, sent>>

Free == [pc |-> "free"]

\* pc: "received" until the handler runs, "queued" for a connection, "waiting" for
\* the provider's status, "streaming" its answer, "answered".
\* conn: "none", "open" or "closed"; upstream: what the provider did so far.
Busy(header, b) ==
  [pc |-> "received", header |-> header, body |-> b, conn |-> "none",
   upstream |-> "none", status |-> "none"]

Init ==
  /\ frozen = [c \in Conversations |-> NoPrefix]
  /\ slot = [r \in Requests |-> Free]
  /\ restarts = 0 /\ judged = {} /\ sent = {}

------------------------------------------------------------------------------
\* The place of the first message that is no system message.
FirstTurn(messages) ==
  CHOOSE n \in 1 .. Len(messages) + 1 :
    /\ n <= Len(messages) => ~IsSystem(messages[n])
    /\ \A k \in 1 .. n - 1 : IsSystem(messages[k])

\* extract_frozen_prefix of both adapters: the lines of the leading system
\* messages and the tools.  Where one message ends is not in it.
Prefix(b) ==
  Joined([k \in 1 .. FirstTurn(b.messages) - 1 |-> b.messages[k].text]) \o b.tools

\* Mutant: the header is not read.
Conversation_Shared(header) == Default

\* request.headers.get("x-conversation-id", "default").
Conversation(header) == IF header = NoHeader THEN Default ELSE header

\* Mutant: every prefix becomes the boundary.
Conflict_Never(conv, prefix) == FALSE

\* BoundaryGuard.register_or_verify raises.
Conflict(conv, prefix) == frozen[conv] \notin {NoPrefix, prefix}

\* ProviderRegistry.resolve: an unmapped model goes to the default provider.
Provider(model) ==
  IF model \in DOMAIN ModelRoutes THEN ModelRoutes[model] ELSE DefaultProvider

\* A provider without an entry makes resolve raise; /v1/messages asks no registry.
Resolves(b) == b.api = "messages" \/ Provider(b.model) \in DOMAIN WireShape

Shape(b) == IF b.api = "messages" THEN "anthropic" ELSE WireShape[Provider(b.model)]

\* What the provider sees as instructions and tools.
UpstreamPrefix(b) ==
  IF Shape(b) = "gemini" THEN TranslateRequest(b.messages).system \o b.tools
  ELSE Prefix(b)

\* A system message after the first turn, on its way to Gemini.
Hoisted(b) ==
  /\ Shape(b) = "gemini"
  /\ \E k \in FirstTurn(b.messages) .. Len(b.messages) : IsSystem(b.messages[k])

Seen(header, b) ==
  [header |-> header, prefix |-> UpstreamPrefix(b), hoisted |-> Hoisted(b)]

Guarded(b) == b.api # "engine"

\* What the proofs ask of the bodies, evaluated by TLC on those of a run.
ASSUME PrefixAssumption ==
  \A b \in Bodies :
    /\ Prefix(b) # NoPrefix
    /\ Resolves(b) /\ ~Hoisted(b) => UpstreamPrefix(b) = Prefix(b)

Arrive(r) ==
  /\ slot[r].pc = "free"
  /\ \E b \in Bodies, header \in Headers \cup {NoHeader} :
       slot' = [slot EXCEPT ![r] = Busy(header, b)]
  /\ UNCHANGED <<frozen, restarts, judged, sent>>

Answered(r, status, upstream) ==
  [slot[r] EXCEPT !.pc = "answered", !.status = status, !.upstream = upstream,
                  !.conn = IF @ = "open" THEN "closed" ELSE @]

\* chat_completions, messages and GatewayCompletionFn up to the call of the
\* client: the guard (409), the registry (400), the translation (400).
Handle(r) ==
  LET conv == Conversation(slot[r].header)
      b == slot[r].body
      conflict == Guarded(b) /\ Conflict(conv, Prefix(b))
  IN  /\ slot[r].pc = "received"
      /\ slot' = [slot EXCEPT ![r] =
           IF conflict THEN Answered(r, "conflict", "none")
           ELSE IF \/ ~Resolves(b)
                   \/ Shape(b) = "gemini" /\ ~Translatable(b.messages)
           THEN Answered(r, "rejected", "none")
           ELSE [@ EXCEPT !.pc = "queued"]]
      /\ IF Guarded(b) /\ ~conflict
         THEN /\ frozen' = [frozen EXCEPT ![conv] = Prefix(b)]
              /\ judged' = judged \cup {<<slot[r].header, Prefix(b)>>}
         ELSE UNCHANGED <<frozen, judged>>
      /\ UNCHANGED <<restarts, sent>>

------------------------------------------------------------------------------
Open == {r \in Requests : slot[r].pc # "free" /\ slot[r].conn = "open"}

\* Mutant: the client is made without limits.
Send_NoLimit(r) ==
  /\ slot[r].pc = "queued"
  /\ slot' = [slot EXCEPT ![r] = [@ EXCEPT !.pc = "waiting", !.conn = "open"]]
  /\ sent' = IF Guarded(slot[r].body)
             THEN sent \cup {Seen(slot[r].header, slot[r].body)} ELSE sent
  /\ UNCHANGED <<frozen, restarts, judged>>

\* The client's pool has room: the request goes out.
Send(r) ==
  /\ slot[r].pc = "queued"
  /\ Cardinality(Open) < PoolSize
  /\ slot' = [slot EXCEPT ![r] = [@ EXCEPT !.pc = "waiting", !.conn = "open"]]
  /\ sent' = IF Guarded(slot[r].body)
             THEN sent \cup {Seen(slot[r].header, slot[r].body)} ELSE sent
  /\ UNCHANGED <<frozen, restarts, judged>>

\* Mutant: the client is made with timeout=None.
Break_NoTimeout(r) == FALSE

\* request_timeout_s or a broken connection, also while the request waits for the
\* pool: nothing catches httpx's error, the client sees a 500 or a cut stream.
Break(r) ==
  /\ slot[r].pc \in {"queued", "waiting", "streaming"}
  /\ slot' = [slot EXCEPT ![r] =
       Answered(r, IF slot[r].pc = "streaming" THEN "cut" ELSE "failed", "broken")]
  /\ UNCHANGED <<frozen, restarts, judged, sent>>

\* Mutant: a stream is answered before its status is known.
Refuse_Late(r) ==
  /\ slot[r].pc = "waiting"
  /\ slot' = [slot EXCEPT ![r] =
       Answered(r, IF slot[r].body.stream THEN "ok" ELSE "refused", "refused")]
  /\ UNCHANGED <<frozen, restarts, judged, sent>>

\* Mutant: a refused stream is not closed.
Refuse_LeaveOpen(r) ==
  /\ slot[r].pc = "waiting"
  /\ slot' = [slot EXCEPT ![r].pc = "answered", ![r].status = "refused",
                          ![r].upstream = "refused",
                          ![r].conn = IF slot[r].body.stream THEN @ ELSE "closed"]
  /\ UNCHANGED <<frozen, restarts, judged, sent>>

\* The provider's error status: the response is read and closed, and its status is
\* the client's, streamed or not.
Refuse(r) ==
  /\ slot[r].pc = "waiting"
  /\ slot' = [slot EXCEPT ![r] = Answered(r, "refused", "refused")]
  /\ UNCHANGED <<frozen, restarts, judged, sent>>

\* A successful status: a stream begins, another answer is parsed and handed on.
Accept(r) ==
  /\ slot[r].pc = "waiting"
  /\ slot' = [slot EXCEPT ![r] =
       IF slot[r].body.stream
       THEN [@ EXCEPT !.pc = "streaming", !.status = "ok", !.upstream = "ok"]
       ELSE Answered(r, "ok", "ok")]
  /\ UNCHANGED <<frozen, restarts, judged, sent>>

\* A successful status with a body that is no JSON: the Gemini branch takes the
\* ValueError for a bad request, elsewhere nothing catches it.
Garble(r) ==
  /\ slot[r].pc = "waiting" /\ ~slot[r].body.stream
  /\ slot' = [slot EXCEPT ![r] =
       Answered(r, IF Shape(slot[r].body) = "gemini" THEN "rejected" ELSE "failed",
                "garbled")]
  /\ UNCHANGED <<frozen, restarts, judged, sent>>

\* The generator is exhausted: its finally closes the response.
StreamEnds(r) ==
  /\ slot[r].pc = "streaming"
  /\ slot' = [slot EXCEPT ![r] = Answered(r, "ok", "ok")]
  /\ UNCHANGED <<frozen, restarts, judged, sent>>

\* Nobody takes the generator's next chunk any more: the client went away, or
\* _consume_openai_sse returned at [DONE].
Abandon(r) ==
  /\ slot[r].pc = "streaming"
  /\ slot' = [slot EXCEPT ![r] = [@ EXCEPT !.pc = "answered"]]
  /\ UNCHANGED <<frozen, restarts, judged, sent>>

\* The loop finalizes an abandoned generator, which runs its finally.
Finalize(r) ==
  /\ slot[r].pc = "answered" /\ slot[r].conn = "open" /\ slot[r].status = "ok"
  /\ slot' = [slot EXCEPT ![r] = [@ EXCEPT !.conn = "closed"]]
  /\ UNCHANGED <<frozen, restarts, judged, sent>>

Leave(r) ==
  /\ slot[r].pc = "answered" /\ slot[r].conn # "open"
  /\ slot' = [slot EXCEPT ![r] = Free]
  /\ UNCHANGED <<frozen, restarts, judged, sent>>

\* The process dies and starts again without boundaries, requests or connections.
Restart ==
  /\ restarts < MaxRestarts
  /\ restarts' = restarts + 1
  /\ frozen' = [c \in Conversations |-> NoPrefix]
  /\ slot' = [r \in Requests |-> Free]
  /\ judged' = {} /\ sent' = {}

Step(r) ==
  \/ Arrive(r) \/ Handle(r) \/ Send(r) \/ Break(r) \/ Refuse(r) \/ Accept(r)
  \/ Garble(r) \/ StreamEnds(r) \/ Abandon(r) \/ Finalize(r) \/ Leave(r)

Next == Restart \/ \E r \in Requests : Step(r)

\* The event loop runs a ready handler and finalizes generators, the client's timer
\* fires, a stream that flows ends.  Providers need not answer, pools need not
\* have room.
Fairness ==
  \A r \in Requests :
    WF_vars(Handle(r)) /\ WF_vars(Finalize(r)) /\ WF_vars(Break(r))

Spec == Init /\ [][Next]_vars

FairSpec == Spec /\ Fairness

------------------------------------------------------------------------------
SlotType ==
  {Free} \cup
  [pc : {"received", "queued", "waiting", "streaming", "answered"},
   header : Headers \cup {NoHeader}, body : Bodies, conn : {"none", "open", "closed"},
   upstream : {"none", "ok", "refused", "garbled", "broken"},
   status : {"none", "ok", "conflict", "rejected", "refused", "failed", "cut"}]

\* Shapes of the state, and the pool is never overdrawn.
GatewayTypeOK ==
  /\ frozen \in [Conversations -> {NoPrefix} \cup {Prefix(b) : b \in Bodies}]
  /\ slot \in [Requests -> SlotType]
  /\ restarts \in 0 .. MaxRestarts
  /\ judged \subseteq (Headers \cup {NoHeader}) \X {Prefix(b) : b \in Bodies}
  /\ sent \subseteq {Seen(h, b) : h \in Headers \cup {NoHeader},
                            b \in {x \in Bodies : Resolves(x)}}
  /\ Cardinality(Open) <= PoolSize

\* Every provider sees the same instructions and tools in all requests of one
\* conversation that one process relays, whichever provider serves them and in
\* whatever order the requests of several clients arrive.
PrefixStable ==
  \A x, y \in sent : x.header = y.header => x.prefix = y.prefix

\* PrefixStable as far as it holds: system messages after the first turn may go
\* to any provider but Gemini.
GuardedPrefixStable ==
  \A x, y \in sent :
    x.header = y.header /\ ~x.hoisted /\ ~y.hoisted => x.prefix = y.prefix

\* A 409 is never another conversation's fault: the process let pass another prefix
\* of this one before.
ConflictsAreTrue ==
  \A r \in Requests :
    slot[r].pc # "free" /\ slot[r].status = "conflict" =>
      \E j \in judged : j[1] = slot[r].header /\ j[2] # Prefix(slot[r].body)

\* A client hears of a success only after the provider's, hears the provider's
\* refusal as such, and nothing was sent for a request the guard refused.
TruthfulStatus ==
  \A r \in Requests :
    slot[r].pc # "free" =>
      /\ slot[r].status \in {"ok", "cut"} => slot[r].upstream \in {"ok", "broken"}
      /\ slot[r].upstream = "refused" => slot[r].status = "refused"
      /\ slot[r].status = "conflict" => slot[r].conn = "none"

\* Every connection goes back to the pool, after an error, after a stream nobody
\* reads to its end, after a timeout.
ConnectionsClose ==
  \A r \in Requests :
    slot[r].pc # "free" /\ slot[r].conn = "open"
      ~> slot[r].pc = "free" \/ slot[r].conn # "open"

\* Every request is answered, however long the pool is full or the provider silent.
EveryRequestAnswered ==
  \A r \in Requests :
    slot[r].pc # "free" ~> slot[r].pc \in {"answered", "free"}
==============================================================================
