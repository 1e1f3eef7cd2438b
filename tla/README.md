# TLA+ for the agent gateway

These modules model the parts of the gateway whose correctness depends on order,
failure, concurrency or the shape of data: the durable playbook orchestrator in
`agent_gateway/orchestrator/` (as `agent_gateway/proxy/server.py` starts, recovers and
serves it), the event stream and the run pages that follow a run, the editor that draws,
checks, saves and runs a playbook, the proxy routes with the cache boundary and the
provider adapters, what an agent loop keeps outside its prompt, the compaction of its
history, and the functions of text that hold no state (codec, translation,
deduplication, lossy passes). TLC checks small instances; TLAPS proves the theorems
listed below for every value of the constants. Paths are relative to `src/`, and files
without a directory are in `agent_gateway/`; "the design document" is
`docs/superpowers/specs/2026-09-14-visual-playbook-builder-design.md`, "the routing
design" `docs/superpowers/specs/2026-09-14-multi-provider-routing-design.md`.

To check: `tlc -config <cfg> <module>` for a row of the table of runs below, and
`tlapm <module>` for each of `PlaybookEngineProofs`, `PlaybookDriverProofs`,
`PlaybookOutcomeProofs`, `RunStreamProofs`, `PlaybookEditorProofs`, `GatewayProofs`,
`ContextStoreProofs` and `TextProofs`.

## Inventory

| Component | State | Operations | Hard because | Correct when |
|---|---|---|---|---|
| Durable store (`orchestrator/store.py`, `storage/sqlite_store.py`) | rows of playbooks, runs, step records, gate decisions, blackboard, artifacts | one SQL statement per call, each its own transaction | a crash falls between any two statements | rows agree with each other after every commit |
| Run engine (`orchestrator/engine.py`) | locals of request handlers and background tasks | `start_run`, `_execute`, `_advance`, `_run_teammate_step`, `_pause_at_gate`, `_complete_step_and_continue`, `resume_with_decision`, `recover_interrupted_runs` | coroutines interleave at model calls and spawns; crash, restart, duplicate and late decisions | no gate is bypassed, one driver per run, final outcomes, every run pauses or ends |
| HTTP API (`orchestrator/routes.py`) | none of its own | create, replace, run, decide, snapshot, stream | a stored definition changes under a run | a run whose playbook is replaced (a decision goes on with what is stored by then) keeps a consistent frontier; a paused run can be decided |
| Startup (`proxy/server.py` lifespan, `orchestrator/seed.py`) | `playbooks_by_id`, the recovery task | seed, list, spawn recovery, cancel at shutdown | recovery runs beside requests | every interrupted run is taken up again, by one driver |
| Event bus and stream (`orchestrator/events.py`, `routes.stream_run_events`) | one queue per run | publish, subscribe, close | nothing is buffered or replayed; a second subscriber replaces the first | no subscriber waits for a frame that was sent before it came; no queue outlives its owner |
| Compiler (`orchestrator/compiler.py`) | none | canvas to step chain | must agree with the frontend's own validation | accepts chains and nothing else |
| Frontend run pages (`frontend/lib/sse`, `frontend/lib/run`) | snapshot and received frames per tab | load, connect, derive gate, decide | snapshot and frames are read at different times | a gate reaches the page; only a gate the run waits at is shown |
| Frontend builder (`frontend/lib/canvas`, `frontend/lib/store`, editor page) | nodes, edges, last saved text, timer | add, connect, remove, debounced save, run | answers of saves out of order | what is shown as saved is stored; what is run is what is shown |
| Cache boundary (`core/cache_boundary.py`) | prefix per conversation, in memory | register or verify, forget | concurrent first requests; frozen before the request succeeds; lost at a restart | one prefix per conversation and process reaches the providers; nobody is accused falsely |
| Proxy routes and routing (`proxy/server.py`, `core/provider_routing.py`) | requests in flight, one pooled HTTP client | `chat_completions`, `messages`, `resolve` | one pool for all; refusals, time-outs, broken connections, clients that leave | statuses are the provider's, connections come back, every request is answered |
| Provider adapters (`adapters/`) | none | extract the prefix, translate to and from Gemini, relay a stream, close it | streams are cut anywhere; calls and results are matched by id | a stream says what the whole answer would say; no turn of a history is lost |
| Masking, artifacts (`core/observation_masking.py`, `core/branch_collapse.py`, `storage/sqlite_store.py`) | artifacts table with read counts | `mask`, put, get, statistics | masks are cut short and repeated; equal outputs share a row | every receipt resolves and never changes; counts are reads |
| Guardrails and registry (`core/guardrails.py`, `core/blackboard.py`) | do-not-retry table; counters in memory | `check_all`, `record_turn`, `block_retry` | counters die with the process, the table does not | a blocked action is never taken; spending is bounded |
| Compaction (`core/compaction.py`) | none of its own: the loop keeps the suffix of turns that `maybe_compact` gives back | `maybe_compact` | repeated compaction of summaries | every turn is covered once, higher levels are older |
| Zclaw codec (`storage/zclaw.py`) | none | encode, decode | one-byte references share a byte with the escape | decode inverts encode, damage is detected |
| Deduplication, lossy passes (`core/semantic_dedup.py`, `core/lossy_passes.py`) | none | deduplicate, apply passes | pointers to texts that became pointers; passes in a row | pointers reach kept text; a pass only drops |
| Tier routing, tool pruning, settings, metrics, logging | little or none | look-ups, sums, formatting | little that a unit test does not reach | |

Interactions: the API handlers and the startup code call the engine; the engine
writes the store, calls the model through `self.complete`, and publishes on the bus;
the stream endpoint reads the store once and then the bus; a browser tab reads a
snapshot, then the stream, and posts decisions back to the API; the editor puts
canvases, which the API compiles and stores, and starts runs of what is stored. The
proxy routes and the engine's model calls share one HTTP client. Masking, guardrails
and compaction are a library: `benchmarks/runner.py` calls parts of it, the tests the
rest, and the server imports some of it and calls none.

What runs at the same time: one asyncio loop serves everything. Store calls are
synchronous and commit one by one, so a coroutine gives the loop up only when it
awaits the model, when it was spawned and has not started, when it waits for a
queue, or when an HTTP response is written. The process may die between any two
commits. Browser tabs and their requests are concurrent with all of it.

## Modules

| Module | Models | Extends |
|---|---|---|
| `OrchestratorStore` | the rows, and one operator per statement of `store.py` the engine issues | |
| `PlaybookEngine` | the engine, the requests that start, decide and replace, crash, startup, recovery | `OrchestratorStore` |
| `RunStream` | event bus, stream endpoint, run pages, composed with the engine | `PlaybookEngine` |
| `PlaybookCompiler` | `compile_canvas` and `validateChain` as predicates, the compiled steps, and what a chain is without an algorithm | |
| `PlaybookEditor` | a playbook between an API client, the server and one editor page | `PlaybookCompiler` |
| `ReviewedRuns` | abstract: runs as a client of the API sees them | |
| `EngineRefinement` | the mapping of the engine's rows to `ReviewedRuns` | `PlaybookEngine` |
| `GeminiTranslation` | `translate_request`, `translate_response`, `translate_stream_chunk` of the Gemini adapter | `Selections` |
| `SseStreams` | the engine's reader of a stream that arrives in pieces, and what a client makes of one | `GeminiTranslation` |
| `Gateway` | the proxy routes: cache boundary, routing, pool, upstream failures, streams, restart | `GeminiTranslation` |
| `ContextStore` | masking, artifacts, do-not-retry registry, circuit breakers of an agent loop | |
| `Selections` | `sorted()` and the comprehensions that keep some elements of a list | |
| `Zclaw`, `TextPasses` | the codec; deduplication and lossy passes | `Selections` |
| `Compaction` | a conversation to which turns are added and which `maybe_compact` shortens | `Selections` |
| `PureFunctions` | a state machine whose state is an input that grows, to try the modules of functions | `SseStreams`, `Zclaw`, `TextPasses`, `Compaction` |
| `MC...` | constant values and symmetry for TLC | the module of that name |
| `PlaybookEngineProofs`, `PlaybookEditorProofs`, `GatewayProofs`, `ContextStoreProofs` | theorems and proofs | the module of that name |
| `PlaybookDriverProofs` | more theorems about the engine, from who may act on a run; the refinement of `ReviewedRuns` | `EngineRefinement`, `PlaybookEngineProofs` |
| `PlaybookOutcomeProofs` | theorems on how a run's row and records agree | `PlaybookDriverProofs` |
| `RunStreamProofs` | the stream and the pages implement the engine; the queues | `RunStream`, `PlaybookDriverProofs` |
| `TextProofs` | theorems about the functions of text and the compaction | `PureFunctions` |

`Selections` stands in for `SelectSeq` and `SortSeq` of the libraries, which take an
operator and which the provers therefore cannot open.

A definition whose name has the form `Action_Variant` and whose comment starts with
"Mutant" is the action with a plausible slip in it. It is part of no specification:
it stands beside the action so that a property can be seen to fail when the slip
takes the action's place; helpers (`MaxDictEntries_TooMany`) have some too.

### Store and engine

`run`, `record`, `gateDecisions`, `blackboard` and `definition` are the tables; a
record "missing" is a row that does not exist. An output is one of a few marks: none,
what the model said, what a reviewer wrote. A definition is the sequence of its step
kinds; the kind "unrouted" is a teammate whose tier has no model (engine.py:151 raises
`KeyError`). `task` holds, for each coroutine, where it is (`pc`) and its locals: the
run, the step index, the definition it read, the prompt it sent. `active` is the
coroutine that holds the loop.

An action is what happens from one commit to the next. `Goto` keeps the loop,
`Suspend` gives it up, and only an idle loop resumes a coroutine (`Wakes`): that is
the whole scheduling of asyncio that matters here. `AtAdvance` and `AtContinue` say
that the same code is reached in sequence and as the first step of a spawned task.
`Crash` loses every coroutine and keeps every row; `Restart` is the lifespan: seed
the templates, read the playbooks once into `loaded`, and list the running runs
before any request is served. Runs are numbered in the order their rows are inserted
(`IsNextRow`), which is the order in which a scan of the table meets them (`IsFirst`):
`RecoverRun` takes them one after the other in that order; it runs
each with the playbooks read at startup, as the code does, and an exception in it
ends recovery (`RecoveryDies`). `shown` is no variable of the program: it records which
gates a reviewer has been shown, and a decision is posted only for such a gate.

`SerialReview = TRUE` restricts reviewers: no decision arrives for a run between
an accepted decision and the first step of the continuation it spawned. The code has
no such restriction, and `engine_rejectresumes` shows what happens without it. The
properties that hold regardless are checked with `SerialReview = FALSE`
(`engine_overlap`).

### Stream and run pages

A frame is put into the queue in the same step as the commit it reports: the queue is
unbounded and nothing awaits in between. `bus` is `EventBus._queues`, a connection's
`inbox` is its `asyncio.Queue`, `tab` is what the hook and `deriveGateInfo` keep. The
run page's `Render` also sets the engine's `shown`: in the composition a reviewer
learns of a gate from the page and from nowhere else. Token frames are left out, no
control depends on them.

### Compiler and editor

Positions, selection and the order in which nodes and edges are listed are left out;
the required texts of a node are one flag. The store's `nodes` and `edges` are `graph`;
`saved` is `lastSavedRef`; the 800 ms timer is the canvas it will send; `puts` are the
page's PUT requests, which the server may handle and the network may answer in any
order. `run` is the run in the dock: the steps the page labels its events with (`dock`), the
steps the server executes (`executed`), and whether the latest click that was saved is
still to start it, started it, or could not (`phase`). The page replaces the run only
when a start is answered: until then, and for good if the start or the save before it
fails, the dock keeps the run of an earlier click. `NoClick` keeps the Run button to one
click at a time. `Calm = TRUE` restricts the user to edits while no request is in
flight; `Lossy` says at which point a request may be lost: "sent" before the server
saw it, "accepted" after. Before the page opens, an API client writes any canvas,
since the server takes canvases the editor would not draw, among them an edge to a node
that does not exist (`Ghost`).

### Gateway

A slot is one request from arrival to the end of its connection: `pc` says where it
is, `conn` what became of its connection, `upstream` what the provider did, `status`
what the client was told. `Handle` is one step because the handlers never give the
loop up between the reading of the body and the call of the HTTP client; the guard,
the registry and the translation happen in it, in this order, so a request that is
refused later has frozen the prefix already. `Send` takes a connection if the pool has
one, `Break` is every time-out and broken connection, at any stage, `Refuse`, `Accept`
and `Garble` are the provider's answers, `Abandon` and `Finalize` the stream nobody
reads on. `Leave` only frees the slot for another request. `judged` and `sent` are
histories: what the guard let pass and what providers then saw. A prefix is the
sequence of lines the adapters join, so that where one system message ends does not
show in it, as in the code.

A request of the engine (`GatewayCompletionFn`) passes no guard but shares the pool.
The answer of a provider is not interpreted here; what the adapters make of answers is
in `GeminiTranslation` and `SseStreams`.

### Context store

The caller is an agent loop as the interface intends it: `Check` before a turn,
`RecordTurn` after it, `Block` when the action failed, `Mask` before the next prompt,
`Rehydrate` for what a receipt stands for, over a store that outlives the process. No loop
in the repository does all of it: `benchmarks/runner.py` masks, checks and records over a
store in memory and never blocks, rehydrates or restarts; the tests do, one call at a
time. A mask stores
one artifact per step (`MaskNext`), each its own transaction, so a crash falls between
any two. A reference is a digest of the output and is modelled as the output; outputs
of different conversations share rows. `seen` is no variable of the program: it
remembers every receipt a prompt held, every read, every blocked action and every
turn over all lives of the process, which is what the properties compare the tables
with.

### Functions of text

`PureFunctions` picks one subject and lets its input grow by one element per step; each
invariant calls the function on the input and compares the result with what is promised
of it. The codec works on real bytes of a small alphabet (byte values 0 to 3, 3 the
escape; the dictionary limit and the n-gram lengths shrink with it). A text of the
deduplicator is the set of its shingles; one of the lossy passes is a sequence of words,
of the stops that end sentences and of the gaps between paragraphs, with a filler phrase
as one word. The text of a Gemini answer is the sequence of its parts and of the line
breaks that are put between them.

`Compaction` has a state of its own, the suffix of a conversation: a turn may be said
(`Say`) and the compactor called (`MaybeCompact`) at any time, so a compaction meets the
summaries of earlier ones. `PureFunctions` tries it as the subject "conversation"
(`Converse`), beside the functions. A turn is what it covers, its level and its size.

## What TLC checks

Each passing run is of one question; a violation run shows that a sentence of the
repository is not what the code does.

| Run | Specification and bounds | Question |
|---|---|---|
| `engine_serial` | `FairSpec`; one run of a five-step chain with two gates or a chain ending in a gate, two tasks, two crashes, three decisions per gate | do records, decisions, milestones, edits and prompts stay in step with the run through failures and crashes at any commit, does every run pause or end, can a paused run be decided, and is the whole what `ReviewedRuns` promises a client? |
| `engine_overlap` | same chains, one crash, reviewers unrestricted | can any order of duplicated, late and concurrent decisions get a run past a gate nobody approved, or count for a gate nobody was shown? |
| `engine_edits` | two runs of one playbook that is replaced, shortened, emptied and reseeded, one crash | is there one driver per run, a consistent frontier, no outcome undone and no index turned back when definitions change under a run? |
| `stream_page` | two tabs, two connections, a gated run, one crash | does the gate reach the page, is no closing frame lost, does a queue live and end with its owner, and is the whole an execution of the engine? |
| `editor_calm` | drafts of up to three nodes and edges, graphs of four nodes, two requests in flight | does the compiler accept exactly chains, does the editor agree with it, and is what the page takes for saved stored? |
| `engine_rejectresumes` | reviewers unrestricted | violation: a rejected run runs on |
| `engine_poison` | two runs, two crashes | violation: a run half created at the first crash stops the recovery of one that was created since and interrupted by the second |
| `pure_functions` | every input of a subject up to a length: four blocks of the codec, two events of an answer with every cut of its stream, four messages, four texts, five pieces of a text with a filler, stops and gaps; conversations of eight turns of two sizes with five compactions, two thresholds, none to two kept turns | does decoding invert encoding and detect damage, does a stream say what the whole answer says, do histories and texts keep what they must, and is every turn of a conversation covered once whenever it is compacted? |
| `gateway_routes` | `FairSpec`; two requests, one connection, one restart, eight bodies to two providers and one that does not exist, with and without a header | does the guard accuse nobody falsely and keep prefixes stable, are statuses true, does the pool get its connections back and every client an answer? |
| `context_store` | two conversations of three and two outputs, two outputs, one read each, one restart | do receipts resolve and stay, are counts reads, is a blocked action never taken, is spending bounded? |
| `gateway_hoist` | two requests to Gemini | violation: a system message added later changes the prefix Gemini sees |
| `compaction_linear` | the same conversations | violation: the number of summaries grows with every compaction |

Why the bounds are enough. A step of a run depends on the step before it and on the gate
it waits at, so five steps with two gates have every adjacency: teammate and teammate,
teammate and gate, gate and teammate, a gate in last place. Two tasks are a decision's
request and the continuation spawned by an earlier one, or two requests at once; with
two runs they compete with recovery. Two crashes let the second fall into the recovery
from the first, and interrupt a run that was created behind one a first crash left half
created. Two tabs are what it takes to replace a queue, two connections what it takes
for an old one to end after its successor began. Three drafted nodes hold each way a
canvas can fail to be a chain (no start, two starts, a fork, a cycle, a node aside, an
edge to nowhere), and a fourth lets the page extend one; two requests are enough for
answers out of order.

In the gateway a request interferes with another through a boundary and through the
pool; two requests over one connection show both, with the second queued behind the
first, and slots are used again, so a conversation sees any number of requests. In the
context store three outputs with a window of one leave two receipts and a mask that can
be cut between them; the second conversation shares their rows. For the functions the
lengths are the least at which each case occurs: a full dictionary with a candidate too
many, two events with text and calls each, a result whose id occurs twice, a text whose
best match is a pointer, a paragraph of fillers before one of two sentences. Five
compactions raise a summary four times over, with turns added between them.

The bounds in guards are `MaxCrashes`, `MaxDecisions` (accepted decisions per gate),
`MaxDraftNodes`, `MaxDraftEdges`, `MaxRestarts`,
`MaxObservations`, `MaxReads`, `MaxLength`, `MaxTurns`, `MaxCompactions`, `NoClick`, and the
sizes of `Runs`, `Tasks`, `Conns`, `Slots`.
Deadlock is not checked where every run may have ended and every bound been used, nor
in the context store, whose loop stops when its only action is blocked or a breaker is
open, nor where an input has its full length; it is checked in the editor, where
the user can always act, and in the gateway, where a request can always arrive or
break.

Symmetry is used in runs without liveness properties only, over identifiers that no
definition tells apart: where the compiler's rules choose one of several nodes, another
rule already refuses the canvas. Runs are told apart by their order and are not among them.

### Fairness

`Fairness` of the engine: a coroutine that can go on does, since the loop runs whatever
is ready; a model call ends, since the HTTP client has a timeout; a dead process is
started again (`restart: unless-stopped` in `deployment/docker-compose.yml`). Nothing is
assumed of users: a run may stay paused for ever, a decision may never be posted.
`StreamFairness` adds that the endpoint goes on and that a browser sends the requests it
has begun. `Connect` has strong fairness because `Conns` is a bound of the model: the
real server accepts a connection at any time, the model only when a slot is free.

`RunsSettle` speaks of runs that were fully created (`Whole`) and, in `engine_serial`, of
a system with one run: a run whose creation was cut short fails, and takes the
recovery of the runs inserted after it with it (`engine_poison`).

`Fairness` of the gateway: the loop runs a handler that is ready (`Handle`) and finalizes
a generator nobody holds (`Finalize`), the client's timer fires (`Break`). Providers
need not answer and the pool need not have room: `EveryRequestAnswered` holds because
the time-out covers waiting for the pool as well. A stream that flows for ever is
excluded with `Break`; an httpx time-out counts from the last piece.

### Refinement

`ImplementsReviewedRuns` in `engine_serial`: rows of the engine, read as a client
reads them, are an execution of `ReviewedRuns`, where a run passes one step at a time, a
gate only on the latest verdict about it, and ends once. Coroutines, records, the
half-created run, crashes and recovery map to stutters or to a failure. It needs
`SerialReview` and no PUT: overlapping decisions break it (`engine_rejectresumes`).

`EngineSpec` in `stream_page` is `Spec` of `PlaybookEngine` checked of `RunStream`: the
composed system, with real pages in the place of the abstract `ShowGate`, is an execution
of the engine alone. What is checked and proved of the engine under `ShowGate`
therefore holds with the pages, and the interesting part is that a page, whose
snapshot and frames are read at different times, shows no gate the run does not wait
at when it learns of it.

`AcceptsExactlyChains` compares the compiler's rules with a definition without an
algorithm (an order of all the nodes along their edges), and `MirrorAgrees` the
editor's rules with the compiler's.

## What is proved

All for any sets of runs, tasks, playbooks, nodes, requests, conversations, outputs and
any bounds, from the named assumptions on constants of each module.

- `Typing`: `Spec => []TypeOK`, which no run checks since it is proved. `TypeOK` alone
  is not inductive: that a coroutine's next statement has a row to write to depends on
  where the coroutine is. `TypeInv` adds `RowOK` for every task: one at work has a run
  and a definition, one that works on a step has a step that exists, one that creates
  records is within the definition.
- `GateSafety`: `PutDefinitions = {} => (Spec => []NoGateBypass)`. `GateInv` adds to
  `TypeInv` that the definition a coroutine carries is the stored one of its run's
  playbook, that `loaded` is what is stored, and that every gate before the index a
  coroutine works at, and a gate whose decision it carries, is approved. Decisions are
  only ever added, so an approval stays one; an index moves past a gate only from the
  statements that follow a stored approval. No assumption is made about the number
  or order of decisions, crashes or recoveries, nor about `SerialReview`. The
  hypothesis is needed because the property speaks of the stored definition: a PUT
  that inserts a gate before a run's index puts an undecided gate behind it.
- `DriverAgreement`, `Progress`, `FrontierHolds`, `DecisionsAreSingle`:
  `SerialReview => (Spec => []DriversAgree)`, and the same of `RunsOnlyAdvance` (an
  action property), `Frontier` and `OneDecisionPerGate`. The code has no lock on a run;
  what keeps two coroutines apart is what the run's row says, which `OwnInv` states:
  one at work finds its run "running", or "paused" between an accepted decision and the
  continuation; the step it works at is the run's; between those two it keeps the
  loop; and no run that recovery has listed and not reached has anybody. So whoever would
  take a run, a decision, recovery or a new request, reads a status that nobody at work
  leaves behind, but for the gap a spawned continuation leaves, which `SerialReview`
  closes and `engine_rejectresumes` walks through. `Progress` follows step by step.
  `FrontInv` adds to it that a coroutine past its own commit works at a completed step;
  `CountInv` that only the gate a run stands at can be decided, and again only if a
  crash lost the decision. No assumption on PUT: replaced playbooks are covered.
- `DecisionsWereSeen`: `Spec => []NoUnseenDecision`, with neither assumption.
- `Refinement`: `SerialReview /\ PutDefinitions = {} => (Spec => ImplementsReviewedRuns)`.
  Every step maps to a step of `ReviewedRuns` or leaves what a client reads. The
  invariant is the conjunction of those above and of `ReviewInv`: a coroutine acts on
  the latest decision about its step, a run is paused only at a gate, and a model is
  called only for a teammate. `CountInv` gives that nobody has decided a step before
  the run gets there, `GateInv` that a coroutine carries the stored definition.
- `OutcomesAgree`, `PausedRunsCanBeDecided`: `SerialReview /\ PutDefinitions = {} /\
  AllRouted` gives `Spec => []OutcomeAgrees`, and the same of `PausedRunCanBeDecided`.
  Both speak of runs nobody works on, so `OutcomeInv` says how they get there: records
  lie within the definition and so does the step a run is at; what a coroutine is about
  to commit of its run, its record says already; and the gate of a paused run awaits
  approval, unless a coroutine carries its stored decision out or a crash ended that one.
  `AllRouted`, every tier has a model, is needed for the first: a tier without one raises
  after the record was marked running (`engine.py:151`), the backstop of `_execute`
  fails the run and the record stays "running". The runs that check the two properties
  store no such tier either.
- `MilestonesAgree`: `SerialReview /\ PutDefinitions = {} => (Spec =>
  []MilestonesMatchSteps)`. The bound is not inductive: the milestone and the move to the
  next step are two commits, and a crash between them makes recovery store it again.
  `MilesInv` counts by where the run is: none ahead of it, and at the step it stands at no
  more than crashes, unless a coroutine is between the two commits (`Stored`). Only a
  crash loses that coroutine, and the crash pays for the milestone it leaves behind.
- `PromptsAreTrue`: the same hypotheses and `GatesReview` give `Spec =>
  []PromptsTellTheRun`. `EditInv` says that every completed teammate record behind a run
  holds an answer, and the edit where the gate after it was passed with one; that a
  continuation is spawned only once its edit reached that record; and that a prompt was
  assembled from records that said so. It needs `FrontInv`, by which the last completed
  record before a gate is that of the step right before it (`PreviousStep`), `ReviewInv`,
  by which the decision carried out is the one stored last, and `MilesInv`, by which
  a decided step is a gate. `GatesReview`, every gate follows a teammate or comes first, is
  needed: behind another gate `_previous_step_record` finds that gate's record and the
  teammate's keeps its answer. Every chain `engine_serial` runs is of that kind.
- `StreamImplementsEngine`, `QueuesFollowOwners`, `NobodyMissesTheEnd`:
  `SerialReview => (StreamSpec => EngineSpec)`, and the same of `QueueFollowsOwner` (an
  action property) and `[]NoLostTerminal`. The first is the refinement of `PlaybookEngine`
  by the composition: every step of the stream and the pages is a step of the engine, the
  showing of a gate, or a stutter. Its point is what a page shows. A `gate_paused` frame
  or a snapshot may be old; `StreamInv` says that the gate in every queued frame and on
  every page is `Fresh`: shown before, or the one the run waits at. It stays so because
  the engine leaves a paused run alone until somebody has seen its gate (`Remembers`:
  only a decision moves it on, and `NoUnseenDecision` says decisions are about gates
  that were shown), and `Frontier` says that the only record awaiting approval is at the
  run's index, so the snapshot names no other gate. `BusOK` ties a queue to a live
  connection of its run, `ConnOK` a page to one connection. `EndInv` strengthens
  `NoLostTerminal` to runs somebody still works on: a commit that stops a run publishes
  why in the same step, and whoever subscribes finds the run running.
- `DrawingStaysLinear`: `Spec => []EdgesStayLinear` of the editor, from `EditorInv`:
  the stored canvas is linear because it compiled (`AcceptedIsLinear`), the graph is
  linear because it was loaded from it and because `onConnect` replaces the source's
  edge; canvases in drafts, timers and requests need only have edges that start in
  them until they compile.
- `CompilerIsExact`: `Spec => []AcceptsExactlyChains`. The compiler's walk is a recursive
  function of the step number: `Iterates` shows that it exists and `LeastNumber` (a
  non-empty set of numbers has a least one) stands in for induction along it. A canvas
  without a loop repeats no node on its walk, so the walk stops within as many steps as
  there are nodes; where it stops at the last of them it is a line over all
  (`OrdersAreLines`, `WholeWalkIsALine`); and a line has no loop (`LineCompiles`).
- `ValidatorMirrors`: `Spec => []MirrorAgrees`. `validateChain` looks for no loop and for
  no second way out of an End. `ShapeInv` says why it need not on a graph that was drawn
  or loaded: nothing the editor can reach has an edge from an End back into the canvas
  (`EndsLast`: `onConnect` refuses it and the compiler accepts only canvases without,
  `AcceptedEndsLast`), and the rest is linear (`NoLoopLeadsOn`).
- `DockShowsTheRun`, `SavedIsStored`: `Calm => (Spec => []DockMatchesRun)` and `Calm /\
  "accepted" \notin Lossy => (Spec => []BelievedSavedIsSaved)`, the hypotheses of
  `editor_calm`: the user waits for what is in flight, and an accepted save's answer
  arrives. `CalmInv`: whatever is in a timer or a request is the graph on the screen,
  there is one of them, and what is stored when a run starts is what its save stored.
  `DockMatchesRun` speaks of the run last started; it says nothing from the answer to a
  later save of the Run button until that run starts, when the dock has the new steps
  and the old run, nor once that start has failed. `SavedInv`: what the page takes for
  saved was stored, or its request failed and the page knows; reopening it gives it back
  (`ReopeningIsExact`).
- `GatewayTyping`, `PrefixStability`, `NoFalseConflict`, `Truthfulness`: the four
  invariants of `gateway_routes`. None is inductive. `SlotInv` says what a request's
  place in its life implies of its connection and answer. `HistoryInv` says that a
  registered boundary was judged under its header (which needs that headers name
  conversations one to one, the default aside: `ConversationFacts`), that a request
  queued past the guard still finds its own prefix frozen, because a boundary never
  changes while the process lives (`Kept`), and that all a provider saw is the frozen
  prefix of its conversation. `PoolInv` bounds the open connections: only `Send` opens
  one. How prefixes are computed is never opened: `PrefixAssumption`, which TLC
  evaluates on the bodies of the runs, is all the proofs use: Gemini's request has
  the same prefix as the one compared unless a late system message is moved.
- `ContextTyping`, `ReceiptsKept`, `ReceiptsFixed`, `CountsAreReads`, `NoBlockedRetry`,
  `SpendingBounded`: the types and the five properties of `context_store`. A receipt is
  that of an observation of its own transcript and its output is stored (`ReceiptInv`;
  transcripts only grow, rows never vanish), a row counts the reads of its output
  (`CountInv`), and the registry is the set of actions ever blocked (`BlockInv`).
  `BlockedStaysBlocked` is an action property over every step, restarts included.
  `SpendingIsBounded` sums over lives what the counters, reset with each of them, no
  longer show: `SpendInv` splits what was ever spent into the lives that are over and
  what the present one's counters hold. Its hypothesis is that a turn has a highest cost,
  which any finite set of costs has.

- `HistoriesStayWhole`: `CompactionSpec => []HistoryIsWhole`, for conversations of any
  length compacted at any time. `HistoryInv`: a suffix is summaries, each of a higher
  level and of older turns than the one before it, then the turns since, one by one; what
  is covered is the turns said so far. Levels merge one by one in ascending order, and
  `AscendingIsUnique` says that there is only one.
- `PointersLeadBack`: a pointer leads to an earlier text that is close enough, so
  following them ends at a text kept verbatim. Similarities are compared as fractions;
  that a closest text exists, and a first one of them, is shown by a least counterexample.
- `CodecRoundTrips`: decoding gives the data back, in both layouts of a blob, and a
  damaged blob is refused. The dictionary fits a byte and holds no empty entry; the
  encoded form is read back place by place (`Recursion` and `Induction` of the module give
  what a recursive function does on a rank); damage is detected by the digest.
- `HistoryIsTranslated`: `TranslateRequest` loses no turn and keeps their order, and finds
  for a result the first call with its id.
- `PassesLeaveOut`: a pass selects places of a text, and a selection of a selection is one
  (`Selected` of `Selections`); trimming selects every word that is no filler, pruning every
  gap and every word behind one, since a paragraph's first sentence is always kept, and
  query filtering a sentence or else everything.
- `StreamsSayTheSame`: the assembled stream against the whole answer, whose texts stand
  one below the other. Selecting the pieces of one kind and joining them distribute over
  concatenation (`KeptConcat`, `FlattenConcat`), so both sides grow alike with every event
  (`TextsAreStreamed`); line breaks are the only difference (`BreaksAreNoTexts`), and they
  make one as soon as there are two texts. Calls of one event get indexes of their own
  (`CallsAreMerged`, `OneEventCalls`); with calls in two events the first index has a delta
  too many (`SpreadCallsAreMerged`); and the finish reason is that of the last event, which
  knows its own calls only (`LastEventEnds`).
- `EngineReadsTheAnswer`: the reader of the engine. `CutsDoNotMatter`: what a reader
  holds after k bytes, however they came, is `ReaderAt`: the text of the frames that are
  whole within k bytes and, in the buffer, the bytes behind them. A frame is read where it
  ends, at the first newline pair (`NextFrame`), and bytes that hold none are left
  alone (`NoFrame`). The bytes are laid out by frames (`FramesAreLaid`), the events are
  read whether or not a blank line ends the last (`EventsAreRead`), and the text of some
  frames is a beginning of the text of all.

Only model-checked: liveness (`RunsSettle`, `DecisionsTakeEffect`, `GateReachesPage`,
`ConnectionsClose`, `EveryRequestAnswered`), which needs fairness and `ENABLED`, and what
the violation runs refute.

What a recursive function computes is proved without the induction theorems of the
library, whose operator parameters the provers cannot instantiate: `TextProofs` states
induction over a set of places with a rank (`Hereditary`, `InductionUp`) and gives the
function a witness or a solution place by place.

## Where the code and its documents part

With a run: the four violation runs above, each with its sentence in `PROJECT.json`.
Seen while modelling, and modelled as the code has it without a run of their own.

Orchestrator and pages (`engine.py`, `events.py`, `routes.py` are in `orchestrator/`):

- `engine.py:260`: a decision repeated before the continuation starts is accepted and
  stored a second time; the guard is the record's and run's status, and the run's
  stays "paused" until the continuation moves on (`routes.py:200` answers 409 to a
  duplicate only after that).
- `engine.py:249`: a crash between the commits of a decision leaves it stored and the
  run paused; the reviewer must decide again. The design document (line 325) calls
  the pause durable, not the decision.
- `engine.py:169`: a crash after a step's record is completed and before the index
  moves makes recovery run that step again, with a second model call and milestone.
- `engine.py:248`: `allow_edit` of a gate is not enforced by the server (design
  document, line 161).
- `engine.py:151`: an unmapped tier fails the run and leaves the step's record
  "running" (design document, line 298).
- `events.py:12`: a second tab takes the queue of the first, which then misses the
  frame of a gate, not only "the live glow".
- A chain without an End whose last edge leaves the canvas compiles; the comment at
  `builderGraph.ts:8` speaks of exactly one end.
- `page.tsx:79`: a save that overtakes the Run button's own save makes the run execute
  another definition than the dock shows; `DockMatchesRun` holds for a user who waits.
- `page.tsx:84`: the Run button replaces the steps the dock shows when its save is answered
  and the run only when the start is: in between, and for good if the start fails, the
  dock labels the events of an earlier run with the new steps.
- `page.tsx:66`: a failed save is not retried, and leaving the page within 800 ms of an
  edit drops it.
- `page.tsx:58`: an edit taken back while its save is in flight leaves the edited canvas
  stored and shown as saved (comment at `page.tsx:52`).
- `engine.py:204`: an edit at the second of two adjacent gates is stored where no prompt
  reads it (comment at `engine.py:252`).
- `engine.py:225`: a PUT that moves the gate away while a run is paused makes every
  decision a 409 for ever; the design document (line 324) has a paused run wait for a
  decision it can take.
- `deriveGateInfo.ts:28`: a page that received a gate's frame goes on asking after the run
  has ended elsewhere (design document, line 378).
- `builderGraph.ts:134`: a template node without a model gets one of another tier when it
  is opened (comment at `builderGraph.ts:133`).

Gateway and adapters:

- `proxy/server.py:8`: the request path the module describes (guardrails, masking,
  compaction, metrics) is not what its handlers do; `MetricsAccumulator.record` is called
  by nobody, `use_zclaw_codec` is read by nobody.
- `core/cache_boundary.py:5`: the prefix is compared before a turn, never after it; a
  request that is refused later has frozen it; all clients without a header share the
  conversation "default"; boundaries are lost at a restart.
- `core/cache_boundary.py:67`: "any of these breaks the cache", but a system message
  split in two, or tools with reordered keys, have the same canonical prefix.
- `adapters/gemini_adapter.py:56`: text of an assistant turn that also calls tools is
  dropped; one id used twice names the first function (`:118`).
- `adapters/gemini_adapter.py:263`: call indexes restart with every event of a stream and
  the finish reason sees the calls of its own event only (routing design, line 166); a
  blocked prompt streams nothing but `[DONE]` where the whole answer says
  `content_filter`; text parts are joined with a line break in a whole answer and
  without one in a stream (`:207`, `:255`).
- `orchestrator/engine.py:281`: a stream that ends without `[DONE]` is taken for a whole
  answer, a last frame without its blank line is dropped, frames separated by CRLF are
  never seen, a frame with an empty list of choices raises, an error frame counts as
  no text.
- `proxy/server.py:172`: a garbled answer of Gemini is the client's fault (400), of others
  the server's (500); transport errors and time-outs are caught nowhere.
- `proxy/config.py:90`: the default tiers send a Gemini model to the default provider,
  which is OpenAI.

Context:

- `core/compaction.py:10`: see `compaction_linear`. Summaries stand lowest level first,
  so the newest comes first among them; one old summary is summarized again alone at
  every compaction; with `keep_recent_turns` of 0 a compaction reports that it was
  triggered and changes nothing (`:122`).
- `core/semantic_dedup.py:9`: a later text may point to an earlier one that became a
  pointer itself; only the end of the chain is kept verbatim.
- `core/lossy_passes.py:80`: trimming takes the white space behind a filler along, blank
  lines too: behind a filler two paragraphs become one, which pruning then cuts as one,
  and a text of nothing but fillers becomes empty ("can alter emphasis" says `:73`).
- `core/lossy_passes.py:151`: query filtering that would drop everything keeps everything,
  so a higher aggression can keep more than a lower one.
- `core/routing.py:25`: "whichever is more specific wins", but the first rule that matches
  wins.
- `core/guardrails.py:75`: the counters start again with the process, so the limits are per
  life of it.

## What is not modelled

`PROJECT.json` lists every component. Of the context layer: structural stripping and
numeric quantization rewrite markup and digits, which a text of words, stops and gaps
has not; tool pruning and tier routing are one filter and one walk through a list that
tests cover; tokenizers are libraries; branch collapse stores an artifact as masking
does and keeps nothing. Of the adapters: JSON schemas of tools, tool choice, sampling
settings, cache-control marks and credentials are data on a relayed request. DEFLATE is
an exact inverse pair and the digest has no collisions. Metrics, log redaction and
settings have no control that depends on them. Of the frontend, rendering, forms,
selection, `useBuilderRun` (telemetry of the dock) and the unused `addTeammateToCanvas`
are left out; of the editor, the order of nodes and edges, by which a redrawn edge can
cause one more save of the same canvas.

## Plan

The order puts first what the rest depends on. Done: store and engine, stream and run
pages, compiler and editor, functions of text, gateway, context store, the abstract
specification of runs, the theorems above. Next:

1. The builder's execution dock (`useBuilderRun`) over `RunStream`.
2. An abstract specification of the gateway for a client: one frozen prefix per
   conversation and life, and one answer per request, and the proof that `Gateway`
   implements it.
3. The other adapters' extraction of the prefix, on which `PrefixAssumption` rests.
