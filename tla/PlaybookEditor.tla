---------------------------- MODULE PlaybookEditor ----------------------------
(***************************************************************************)
(* One playbook on its way between the server and an editor page:          *)
(* POST and PUT /v1/playbooks (orchestrator/routes.py), the builder's      *)
(* store (frontend/lib/store/builderStore.ts), and the page's debounced    *)
(* save and Run button (frontend/app/playbooks/[id]/page.tsx).             *)
(*                                                                         *)
(* An API client drafts the playbook the page opens: the server takes any  *)
(* canvas, the editor can draw only some.  Node positions and the order in *)
(* which nodes and edges are listed are left out.                          *)
(***************************************************************************)
EXTENDS PlaybookCompiler

CONSTANTS
  Ids,          \* node identifiers
  Ghost,        \* the target of an edge that leaves the canvas
  Models,       \* the models the inspector offers
  TierOf,       \* the tier of each
  DefaultModel,
  NoModel,      \* a node without a model
  DraftNodes,   \* the nodes an API client writes
  Blocks,       \* the kinds the palette offers
  Slots,        \* bound: requests of the page in flight
  MaxDraftNodes, MaxDraftEdges,  \* bounds on what an API client writes
  Calm,         \* whether the user edits only while nothing is in flight
  Lossy         \* what the network loses: requests, answers

NoTier == "none"
Tiers == {TierOf[m] : m \in Models}
Nodes == [kind : NodeKinds, filled : BOOLEAN, model : Models \cup {NoModel},
          tier : Tiers \cup {NoTier}]

ASSUME EditorAssumption ==
  /\ Ghost \notin Ids /\ DefaultModel \in Models /\ NoModel \notin Models
  /\ DraftNodes \subseteq Nodes /\ Blocks \subseteq StepNodes \cup {"visual"}
  /\ Calm \in BOOLEAN /\ Lossy \subseteq {"sent", "accepted"}
  /\ MaxDraftNodes \in Nat /\ MaxDraftEdges \in Nat

NoCanvas == [nodes |-> <<>>, edges |-> {}]

VARIABLES
  draft,   \* what the API client will send
  stored,  \* the playbook's row: canvas_json and definition_json
  open,    \* the page has loaded the playbook (hydratedRef)
  graph,   \* nodes and edges of the builder's store
  saved,   \* lastSavedRef
  timer,   \* the canvas the pending timer will send
  puts,    \* the page's PUT requests
  run      \* how far the last click on Run got; runPlaybook's steps, with which the
           \* dock labels events, and those the run it follows (runId) executes

vars == <<draft, stored, open, graph, saved, timer, puts, run>>

FreePut == [phase |-> "free", from |-> "timer", canvas |-> NoCanvas, steps |-> <<>>]
NoRun == [phase |-> "none", dock |-> <<>>, executed |-> <<>>]

Init ==
  /\ draft = NoCanvas /\ stored = [canvas |-> NoCanvas, steps |-> <<>>]
  /\ open = FALSE /\ graph = NoCanvas /\ saved = NoCanvas /\ timer = NoCanvas
  /\ puts = [k \in Slots |-> FreePut] /\ run = NoRun

page == <<open, graph, saved, timer, puts, run>>

WithNode(c, i, node) ==
  [c EXCEPT !.nodes = [j \in DOMAIN c.nodes \cup {i} |->
                         IF j = i THEN node ELSE c.nodes[j]]]

(***************************************************************************)
(* An API client, before the page opens.                                   *)
(***************************************************************************)
DraftNode(i, node) ==
  /\ ~open /\ i \notin DOMAIN draft.nodes
  /\ Cardinality(DOMAIN draft.nodes) < MaxDraftNodes
  /\ draft' = WithNode(draft, i, node)
  /\ UNCHANGED <<stored, page>>

DraftEdge(i, j) ==
  /\ ~open /\ i \in DOMAIN draft.nodes /\ j \in DOMAIN draft.nodes \cup {Ghost}
  /\ Cardinality(draft.edges) < MaxDraftEdges
  /\ draft' = [draft EXCEPT !.edges = @ \cup {<<i, j>>}]
  /\ UNCHANGED <<stored, page>>

\* The row after a request with canvas c: compiled and stored together, or a 422.
Put(c) ==
  stored' = IF Accepts(c) THEN [canvas |-> c, steps |-> Steps(c)] ELSE stored

SubmitDraft ==
  /\ ~open /\ draft # NoCanvas
  /\ Put(draft)
  /\ draft' = NoCanvas
  /\ UNCHANGED page

(***************************************************************************)
(* The canvas in the page.                                                 *)
(***************************************************************************)
\* toBuilderGraph: a teammate without a model gets the default, its tier stays.
ToBuilder(c) ==
  [c EXCEPT !.nodes = [i \in DOMAIN c.nodes |->
     IF KindOf(c, i) = "teammate" /\ c.nodes[i].model = NoModel
     THEN [c.nodes[i] EXCEPT !.model = DefaultModel] ELSE c.nodes[i]]]

\* fromBuilderGraph: the tier is the model's.
FromBuilder(g) ==
  [g EXCEPT !.nodes = [i \in DOMAIN g.nodes |->
     IF KindOf(g, i) = "teammate"
     THEN [g.nodes[i] EXCEPT !.tier = TierOf[g.nodes[i].model]] ELSE g.nodes[i]]]

OpenPage ==
  /\ ~open /\ stored.canvas # NoCanvas
  /\ open' = TRUE
  /\ graph' = ToBuilder(stored.canvas)
  /\ saved' = FromBuilder(ToBuilder(stored.canvas))
  /\ draft' = NoCanvas
  /\ UNCHANGED <<stored, timer, puts, run>>

Quiet == (\A k \in Slots : puts[k].phase = "free") /\ run.phase # "starting"

\* The effect that runs after a change: the old timer is dropped, and a new one
\* set for a valid graph that differs from what was last saved.
Edited(g) ==
  /\ open /\ (Calm => Quiet)
  /\ graph' = g
  /\ timer' = IF FromBuilder(g) # saved /\ Validates(g)
              THEN FromBuilder(g) ELSE NoCanvas
  /\ UNCHANGED <<draft, stored, open, saved, puts, run>>

NewNode(kind) ==
  [kind |-> kind, filled |-> kind # "teammate",
   model |-> IF kind = "teammate" THEN DefaultModel ELSE NoModel,
   tier |-> IF kind = "teammate" THEN TierOf[DefaultModel] ELSE NoTier]

AddNode(i, kind) ==
  /\ i \notin DOMAIN graph.nodes
  /\ Edited(WithNode(graph, i, NewNode(kind)))

\* An end has no handle to draw from, a start none to draw to.
Drawable(i, j) ==
  /\ {i, j} \subseteq DOMAIN graph.nodes /\ i # j
  /\ KindOf(graph, i) # "end" /\ KindOf(graph, j) # "start"

\* Mutant: keeps the edges the source already has.
Connect_Appends(i, j) ==
  /\ Drawable(i, j)
  /\ Edited([graph EXCEPT !.edges = @ \cup {<<i, j>>}])

\* onConnect: a new connection replaces the source's old one.
Connect(i, j) ==
  /\ Drawable(i, j)
  /\ Edited([graph EXCEPT !.edges = {e \in @ : e[1] # i} \cup {<<i, j>>}])

RemoveEdge(e) ==
  /\ e \in graph.edges
  /\ Edited([graph EXCEPT !.edges = @ \ {e}])

\* removeNode, and the delete key: start and end are not deletable.
RemoveNode(i) ==
  /\ i \in DOMAIN graph.nodes /\ KindOf(graph, i) \notin {"start", "end"}
  /\ Edited([nodes |-> [j \in DOMAIN graph.nodes \ {i} |-> graph.nodes[j]],
             edges |-> {e \in graph.edges : i \notin {e[1], e[2]}}])

\* updateNodeData: a required text is typed or cleared.
FillIn(i, filled) ==
  /\ i \in DOMAIN graph.nodes /\ KindOf(graph, i) \in StepNodes
  /\ Edited([graph EXCEPT !.nodes[i].filled = filled])

\* updateNodeData with a model: the tier follows.
PickModel(i, m) ==
  /\ i \in DOMAIN graph.nodes /\ KindOf(graph, i) = "teammate"
  /\ Edited([graph EXCEPT !.nodes[i].model = m, !.nodes[i].tier = TierOf[m]])

(***************************************************************************)
(* Saving and running.                                                     *)
(***************************************************************************)
Send(k, from, c) ==
  /\ puts[k].phase = "free"
  /\ puts' = [puts EXCEPT ![k] =
                [FreePut EXCEPT !.phase = "sent", !.from = from, !.canvas = c]]

TimerFires(k) ==
  /\ timer # NoCanvas
  /\ Send(k, "timer", timer)
  /\ timer' = NoCanvas
  /\ UNCHANGED <<draft, stored, open, graph, saved, run>>

\* Bound: one click at a time.
NoClick == run.phase # "starting" /\ \A k \in Slots : puts[k].from # "run"

\* Mutant: starts the run without saving first.
ClickRun_NoSave(k) ==
  /\ open /\ NoClick /\ Validates(graph)
  /\ puts[k].phase = "free"
  /\ run' = [run EXCEPT !.phase = "starting", !.dock = Steps(FromBuilder(graph))]
  /\ UNCHANGED <<draft, stored, open, graph, saved, timer, puts>>

\* runNow: save, then start.  The run of an earlier click stays in the dock.
ClickRun(k) ==
  /\ open /\ NoClick /\ Validates(graph)
  /\ Send(k, "run", FromBuilder(graph))
  /\ UNCHANGED <<draft, stored, open, graph, saved, timer, run>>

\* The server handles the requests in any order.
HandlePut(k) ==
  LET c == puts[k].canvas
  IN  /\ puts[k].phase = "sent"
      /\ Put(c)
      /\ puts' = [puts EXCEPT ![k].phase = IF Accepts(c) THEN "accepted" ELSE "failed",
                              ![k].steps = IF Accepts(c) THEN Steps(c) ELSE <<>>]
      /\ UNCHANGED <<draft, open, graph, saved, timer, run>>

\* The request ("sent") or its answer ("accepted") is lost.
LosePut(k) ==
  /\ puts[k].phase \in Lossy
  /\ puts' = [puts EXCEPT ![k].phase = "failed", ![k].steps = <<>>]
  /\ UNCHANGED <<draft, stored, open, graph, saved, timer, run>>

\* What was sent is what was last saved; runNow sets runPlaybook and goes on to start
\* the run, while runId still names the run of an earlier click.
AnswerOk(k) ==
  /\ puts[k].phase = "accepted"
  /\ saved' = puts[k].canvas
  /\ run' = IF puts[k].from = "run"
            THEN [run EXCEPT !.phase = "starting", !.dock = puts[k].steps] ELSE run
  /\ puts' = [puts EXCEPT ![k] = FreePut]
  /\ UNCHANGED <<draft, stored, open, graph, timer>>

\* Mutant: an answer of any kind marks the canvas as saved.
AnswerError_Saved(k) ==
  /\ puts[k].phase = "failed"
  /\ saved' = puts[k].canvas
  /\ puts' = [puts EXCEPT ![k] = FreePut]
  /\ UNCHANGED <<draft, stored, open, graph, timer, run>>

\* The debounced save ignores the error; runNow ends with it.
AnswerError(k) ==
  /\ puts[k].phase = "failed"
  /\ puts' = [puts EXCEPT ![k] = FreePut]
  /\ UNCHANGED <<draft, stored, open, graph, saved, timer, run>>

\* POST .../runs executes the definition stored now, and the page follows that run.
StartRun ==
  /\ run.phase = "starting"
  /\ run' = [run EXCEPT !.phase = "started", !.executed = stored.steps]
  /\ UNCHANGED <<draft, stored, open, graph, saved, timer, puts>>

\* The dock keeps the earlier run, if there is one, with the new steps.
StartRunFails ==
  /\ run.phase = "starting"
  /\ run' = [run EXCEPT !.phase = "failed"]
  /\ UNCHANGED <<draft, stored, open, graph, saved, timer, puts>>

------------------------------------------------------------------------------
Drafting ==
  \/ \E i \in Ids, node \in DraftNodes : DraftNode(i, node)
  \/ \E i \in Ids, j \in Ids \cup {Ghost} : DraftEdge(i, j)
  \/ SubmitDraft

Editing ==
  \/ \E i \in Ids, kind \in Blocks : AddNode(i, kind)
  \/ \E i, j \in Ids : Connect(i, j)
  \/ \E e \in graph.edges : RemoveEdge(e)
  \/ \E i \in Ids : \/ RemoveNode(i)
                    \/ \E filled \in BOOLEAN : FillIn(i, filled)
                    \/ \E m \in Models : PickModel(i, m)

Saving ==
  \E k \in Slots : \/ TimerFires(k) \/ ClickRun(k) \/ HandlePut(k) \/ LosePut(k)
                   \/ AnswerOk(k) \/ AnswerError(k)

Next == Drafting \/ OpenPage \/ Editing \/ Saving \/ StartRun \/ StartRunFails

Spec == Init /\ [][Next]_vars

(***************************************************************************)
(* Properties.                                                             *)
(***************************************************************************)
\* The compiler accepts a canvas exactly if its nodes form one chain (and its
\* texts are filled in), and the steps it stores are that chain's, in order.
AcceptsExactlyChains ==
  /\ Accepts(draft) <=> ChainOrders(draft) # {} /\ Filled(draft)
  /\ Accepts(draft) =>
       \A order \in ChainOrders(draft) : Steps(draft) = StepsAlong(draft, order)

\* validateChain has fewer rules than the compiler, and yet on every graph the
\* editor can reach, whatever playbook it loaded, the two agree: a graph it lets
\* through is never answered with a 422, and one it holds back for want of
\* anything but an End would not compile.
MirrorAgrees ==
  open => (Validates(graph) <=>
             Accepts(FromBuilder(graph)) /\ OfKind(graph, "end") # {})

\* Drawing never gives a step two next steps, and never leaves an edge of a step
\* that was deleted.
EdgesStayLinear ==
  \A e, f \in graph.edges :
    /\ e[1] = f[1] /\ KindOf(graph, e[1]) # "end" => e = f
    /\ {e[1], e[2]} \subseteq DOMAIN graph.nodes \cup {Ghost}

\* For a user who waits for answers, on a network that loses none: when nothing is
\* in flight and the page takes the graph on the screen for saved, reopening the
\* playbook would show that graph (page.tsx: only changes that are not part of the
\* canvas are skipped).
BelievedSavedIsSaved ==
  open /\ Quiet /\ FromBuilder(graph) = saved =>
    FromBuilder(ToBuilder(stored.canvas)) = saved

\* For a user who waits for answers: the steps with which the dock labels a run's events
\* are those it executes, through later edits, saves, and clicks whose save fails, though
\* the definition and the run come from two requests.  (From the answer to a later save
\* of runNow on, the dock has that save's steps and still the old run, and keeps both if
\* the start fails: then its phase is "starting" or "failed".)
DockMatchesRun == run.phase = "started" => run.dock = run.executed
==============================================================================
