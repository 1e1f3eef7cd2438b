--------------------------- MODULE PlaybookCompiler ---------------------------
(***************************************************************************)
(* The rules under which a canvas is a playbook: compile_canvas of         *)
(* orchestrator/compiler.py, which decides, and validateChain of           *)
(* frontend/lib/canvas/builderGraph.ts, which the editor asks first.       *)
(*                                                                         *)
(* A canvas is a function from node identifiers to nodes and a set of      *)
(* edges.  The required texts of a node are one flag, filled.  Both sides  *)
(* refuse a node with two next steps, so the order of its edges, a         *)
(* repeated edge and the wording of the errors are left out.               *)
(***************************************************************************)
EXTENDS Integers, Sequences, FiniteSets, SequencesExt

\* The kinds that become a step; start, end and visual nodes do not.
StepNodes == {"teammate", "approval_gate"}
NodeKinds == StepNodes \cup {"start", "end", "visual"}

KindOf(c, i) == c.nodes[i].kind
OfKind(c, kind) == {i \in DOMAIN c.nodes : KindOf(c, i) = kind}
Targets(c, i) == {e[2] : e \in {f \in c.edges : f[1] = i}}

\* A cycle: some of the nodes, each with an edge to one of them.
HasCycle(nodes, edges) ==
  \E S \in SUBSET nodes : S # {} /\ \A i \in S : \E j \in S : <<i, j>> \in edges

\* Mutant: looks at the chain only, which stops at an end.
Loops_UpToEnd(c) ==
  HasCycle(DOMAIN c.nodes, {e \in c.edges : KindOf(c, e[1]) # "end"})

\* The depth-first search from every node, whatever its kind.
Loops(c) == HasCycle(DOMAIN c.nodes, c.edges)

\* visited_order: from s along the edges up to an end, a node seen before, or
\* an edge that leaves the canvas.
Chain(c, s) ==
  LET walk[n \in 0 .. Cardinality(DOMAIN c.nodes)] ==
        IF n = 0 THEN <<s>>
        ELSE LET order == walk[n - 1]
                 fresh == (Targets(c, Last(order)) \cap DOMAIN c.nodes)
                            \ ToSet(order)
             IN  IF KindOf(c, Last(order)) = "end" \/ fresh = {} THEN order
                 ELSE Append(order, CHOOSE i \in fresh : TRUE)
  IN  walk[Cardinality(DOMAIN c.nodes)]

\* Exactly one start, and every node on the chain that leaves it.
AllOnChain(c) ==
  \E s \in OfKind(c, "start") : /\ OfKind(c, "start") = {s}
                                /\ ToSet(Chain(c, s)) = DOMAIN c.nodes

\* Every node but an end leads to exactly one next.
OneNext(c) ==
  \A i \in DOMAIN c.nodes \ OfKind(c, "end") :
    \E j \in Targets(c, i) : Targets(c, i) = {j}

Filled(c) == \A i \in DOMAIN c.nodes : c.nodes[i].filled

\* compile_canvas raises no CompilerError.
Accepts(c) == AllOnChain(c) /\ ~Loops(c) /\ OneNext(c) /\ Filled(c)

\* Mutant: a node that hangs off the chain is no error.
Validates_OrphansPass(c) ==
  /\ \E s \in OfKind(c, "start") : OfKind(c, "start") = {s}
  /\ OfKind(c, "end") # {}
  /\ OneNext(c) /\ Filled(c)

\* validateChain returns no error: it has no rule about cycles, and one about
\* ends that the compiler does not have.
Validates(c) ==
  AllOnChain(c) /\ OfKind(c, "end") # {} /\ OneNext(c) /\ Filled(c)

\* The compiled steps, in the order of the chain.
StepsAlong(c, order) ==
  LET ids == SelectSeq(order, LAMBDA i : KindOf(c, i) \in StepNodes)
  IN  [k \in DOMAIN ids |-> [id |-> ids[k], kind |-> KindOf(c, ids[k]),
                             tier |-> c.nodes[ids[k]].tier]]

Steps(c) == StepsAlong(c, Chain(c, CHOOSE s \in OfKind(c, "start") : TRUE))

(***************************************************************************)
(* What a playbook is, without an algorithm: an order of all the nodes.    *)
(***************************************************************************)
ChainOrders(c) ==
  {order \in SetToSeqs(DOMAIN c.nodes) :
     /\ order # <<>> /\ KindOf(c, Head(order)) = "start"
     /\ \A k \in 2 .. Len(order) : KindOf(c, order[k]) # "start"
     /\ \A k \in 1 .. Len(order) - 1 : /\ KindOf(c, order[k]) # "end"
                                       /\ Targets(c, order[k]) = {order[k + 1]}
     /\ Targets(c, Last(order)) \cap DOMAIN c.nodes = {}
     /\ \/ KindOf(c, Last(order)) = "end"
        \/ Cardinality(Targets(c, Last(order))) = 1}
==============================================================================
