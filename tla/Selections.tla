------------------------------- MODULE Selections -------------------------------
(***************************************************************************)
(* Python's sorted() and the comprehensions that keep some elements of a   *)
(* list, with sets and functions only, so that they can be reasoned about. *)
(***************************************************************************)
EXTENDS Integers, FiniteSets, Sequences

\* The elements of a set in the order of a relation: each stands behind as many as
\* come before it.
Sorted(S, before) ==
  [n \in 1 .. Cardinality(S) |->
     CHOOSE x \in S : Cardinality({y \in S : <<y, x>> \in before}) = n - 1]

Ascending(numbers) ==
  Sorted(numbers, {p \in numbers \X numbers : p[1] < p[2]})

\* What a list holds at some places, in its order.
Selected(list, places) ==
  LET order == Ascending(places) IN [n \in DOMAIN order |-> list[order[n]]]
==============================================================================
