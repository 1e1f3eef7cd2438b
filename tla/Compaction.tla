------------------------------- MODULE Compaction -------------------------------
(***************************************************************************)
(* core/compaction.py: the part of a conversation behind its frozen        *)
(* prefix, to which turns are added and which maybe_compact of             *)
(* HierarchicalCompactor shortens, with its deterministic summarizer.  The *)
(* prefix is passed through and is not in the model.                       *)
(***************************************************************************)
EXTENDS Selections, SequencesExt

CONSTANTS
  Sizes,         \* the tokens a turn may have
  Thresholds,    \* values of token_threshold
  KeptTurns,     \* values of keep_recent_turns
  MaxTurns,      \* bound: turns of a conversation
  MaxCompactions \* bound: calls that compact

ASSUME CompactionAssumption ==
  /\ Sizes \subseteq Nat /\ Thresholds \subseteq Nat /\ KeptTurns \subseteq Nat
  /\ MaxTurns \in Nat /\ MaxCompactions \in Nat

VARIABLES
  setting,    \* the compactor's threshold and keep_recent_turns
  suffix,     \* suffix_turns: turns as they were said and summaries
  turns,      \* the number of turns said so far
  compactions \* the number of compactions so far

vars == <<setting, suffix, turns, compactions>>

\* An entry covers the turns in "of"; a summary has a level above 0.
SaidTurn(n, size) == [of |-> {n}, level |-> 0, size |-> size]
IsSummary(entry) == entry.level > 0

\* Mutant: the summary covers the first and the last text only.
Summary_FirstLast(older, places, level) ==
  [of |-> UNION {older[k].of : k \in {k \in places : \/ \A j \in places : j <= k
                                                     \/ \A j \in places : k <= j}},
   level |-> level, size |-> 1 + Cardinality(places)]

\* extractive_fallback_summarizer over the joined texts of a group: a heading and
\* one shortened line for each text.
Summary(older, places, level) ==
  [of |-> UNION {older[k].of : k \in places},
   level |-> level, size |-> 1 + Cardinality(places)]

Size(entries) == FoldLeft(LAMBDA n, t : n + t.size, 0, entries)

\* The branch that leaves the suffix alone is not taken.
Triggered(entries) ==
  Size(entries) > setting.threshold /\ Len(entries) > setting.keep

\* suffix_turns[-keep:] is all of them when keep is 0.
Recent(entries) ==
  IF setting.keep = 0 THEN entries
  ELSE SubSeq(entries, Len(entries) - setting.keep + 1, Len(entries))

Older(entries) ==
  IF setting.keep = 0 THEN <<>> ELSE SubSeq(entries, 1, Len(entries) - setting.keep)

\* summary_groups: the levels that occur and the places of each.
Levels(older) == {older[k].level : k \in DOMAIN older}
Group(older, level) == {k \in DOMAIN older : older[k].level = level}

\* One summary for each level among the older entries, one level up, the lowest
\* level first.
Merged(older) ==
  LET order == Ascending(Levels(older))
  IN  [n \in DOMAIN order |-> Summary(older, Group(older, order[n]), order[n] + 1)]

------------------------------------------------------------------------------
CompactionInit ==
  /\ setting \in [threshold : Thresholds, keep : KeptTurns]
  /\ suffix = <<>> /\ turns = 0 /\ compactions = 0

\* The conversation goes on.
Say ==
  /\ turns < MaxTurns
  /\ \E size \in Sizes : suffix' = Append(suffix, SaidTurn(turns + 1, size))
  /\ turns' = turns + 1
  /\ UNCHANGED <<setting, compactions>>

\* maybe_compact; what it returns untriggered is the suffix it was given.
MaybeCompact ==
  /\ compactions < MaxCompactions /\ Triggered(suffix)
  /\ suffix' = Merged(Older(suffix)) \o Recent(suffix)
  /\ compactions' = compactions + 1
  /\ UNCHANGED <<setting, turns>>

CompactionNext == Say \/ MaybeCompact

CompactionSpec == CompactionInit /\ [][CompactionNext]_vars

------------------------------------------------------------------------------
EveryTurnOnce ==
  /\ \A n \in 1 .. turns : \E k \in DOMAIN suffix :
       \A j \in DOMAIN suffix : n \in suffix[j].of <=> j = k
  /\ \A k \in DOMAIN suffix : suffix[k].of # {} /\ suffix[k].of \subseteq 1 .. turns

LatestAsSaid ==
  \A n \in 1 .. turns : n > turns - setting.keep =>
    LET entry == suffix[Len(suffix) - (turns - n)]
    IN  ~IsSummary(entry) /\ entry.of = {n}

\* No two summaries have the same level, and what a higher one covers is older than
\* all that a lower one covers.
Hierarchical ==
  \A j, k \in DOMAIN suffix :
    IsSummary(suffix[j]) /\ IsSummary(suffix[k]) /\ j # k =>
      /\ suffix[j].level # suffix[k].level
      /\ suffix[j].level > suffix[k].level =>
           \A m \in suffix[j].of, n \in suffix[k].of : m < n

\* However often a history is compacted, every turn is in exactly one entry, the
\* latest keep_recent_turns turns stand at its end as they were said, and higher
\* summaries are older.
HistoryIsWhole == EveryTurnOnce /\ LatestAsSaid /\ Hierarchical

\* "the compacted history grows logarithmically rather than linearly with the
\* number of compaction events": n events leave at most 1 + log2(n) summaries.
GrowsLogarithmically ==
  LET summaries == {k \in DOMAIN suffix : IsSummary(suffix[k])}
  IN  summaries # {} => 2 ^ (Cardinality(summaries) - 1) <= compactions
==============================================================================
