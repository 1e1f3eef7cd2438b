------------------------------- MODULE TextPasses -------------------------------
(***************************************************************************)
(* core/semantic_dedup.py and the passes of core/lossy_passes.py that drop *)
(* words, sentences and paragraphs.                                        *)
(*                                                                         *)
(* For the deduplicator a text is its set of shingles.  For the passes it  *)
(* is a sequence of words, of the stops that end a sentence (punctuation   *)
(* with white space or an end behind it) and of the gaps between           *)
(* paragraphs; a filler phrase is one word.  Markup and the digits of      *)
(* numbers are not in the model: structural_stripping and                  *)
(* numeric_quantization, which rewrite only those, are not modelled.       *)
(***************************************************************************)
EXTENDS Selections

CONSTANTS
  Fillers,   \* _FILLER_WORDS: the words dropped, by aggression 1 .. 3
  Stopwords, \* _STOPWORDS
  Threshold, \* the deduplicator's threshold, in percent
  Stop,      \* the end of a sentence
  Gap        \* the blank line between two paragraphs

ASSUME TextAssumption ==
  /\ Threshold \in 0 .. 100
  /\ Stop # Gap
  /\ \A a \in DOMAIN Fillers : {Stop, Gap} \cap Fillers[a] = {}

\* jaccard_similarity as a fraction.
Similarity(a, b) ==
  IF a = {} /\ b = {} THEN [num |-> 1, den |-> 1]
  ELSE [num |-> Cardinality(a \cap b), den |-> Cardinality(a \cup b)]

Above(s, t) == s.num * t.den > t.num * s.den
AtThreshold(s) == s.num * 100 >= Threshold * s.den

\* Mutant: looks at later texts too.
Matches_AnyText(texts, i) ==
  {j \in 1 .. Len(texts) :
     /\ j # i
     /\ Similarity(texts[i], texts[j]).num > 0
     /\ AtThreshold(Similarity(texts[i], texts[j]))
     /\ \A k \in 1 .. Len(texts) : k # i =>
          /\ ~Above(Similarity(texts[i], texts[k]), Similarity(texts[i], texts[j]))
          /\ k < j => Above(Similarity(texts[i], texts[j]), Similarity(texts[i], texts[k]))}

\* find_duplicates for text i: the closest earlier text, the first of equally close
\* ones, if it is close enough ({} or one place).
Matches(texts, i) ==
  {j \in 1 .. i - 1 :
     /\ Similarity(texts[i], texts[j]).num > 0
     /\ AtThreshold(Similarity(texts[i], texts[j]))
     /\ \A k \in 1 .. i - 1 :
          /\ ~Above(Similarity(texts[i], texts[k]), Similarity(texts[i], texts[j]))
          /\ k < j => Above(Similarity(texts[i], texts[j]), Similarity(texts[i], texts[k]))}

\* collapse: 0 where the text is kept, else the place of the text it points to.
Collapse(texts) ==
  [i \in DOMAIN texts |->
     IF Matches(texts, i) = {} THEN 0 ELSE CHOOSE j \in Matches(texts, i) : TRUE]

------------------------------------------------------------------------------
None == 0   \* Aggression.NONE; LOW, MEDIUM and HIGH are 1, 2 and 3

\* eco_trimming: a filler takes the white space behind it along, blank lines too.
EcoTrimming(text, aggression) ==
  LET dropped == {k \in DOMAIN text : \E j \in 1 .. k :
                    /\ text[j] \in Fillers[aggression]
                    /\ \A i \in j + 1 .. k : text[i] \in Fillers[aggression] \cup {Gap}}
  IN  IF aggression = None THEN text ELSE Selected(text, DOMAIN text \ dropped)

\* The places of the paragraph that holds place k.
Paragraph(text, k) ==
  {j \in DOMAIN text : \A i \in (j .. k) \cup (k .. j) : text[i] # Gap}

\* The number that the sentence of place k has in its paragraph.
SentenceOf(text, k) ==
  1 + Cardinality({j \in Paragraph(text, k) : j < k /\ text[j] = Stop})

SentenceCount(text, k) == Cardinality({SentenceOf(text, j) : j \in Paragraph(text, k)})

\* Mutant: short paragraphs lose their only sentence.
Pruning_ToNothing(text, aggression) ==
  LET share(count) == (count * (10 - 2 * aggression)) \div 10
  IN  IF aggression = None THEN text
      ELSE Selected(text, {k \in DOMAIN text :
             text[k] = Gap \/ SentenceOf(text, k) <= share(SentenceCount(text, k))})

\* pruning: the leading 80, 60 or 40 percent of each paragraph, one sentence at least.
Pruning(text, aggression) ==
  LET share(count) == (count * (10 - 2 * aggression)) \div 10
      kept(count) == IF share(count) = 0 THEN 1 ELSE share(count)
  IN  IF aggression = None THEN text
      ELSE Selected(text, {k \in DOMAIN text :
             text[k] = Gap \/ SentenceOf(text, k) <= kept(SentenceCount(text, k))})

\* The places of the sentences that share enough keywords with the query.
Relevant(text, query, aggression) ==
  LET needed == IF aggression = 3 THEN 2 ELSE 1
      said(k) == {text[j] : j \in {i \in Paragraph(text, k) :
                                   SentenceOf(text, i) = SentenceOf(text, k)}}
  IN  {k \in DOMAIN text :
         text[k] # Gap /\ Cardinality(said(k) \cap (query \ Stopwords)) >= needed}

\* query_filtering: those sentences, and a gap between each two paragraphs that have one;
\* all of the text if there are none.
QueryFiltering(text, query, aggression) ==
  LET relevant == Relevant(text, query, aggression)
      gaps == {g \in DOMAIN text :
                 /\ text[g] = Gap
                 /\ \E k \in relevant : k < g
                 /\ \E k \in relevant : k > g /\ \A i \in g + 1 .. k : text[i] # Gap}
  IN  IF aggression = None \/ query \subseteq Stopwords \/ relevant = {} THEN text
      ELSE Selected(text, relevant \cup gaps)

\* apply_lossy_passes: the passes that were asked for, in their fixed order.
ApplyLossyPasses(text, config, query) ==
  LET trimmed == IF config.eco THEN EcoTrimming(text, config.aggression) ELSE text
      pruned == IF config.pruning THEN Pruning(trimmed, config.aggression) ELSE trimmed
  IN  IF config.query THEN QueryFiltering(pruned, query, config.aggression) ELSE pruned
==============================================================================
