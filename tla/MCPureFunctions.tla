---------------------------- MODULE MCPureFunctions ----------------------------
(***************************************************************************)
(* Small inputs for PureFunctions.                                         *)
(***************************************************************************)
EXTENDS PureFunctions, MCCompaction

\* Four byte values: 3 is the escape byte, 254 dictionary entries become 2.
MCGramLengths == {6, 4, 3}

Repeated(b, n) == [k \in 1 .. n |-> b]
MCBlocks ==
  {<<0>>, <<3>>, <<3, 1>>, <<2, 3, 1, 2, 3, 1>>} \cup {Repeated(b, 6) : b \in {0, 1, 3}}
Text(t) == [kind |-> "text", of |-> t]
Call(c) == [kind |-> "call", of |-> c]
MCParts ==
  {<<>>, <<Text("a")>>, <<Call("f")>>, <<Text("a"), Text("b")>>,
   <<Text("a"), Call("f")>>, <<Call("f"), Text("b")>>, <<Call("f"), Call("g")>>}
MCEvents ==
  [parts : MCParts, finish : {"none", "STOP", "MAX_TOKENS", "SAFETY"}] \cup {Blocked}

Message(role, text, calls, id) ==
  [role |-> role, text |-> text, calls |-> calls, id |-> id]
MCMessages ==
  {Message("system", <<"s">>, <<>>, "none"), Message("user", <<"u">>, <<>>, "none"),
   Message("assistant", <<"a">>, <<>>, "none"),
   Message("assistant", <<"a">>, <<[id |-> "1", name |-> "f"]>>, "none"),
   Message("assistant", <<>>, <<[id |-> "1", name |-> "g"], [id |-> "2", name |-> "h"]>>,
           "none"),
   Message("tool", <<"r">>, <<>>, "1"), Message("tool", <<"r">>, <<>>, "2")}

MCTexts == SUBSET {"x", "y", "z"}

MCPieces == {<<"just">>, <<"fix">>, <<"cache", Stop>>, <<Gap>>}
MCFillers == <<{"just"}, {"just", "very"}, {"just", "very", "please"}>>
MCConfigs ==
  [eco : BOOLEAN, pruning : BOOLEAN, query : BOOLEAN, aggression : 0 .. 3]
MCQueries == {{}, {"the"}, {"fix", "the"}, {"fix", "cache"}}

MCElements ==
  [codec |-> MCBlocks, answer |-> MCEvents, history |-> MCMessages,
   texts |-> MCTexts, passes |-> MCPieces, conversation |-> {}]
MCMaxLength ==
  [codec |-> 4, answer |-> 2, history |-> 4, texts |-> 4, passes |-> 5,
   conversation |-> 0]
================================================================================
