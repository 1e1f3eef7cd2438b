------------------------------- MODULE MCGateway -------------------------------
(***************************************************************************)
(* Small inputs for Gateway.                                               *)
(***************************************************************************)
EXTENDS Gateway

Says(role, lines) == [role |-> role, text |-> lines, calls |-> <<>>, id |-> "none"]
Result == [role |-> "tool", text |-> <<"r">>, calls |-> <<>>, id |-> "1"]
Request(api, model, messages, tools, stream) ==
  [api |-> api, model |-> model, messages |-> messages, tools |-> tools,
   stream |-> stream]

MCRoutes == [gem |-> "google", lost |-> "nobody"]
MCShape == [openai |-> "openai_compatible", google |-> "gemini"]

User == Says("user", <<"u">>)
S1 == Says("system", <<"s">>)
S2 == Says("system", <<"t">>)

\* The same prefix in one message and in two, another prefix, none; a late system
\* message; a tool result without its call; a model nobody serves.
MCBodies ==
  {Request("chat", "gpt", <<S1, S2, User>>, <<>>, TRUE),
   Request("chat", "gem", <<Says("system", <<"s", "t">>), User>>, <<>>, FALSE),
   Request("chat", "gem", <<S1, User>>, <<"tool">>, TRUE),
   Request("chat", "gpt", <<S1, User, S2>>, <<"tool">>, FALSE),
   Request("chat", "gem", <<S1, S2, User, Result>>, <<>>, TRUE),
   Request("chat", "lost", <<S1, User>>, <<>>, FALSE),
   Request("messages", "claude", <<S1, S2, User>>, <<>>, FALSE),
   Request("engine", "gem", <<User>>, <<>>, TRUE)}

\* A conversation with Gemini whose client adds a system message later on.
MCHoist ==
  {Request("chat", "gem", <<S1, User>>, <<>>, FALSE),
   Request("chat", "gem", <<S1, User, S2, User>>, <<>>, FALSE)}
==============================================================================
