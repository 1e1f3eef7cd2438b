------------------------------ MODULE ContextStore ------------------------------
(***************************************************************************)
(* What an agent loop keeps outside its prompt: tool outputs masked into   *)
(* receipts (core/observation_masking.py), the artifacts they point to and *)
(* the do-not-retry registry in SQLite (storage/sqlite_store.py), and the  *)
(* guardrails before each turn (core/guardrails.py).  The caller is the    *)
(* loop of benchmarks/runner.py, one conversation per Conversation, all    *)
(* over one store: the artifacts are shared, for a reference is a digest   *)
(* of the output, modelled as the output itself.                           *)
(*                                                                         *)
(* Every store call is a transaction.  The counters of a GuardrailChain    *)
(* and a half-done mask are lost when the process dies, the tables and the *)
(* transcript, which the client sends again, are not.                      *)
(***************************************************************************)
EXTENDS Integers, Sequences, FiniteSets

CONSTANTS
  Conversations,
  Outputs,         \* what tools print
  Actions,         \* tool calls: a name with its arguments
  TrailingK,       \* trailing_k
  MaxTurns,        \* CircuitBreakerConfig.max_turns
  MaxTokens,       \* CircuitBreakerConfig.max_cumulative_tokens
  TurnTokens,      \* what a turn may cost
  NotStored,       \* no row with this reference
  NoAction,
  MaxObservations, \* bound: by conversation, the outputs of a transcript
  MaxReads,        \* bound: the reads of one artifact
  MaxRestarts      \* bound: the deaths of the process

ASSUME ContextAssumption ==
  /\ TrailingK \in Nat /\ MaxReads \in Nat /\ MaxRestarts \in Nat
  /\ MaxTurns \in Nat \ {0} /\ MaxTokens \in Nat \ {0}
  /\ TurnTokens \subseteq Nat
  /\ NotStored \notin Nat /\ NoAction \notin Actions
  /\ MaxObservations \in [Conversations -> Nat]

VARIABLES
  observations, \* the transcript's outputs
  masked,       \* the entries of the current or last mask() call
  masking,      \* how many entries a mask() in progress still has to add
  artifacts,    \* table artifacts: rehydrate_count by reference
  blocked,      \* table blackboard_do_not_retry
  calling,      \* the action of the turn in progress
  turns,        \* GuardrailChain._turn_count
  spent,        \* GuardrailChain._cumulative_tokens
  restarts,     \* deaths of the process so far
  seen          \* history: reads by reference, all receipts, blocked actions, all turns

store == <<artifacts, blocked>>
chain == <<calling, turns, spent>>
mask == <<masked, masking>>
vars == <<observations, mask, store, chain, restarts, seen>>

Init ==
  /\ observations = [c \in Conversations |-> <<>>]
  /\ masked = [c \in Conversations |-> <<>>]
  /\ masking = [c \in Conversations |-> 0]
  /\ artifacts = [o \in Outputs |-> NotStored]
  /\ blocked = {}
  /\ calling = [c \in Conversations |-> NoAction]
  /\ turns = [c \in Conversations |-> 0]
  /\ spent = [c \in Conversations |-> 0]
  /\ restarts = 0
  /\ seen = [reads |-> [o \in Outputs |-> 0], receipts |-> {}, blocked |-> {},
             turns |-> [c \in Conversations |-> 0],
             tokens |-> [c \in Conversations |-> 0]]

------------------------------------------------------------------------------
\* Mutant: the limit itself still passes.
BreakersClosed_OneMore(c) == turns[c] <= MaxTurns /\ spent[c] <= MaxTokens

\* check_circuit_breakers does not raise.
BreakersClosed(c) == turns[c] < MaxTurns /\ spent[c] < MaxTokens

\* check_all before a turn: a blocked action or an open breaker raises, and nothing
\* changes.  (A syntax error raises whatever the state is.)
Check(c, a) ==
  /\ calling[c] = NoAction /\ masking[c] = 0
  /\ Len(observations[c]) < MaxObservations[c]
  /\ <<c, a>> \notin blocked
  /\ BreakersClosed(c)
  /\ calling' = [calling EXCEPT ![c] = a]
  /\ UNCHANGED <<observations, mask, store, turns, spent, restarts, seen>>

\* Blackboard.block_retry: the action failed.
Block(c) ==
  /\ calling[c] # NoAction
  /\ blocked' = blocked \cup {<<c, calling[c]>>}
  /\ seen' = [seen EXCEPT !.blocked = @ \cup {<<c, calling[c]>>}]
  /\ UNCHANGED <<observations, mask, artifacts, chain, restarts>>

\* The turn's output joins the transcript, and record_turn counts it.
RecordTurn(c) ==
  /\ calling[c] # NoAction
  /\ \E o \in Outputs, t \in TurnTokens :
       /\ observations' = [observations EXCEPT ![c] = Append(@, o)]
       /\ turns' = [turns EXCEPT ![c] = @ + 1]
       /\ spent' = [spent EXCEPT ![c] = @ + t]
       /\ seen' = [seen EXCEPT !.turns = [@ EXCEPT ![c] = seen.turns[c] + 1],
                             !.tokens = [@ EXCEPT ![c] = seen.tokens[c] + t]]
  /\ calling' = [calling EXCEPT ![c] = NoAction]
  /\ UNCHANGED <<mask, store, restarts>>

------------------------------------------------------------------------------
\* mask() begins.
Mask(c) ==
  /\ calling[c] = NoAction /\ masking[c] = 0 /\ observations[c] # <<>>
  /\ masked' = [masked EXCEPT ![c] = <<>>]
  /\ masking' = [masking EXCEPT ![c] = Len(observations[c])]
  /\ UNCHANGED <<observations, store, chain, restarts, seen>>

\* Mutant: a step is counted from the end of the transcript.
Receipt_FromEnd(c, i) ==
  [receipt |-> TRUE, step |-> Len(observations[c]) - i, of |-> observations[c][i]]

\* The receipt of observation i names its step and its artifact.
Receipt(c, i) == [receipt |-> TRUE, step |-> i, of |-> observations[c][i]]

\* Mutant: storing an output again forgets how often it was read.
Put_ResetsCount(o) == [artifacts EXCEPT ![o] = 0]

\* put_artifact: a row that is there keeps its count.
Put(o) == [artifacts EXCEPT ![o] = IF @ = NotStored THEN 0 ELSE @]

\* cutoff: observation i is no longer one of the last trailing_k.
IsOld(c, i) == i <= Len(observations[c]) - TrailingK

\* Mutant: only the output that just left the window is stored.
Sink_NewestOnly(c, i) ==
  IF i = Len(observations[c]) - TrailingK THEN Put(observations[c][i]) ELSE artifacts

\* What the artifact sink gets for observation i.
Sink(c, i) == IF IsOld(c, i) THEN Put(observations[c][i]) ELSE artifacts

\* mask() adds the next entry: the last trailing_k outputs as they are, an older one
\* as a receipt after its output was stored.
MaskNext(c) ==
  LET i == Len(observations[c]) - masking[c] + 1
      entry == IF IsOld(c, i) THEN Receipt(c, i)
               ELSE [receipt |-> FALSE, step |-> i, of |-> observations[c][i]]
  IN  /\ masking[c] > 0
      /\ masking' = [masking EXCEPT ![c] = @ - 1]
      /\ masked' = [masked EXCEPT ![c] = Append(@, entry)]
      /\ artifacts' = Sink(c, i)
      /\ seen' = [seen EXCEPT !.receipts =
                    IF IsOld(c, i) THEN @ \cup {<<c, entry>>} ELSE @]
      /\ UNCHANGED <<observations, blocked, chain, restarts>>

\* get_artifact for a receipt the loop was given, from this life or an earlier one
\* (it returns None and counts nothing if there is no row).
Rehydrate(c, o) ==
  /\ \E r \in seen.receipts : r[1] = c /\ r[2].of = o
  /\ seen.reads[o] < MaxReads
  /\ artifacts[o] # NotStored
  /\ artifacts' = [artifacts EXCEPT ![o] = @ + 1]
  /\ seen' = [seen EXCEPT !.reads[o] = @ + 1]
  /\ UNCHANGED <<observations, mask, blocked, chain, restarts>>

\* Mutant: the registry is a field of the chain.
Restart_Unblocks ==
  /\ restarts < MaxRestarts
  /\ restarts' = restarts + 1
  /\ calling' = [c \in Conversations |-> NoAction]
  /\ turns' = [c \in Conversations |-> 0] /\ spent' = [c \in Conversations |-> 0]
  /\ masking' = [c \in Conversations |-> 0] /\ masked' = [c \in Conversations |-> <<>>]
  /\ blocked' = {}
  /\ UNCHANGED <<observations, artifacts, seen>>

\* The process dies and starts again.
Restart ==
  /\ restarts < MaxRestarts
  /\ restarts' = restarts + 1
  /\ calling' = [c \in Conversations |-> NoAction]
  /\ turns' = [c \in Conversations |-> 0] /\ spent' = [c \in Conversations |-> 0]
  /\ masking' = [c \in Conversations |-> 0] /\ masked' = [c \in Conversations |-> <<>>]
  /\ UNCHANGED <<observations, store, seen>>

Next ==
  \/ Restart
  \/ \E c \in Conversations :
       \/ Block(c) \/ RecordTurn(c) \/ Mask(c) \/ MaskNext(c)
       \/ \E a \in Actions : Check(c, a)
       \/ \E o \in Outputs : Rehydrate(c, o)

Spec == Init /\ [][Next]_vars

------------------------------------------------------------------------------
Entry == [receipt : BOOLEAN, step : Nat \ {0}, of : Outputs]

\* Shapes of the state.
ContextTypeOK ==
  /\ observations \in [Conversations -> Seq(Outputs)]
  /\ masked \in [Conversations -> Seq(Entry)]
  /\ masking \in [Conversations -> Nat]
  /\ \A c \in Conversations : masking[c] <= Len(observations[c])
  /\ artifacts \in [Outputs -> Nat \cup {NotStored}]
  /\ blocked \subseteq Conversations \X Actions
  /\ calling \in [Conversations -> Actions \cup {NoAction}]
  /\ turns \in [Conversations -> Nat] /\ spent \in [Conversations -> Nat]
  /\ restarts \in 0 .. MaxRestarts
  /\ seen.reads \in [Outputs -> Nat]
  /\ seen.receipts \subseteq Conversations \X Entry
  /\ seen.blocked \subseteq Conversations \X Actions

\* Every receipt a prompt ever held can be rehydrated, also one from before a
\* restart, one of a mask that was cut short and one of an output that several
\* transcripts share ("never discarded", core/observation_masking.py).
ReceiptsResolve == \A r \in seen.receipts : artifacts[r[2].of] # NotStored

\* Receipts are stable: what was masked once gets the same receipt ever after, in
\* every later mask and after a restart (prompt caches need the same bytes).
ReceiptsStable ==
  \A r, s \in seen.receipts : r[1] = s[1] /\ r[2].step = s[2].step => r = s

\* artifact_stats counts as never read what nobody ever read, however often an
\* output was stored again since.
NeverRead == {o \in Outputs : artifacts[o] = 0}
StatsAreTrue ==
  NeverRead = {o \in Outputs : artifacts[o] # NotStored /\ seen.reads[o] = 0}

\* No conversation starts an action that was blocked in it, also after a restart.
BlockedStaysBlocked ==
  [][\A c \in Conversations :
       calling[c] = NoAction /\ calling'[c] # NoAction =>
         <<c, calling'[c]>> \notin seen.blocked]_vars

\* A conversation takes at most max_turns turns in one life of the process and
\* overshoots its token budget by less than one turn; the counters start again with
\* every life, and so does what may be spent.
SpendingIsBounded ==
  \A c \in Conversations :
    /\ seen.turns[c] <= (restarts + 1) * MaxTurns
    /\ \E t \in TurnTokens :
         /\ \A u \in TurnTokens : u <= t
         /\ seen.tokens[c] <= (restarts + 1) * (MaxTokens - 1 + t)
==============================================================================
