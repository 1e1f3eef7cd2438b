--------------------------- MODULE ContextStoreProofs ---------------------------
(***************************************************************************)
(* What ContextStore keeps true for any number of conversations, outputs,  *)
(* masks and restarts.  The invariant ties every receipt ever given to an  *)
(* observation of its transcript and to a stored artifact, every counter   *)
(* to the reads that happened, and the registry to what was blocked.       *)
(***************************************************************************)
EXTENDS ContextStore, TLAPS

SeenType ==
  [reads : [Outputs -> Nat], receipts : SUBSET (Conversations \X Entry),
   blocked : SUBSET (Conversations \X Actions),
   turns : [Conversations -> Nat], tokens : [Conversations -> Nat]]

ShapeInv ==
  /\ observations \in [Conversations -> Seq(Outputs)]
  /\ masked \in [Conversations -> Seq(Entry)]
  /\ masking \in [Conversations -> Nat]
  /\ \A c \in Conversations : masking[c] <= Len(observations[c])
  /\ artifacts \in [Outputs -> Nat \cup {NotStored}]
  /\ blocked \subseteq Conversations \X Actions
  /\ calling \in [Conversations -> Actions \cup {NoAction}]
  /\ turns \in [Conversations -> Nat] /\ spent \in [Conversations -> Nat]
  /\ restarts \in 0 .. MaxRestarts
  /\ seen \in SeenType

\* A receipt points to an observation of its own transcript whose output is stored.
ReceiptInv ==
  \A r \in seen.receipts :
    \E c \in Conversations : \E i \in 1 .. Len(observations[c]) :
      r = <<c, Receipt(c, i)>> /\ artifacts[observations[c][i]] # NotStored

\* A row counts the reads of its output; what has no row was never read.
CountInv ==
  \A o \in Outputs :
    /\ artifacts[o] # NotStored => artifacts[o] = seen.reads[o]
    /\ artifacts[o] = NotStored => seen.reads[o] = 0

BlockInv == seen.blocked = blocked

IInv == ShapeInv /\ ReceiptInv /\ CountInv /\ BlockInv

LEMMA InitIInv == Init => IInv
  BY ContextAssumption
  DEF Init, IInv, ShapeInv, SeenType, ReceiptInv, CountInv, BlockInv

\* What an action leaves alone.
LEMMA CheckStep ==
  ASSUME IInv, NEW c \in Conversations, NEW a \in Actions, Check(c, a)
  PROVE  IInv'
  BY DEF Check, IInv, ShapeInv, ReceiptInv, Receipt, CountInv, BlockInv, mask, store

LEMMA BlockStep ==
  ASSUME IInv, NEW c \in Conversations, Block(c)
  PROVE  IInv'
<1>1. seen \in SeenType /\ <<c, calling[c]>> \in Conversations \X Actions
  BY DEF Block, IInv, ShapeInv
<1>2. /\ seen' \in SeenType /\ seen'.receipts = seen.receipts /\ seen'.reads = seen.reads
      /\ seen'.blocked = seen.blocked \cup {<<c, calling[c]>>}
  BY <1>1 DEF Block, SeenType
<1>3. UNCHANGED <<observations, masked, masking, artifacts, calling, turns, spent, restarts>>
  BY DEF Block, mask, chain
<1>4. blocked' = blocked \cup {<<c, calling[c]>>}
  BY DEF Block
<1> QED BY <1>1, <1>2, <1>3, <1>4 DEF IInv, ShapeInv, ReceiptInv, Receipt, CountInv, BlockInv

LEMMA RecordTurnStep ==
  ASSUME IInv, NEW c \in Conversations, RecordTurn(c)
  PROVE  IInv'
<1>0. /\ seen \in SeenType /\ observations \in [Conversations -> Seq(Outputs)]
      /\ turns \in [Conversations -> Nat] /\ spent \in [Conversations -> Nat]
      /\ TurnTokens \subseteq Nat
  BY ContextAssumption DEF IInv, ShapeInv
<1>1. PICK o \in Outputs, t \in TurnTokens :
        /\ observations' = [observations EXCEPT ![c] = Append(@, o)]
        /\ turns' = [turns EXCEPT ![c] = @ + 1] /\ spent' = [spent EXCEPT ![c] = @ + t]
        /\ seen' = [seen EXCEPT !.turns = [seen.turns EXCEPT ![c] = seen.turns[c] + 1],
                                !.tokens = [seen.tokens EXCEPT ![c] = seen.tokens[c] + t]]
  BY DEF RecordTurn
<1>2. /\ calling' = [calling EXCEPT ![c] = NoAction]
      /\ UNCHANGED <<masked, masking, artifacts, blocked, restarts>>
  BY DEF RecordTurn, mask, store
<1>3. /\ seen' \in SeenType /\ seen'.reads = seen.reads /\ seen'.receipts = seen.receipts
      /\ seen'.blocked = seen.blocked
  <2>1. /\ [seen.turns EXCEPT ![c] = seen.turns[c] + 1] \in [Conversations -> Nat]
        /\ [seen.tokens EXCEPT ![c] = seen.tokens[c] + t] \in [Conversations -> Nat]
    BY <1>0 DEF SeenType
  <2>2. PICK T \in [Conversations -> Nat], U \in [Conversations -> Nat] :
          seen' = [seen EXCEPT !.turns = T, !.tokens = U]
    BY <1>1, <2>1
  <2> QED BY <1>0, <2>2 DEF SeenType
<1>4. /\ observations' \in [Conversations -> Seq(Outputs)]
      /\ \A d \in Conversations :
           /\ Len(observations[d]) \in Nat /\ Len(observations'[d]) \in Nat
           /\ Len(observations[d]) <= Len(observations'[d])
           /\ \A i \in 1 .. Len(observations[d]) : observations'[d][i] = observations[d][i]
  BY <1>0, <1>1
<1>5. turns' \in [Conversations -> Nat] /\ spent' \in [Conversations -> Nat]
  BY <1>0, <1>1
<1>6. ShapeInv'
  <2>1. \A d \in Conversations : masking'[d] <= Len(observations'[d])
    BY <1>2, <1>4 DEF IInv, ShapeInv
  <2> QED BY <1>2, <1>3, <1>4, <1>5, <2>1 DEF IInv, ShapeInv
<1>7. ReceiptInv'
  <2>1. ASSUME NEW r \in seen.receipts
        PROVE  \E d \in Conversations : \E i \in 1 .. Len(observations'[d]) :
                 r = <<d, Receipt(d, i)'>> /\ artifacts'[observations'[d][i]] # NotStored
    <3>0. PICK d \in Conversations : \E i \in 1 .. Len(observations[d]) :
            r = <<d, Receipt(d, i)>> /\ artifacts[observations[d][i]] # NotStored
      BY DEF IInv, ReceiptInv
    <3>1. PICK i \in 1 .. Len(observations[d]) :
            r = <<d, Receipt(d, i)>> /\ artifacts[observations[d][i]] # NotStored
      BY <3>0
    <3>2. i \in 1 .. Len(observations'[d]) /\ observations'[d][i] = observations[d][i]
      BY <1>4
    <3> QED BY <1>2, <3>1, <3>2 DEF Receipt
  <2> QED BY <1>3, <2>1 DEF ReceiptInv
<1> QED BY <1>2, <1>3, <1>6, <1>7 DEF IInv, CountInv, BlockInv

LEMMA MaskStep ==
  ASSUME IInv, NEW c \in Conversations, Mask(c)
  PROVE  IInv'
<1>1. /\ masked' = [masked EXCEPT ![c] = <<>>]
      /\ masking' = [masking EXCEPT ![c] = Len(observations[c])]
      /\ UNCHANGED <<observations, artifacts, blocked, calling, turns, spent, restarts, seen>>
  BY DEF Mask, store, chain
<1>2. ShapeInv'
  BY <1>1 DEF IInv, ShapeInv
<1> QED BY <1>1, <1>2 DEF IInv, ReceiptInv, Receipt, CountInv, BlockInv

LEMMA RehydrateStep ==
  ASSUME IInv, NEW c \in Conversations, NEW o \in Outputs, Rehydrate(c, o)
  PROVE  IInv'
<1>1. /\ artifacts[o] # NotStored /\ artifacts' = [artifacts EXCEPT ![o] = @ + 1]
      /\ seen' = [seen EXCEPT !.reads[o] = @ + 1]
      /\ UNCHANGED <<observations, masked, masking, blocked, calling, turns, spent, restarts>>
  BY DEF Rehydrate, mask, chain
<1>2. seen \in SeenType /\ artifacts \in [Outputs -> Nat \cup {NotStored}]
  BY DEF IInv, ShapeInv
<1>3. /\ seen' \in SeenType /\ seen'.receipts = seen.receipts /\ seen'.blocked = seen.blocked
      /\ seen'.reads = [seen.reads EXCEPT ![o] = @ + 1]
  BY <1>1, <1>2 DEF SeenType
<1>4. /\ artifacts[o] \in Nat /\ artifacts'[o] # NotStored
      /\ artifacts' \in [Outputs -> Nat \cup {NotStored}]
      /\ \A p \in Outputs : artifacts[p] # NotStored => artifacts'[p] # NotStored
  BY <1>1, <1>2, ContextAssumption
<1>5. ShapeInv'
  BY <1>1, <1>3, <1>4 DEF IInv, ShapeInv
<1>6. CountInv'
  <2>1. seen.reads \in [Outputs -> Nat]
    BY <1>2 DEF SeenType
  <2> QED BY <1>1, <1>2, <1>3, <1>4, <2>1 DEF IInv, CountInv
<1>7. ReceiptInv'
  <2>1. \A d \in Conversations : \A i \in 1 .. Len(observations[d]) :
          observations[d][i] \in Outputs
    BY DEF IInv, ShapeInv
  <2> QED BY <1>1, <1>3, <1>4, <2>1 DEF IInv, ReceiptInv, Receipt
<1> QED BY <1>1, <1>3, <1>5, <1>6, <1>7 DEF IInv, BlockInv

LEMMA RestartStep == IInv /\ Restart => IInv'
<1> SUFFICES ASSUME IInv, Restart PROVE IInv'
  OBVIOUS
<1>1. /\ masking' = [c \in Conversations |-> 0] /\ masked' = [c \in Conversations |-> <<>>]
      /\ calling' = [c \in Conversations |-> NoAction]
      /\ turns' = [c \in Conversations |-> 0] /\ spent' = [c \in Conversations |-> 0]
      /\ restarts < MaxRestarts /\ restarts' = restarts + 1
      /\ UNCHANGED <<observations, artifacts, blocked, seen>>
  BY DEF Restart, store
<1>2. ShapeInv'
  BY <1>1, ContextAssumption DEF IInv, ShapeInv
<1> QED BY <1>1, <1>2 DEF IInv, ReceiptInv, Receipt, CountInv, BlockInv

\* The sink stores the output of an old observation and loses nothing.
LEMMA SinkFacts ==
  ASSUME IInv, NEW c \in Conversations, NEW i \in 1 .. Len(observations[c])
  PROVE  /\ Sink(c, i) \in [Outputs -> Nat \cup {NotStored}]
         /\ \A o \in Outputs : artifacts[o] # NotStored => Sink(c, i)[o] = artifacts[o]
         /\ \A o \in Outputs :
              artifacts[o] = NotStored => Sink(c, i)[o] \in {NotStored, 0}
         /\ IsOld(c, i) => Sink(c, i)[observations[c][i]] # NotStored
<1>1. artifacts \in [Outputs -> Nat \cup {NotStored}] /\ observations[c][i] \in Outputs
  BY DEF IInv, ShapeInv
<1> QED BY <1>1, ContextAssumption DEF Sink, Put

LEMMA MaskNextStep ==
  ASSUME IInv, NEW c \in Conversations, MaskNext(c)
  PROVE  IInv'
<1>1. PICK i : i = Len(observations[c]) - masking[c] + 1
  OBVIOUS
<1>2. PICK entry : entry = IF IsOld(c, i) THEN Receipt(c, i)
                           ELSE [receipt |-> FALSE, step |-> i, of |-> observations[c][i]]
  OBVIOUS
<1>3. /\ masking[c] > 0 /\ masking' = [masking EXCEPT ![c] = @ - 1]
      /\ masked' = [masked EXCEPT ![c] = Append(@, entry)]
      /\ artifacts' = Sink(c, i)
      /\ seen' = [seen EXCEPT !.receipts =
                    IF IsOld(c, i) THEN @ \cup {<<c, entry>>} ELSE @]
      /\ UNCHANGED <<observations, blocked, calling, turns, spent, restarts>>
  BY <1>1, <1>2 DEF MaskNext, chain
<1>4. /\ seen \in SeenType /\ observations[c] \in Seq(Outputs)
      /\ masking \in [Conversations -> Nat] /\ masking[c] <= Len(observations[c])
      /\ masked \in [Conversations -> Seq(Entry)]
  BY DEF IInv, ShapeInv
<1>5. i \in 1 .. Len(observations[c]) /\ observations[c][i] \in Outputs
  BY <1>1, <1>3, <1>4
<1>6. entry \in Entry
  BY <1>2, <1>5 DEF Entry, Receipt
<1>7. /\ seen' \in SeenType /\ seen'.reads = seen.reads /\ seen'.blocked = seen.blocked
      /\ seen'.receipts = IF IsOld(c, i) THEN seen.receipts \cup {<<c, entry>>}
                          ELSE seen.receipts
  <2>1. seen.receipts \subseteq Conversations \X Entry /\ <<c, entry>> \in Conversations \X Entry
    BY <1>4, <1>6 DEF SeenType
  <2>2. PICK R : R = IF IsOld(c, i) THEN seen.receipts \cup {<<c, entry>>} ELSE seen.receipts
    OBVIOUS
  <2>3. R \in SUBSET (Conversations \X Entry) /\ seen' = [seen EXCEPT !.receipts = R]
    BY <1>3, <2>1, <2>2
  <2> QED BY <1>4, <2>2, <2>3 DEF SeenType
<1>8. ShapeInv'
  <2>1. artifacts' \in [Outputs -> Nat \cup {NotStored}]
    BY <1>3, <1>5, SinkFacts
  <2>2. /\ masking' \in [Conversations -> Nat]
        /\ \A d \in Conversations : masking'[d] <= Len(observations'[d])
    BY <1>3, <1>4 DEF IInv, ShapeInv
  <2>3. masked' \in [Conversations -> Seq(Entry)]
    BY <1>3, <1>4, <1>6
  <2> QED BY <1>3, <1>7, <2>1, <2>2, <2>3 DEF IInv, ShapeInv
<1>9. ReceiptInv'
  <2>1. ASSUME NEW r \in seen.receipts
        PROVE  \E d \in Conversations : \E k \in 1 .. Len(observations[d]) :
                 r = <<d, Receipt(d, k)>> /\ artifacts'[observations[d][k]] # NotStored
    <3>1. PICK d \in Conversations : \E k \in 1 .. Len(observations[d]) :
            r = <<d, Receipt(d, k)>> /\ artifacts[observations[d][k]] # NotStored
      BY DEF IInv, ReceiptInv
    <3>2. PICK k \in 1 .. Len(observations[d]) :
            r = <<d, Receipt(d, k)>> /\ artifacts[observations[d][k]] # NotStored
      BY <3>1
    <3>3. observations[d][k] \in Outputs
      BY DEF IInv, ShapeInv
    <3> QED BY <1>3, <1>5, <3>2, <3>3, SinkFacts
  <2>2. ASSUME IsOld(c, i)
        PROVE  entry = Receipt(c, i) /\ artifacts'[observations[c][i]] # NotStored
    BY <1>2, <1>3, <1>5, <2>2, SinkFacts
  <2>3. ASSUME NEW r \in seen'.receipts
        PROVE  \E d \in Conversations : \E k \in 1 .. Len(observations[d]) :
                 r = <<d, Receipt(d, k)>> /\ artifacts'[observations[d][k]] # NotStored
    BY <1>5, <1>7, <2>1, <2>2, <2>3
  <2> QED BY <1>3, <2>3 DEF ReceiptInv, Receipt
<1>10. CountInv'
  BY <1>3, <1>5, <1>7, SinkFacts DEF IInv, CountInv
<1> QED BY <1>3, <1>7, <1>8, <1>9, <1>10 DEF IInv, BlockInv

LEMMA NextIInv == IInv /\ [Next]_vars => IInv'
<1> SUFFICES ASSUME IInv, [Next]_vars PROVE IInv'
  OBVIOUS
<1>1. CASE UNCHANGED vars
  BY <1>1 DEF vars, mask, store, chain, IInv, ShapeInv, ReceiptInv, Receipt, CountInv, BlockInv
<1> QED
  BY <1>1, CheckStep, BlockStep, RecordTurnStep, MaskStep, MaskNextStep, RehydrateStep,
     RestartStep DEF Next

LEMMA Invariance == Spec => []IInv
  BY InitIInv, NextIInv, PTL DEF Spec

------------------------------------------------------------------------------
\* The tables, the transcripts and the chains keep their shapes, and a mask never runs
\* past its transcript, also when turns and masks of one loop alternate.
THEOREM ContextTyping == Spec => []ContextTypeOK
<1>1. IInv => ContextTypeOK
  BY DEF IInv, ShapeInv, SeenType, ContextTypeOK
<1> QED BY <1>1, Invariance, PTL

\* Whatever receipt mask() gave, in this life of the process or before, has its
\* artifact.
THEOREM ReceiptsKept == Spec => []ReceiptsResolve
<1>1. IInv => ReceiptsResolve
  BY DEF IInv, ReceiptInv, ReceiptsResolve, Receipt
<1> QED BY <1>1, Invariance, PTL

\* An observation has one receipt for ever: its step is counted from the front of a
\* transcript that only grows.
THEOREM ReceiptsFixed == Spec => []ReceiptsStable
<1>1. IInv => ReceiptsStable
  <2> SUFFICES ASSUME IInv, NEW r \in seen.receipts, NEW s \in seen.receipts,
                      r[1] = s[1], r[2].step = s[2].step
               PROVE  r = s
    BY DEF ReceiptsStable
  <2>1. PICK c \in Conversations : \E i \in 1 .. Len(observations[c]) : r = <<c, Receipt(c, i)>>
    BY DEF IInv, ReceiptInv
  <2>2. PICK d \in Conversations : \E k \in 1 .. Len(observations[d]) : s = <<d, Receipt(d, k)>>
    BY DEF IInv, ReceiptInv
  <2>3. PICK i : r = <<c, Receipt(c, i)>>
    BY <2>1
  <2>4. PICK k : s = <<d, Receipt(d, k)>>
    BY <2>2
  <2>5. c = d /\ i = k
    BY <2>3, <2>4 DEF Receipt
  <2> QED BY <2>3, <2>4, <2>5
<1> QED BY <1>1, Invariance, PTL

\* artifact_stats is right however often put_artifact stored an output again.
THEOREM CountsAreReads == Spec => []StatsAreTrue
<1>1. IInv => StatsAreTrue
  BY ContextAssumption DEF IInv, ShapeInv, CountInv, StatsAreTrue, NeverRead
<1> QED BY <1>1, Invariance, PTL

\* check_all lets no action pass that block_retry ever named, in any life of the
\* process.
THEOREM NoBlockedRetry == Spec => BlockedStaysBlocked
<1>1. IInv /\ [Next]_vars =>
        [\A c \in Conversations :
           calling[c] = NoAction /\ calling'[c] # NoAction =>
             <<c, calling'[c]>> \notin seen.blocked]_vars
  <2> SUFFICES ASSUME IInv, Next, NEW c \in Conversations,
                      calling[c] = NoAction, calling'[c] # NoAction
               PROVE  <<c, calling'[c]>> \notin seen.blocked
    OBVIOUS
  <2>1. PICK a \in Actions : Check(c, a)
    BY DEF Next, Check, Block, RecordTurn, Mask, MaskNext, Rehydrate, Restart, chain,
           IInv, ShapeInv
  <2>2. calling'[c] = a /\ <<c, a>> \notin blocked
    BY <2>1 DEF Check, IInv, ShapeInv
  <2> QED BY <2>2 DEF IInv, BlockInv
<1> QED BY <1>1, Invariance, PTL DEF Spec, BlockedStaysBlocked
------------------------------------------------------------------------------
(***************************************************************************)
(* Spending.  t is the most a turn costs: a breaker is looked at before a  *)
(* turn and counts after it, so one turn may pass the budget.  All turns   *)
(* are those of the lives that ended, each within the bound, and this      *)
(* life's.                                                                 *)
(***************************************************************************)
MostATurnCosts(t) == t \in TurnTokens /\ \A u \in TurnTokens : u <= t

SpendInv ==
  \A t : MostATurnCosts(t) =>
    \A c \in Conversations :
      /\ turns[c] <= MaxTurns /\ spent[c] <= MaxTokens - 1 + t
      /\ calling[c] # NoAction => turns[c] < MaxTurns /\ spent[c] < MaxTokens
      /\ seen.turns[c] <= restarts * MaxTurns + turns[c]
      /\ seen.tokens[c] <= restarts * (MaxTokens - 1 + t) + spent[c]

LEMMA OneLifeMore ==
  ASSUME NEW lives \in Nat, NEW most \in Nat
  PROVE  (lives + 1) * most = lives * most + most /\ lives * most \in Nat
OBVIOUS

LEMMA InitSpend == Init => SpendInv
<1> SUFFICES ASSUME Init, NEW t, MostATurnCosts(t), NEW c \in Conversations
             PROVE  /\ turns[c] <= MaxTurns /\ spent[c] <= MaxTokens - 1 + t
                    /\ calling[c] = NoAction
                    /\ seen.turns[c] <= restarts * MaxTurns + turns[c]
                    /\ seen.tokens[c] <= restarts * (MaxTokens - 1 + t) + spent[c]
  BY DEF SpendInv
<1>1. t \in Nat /\ MaxTurns \in Nat /\ MaxTokens \in Nat \ {0}
  BY ContextAssumption DEF MostATurnCosts
<1> QED BY <1>1 DEF Init

LEMMA NextSpend == IInv /\ SpendInv /\ [Next]_vars => SpendInv'
<1> SUFFICES ASSUME IInv, SpendInv, [Next]_vars, NEW t, MostATurnCosts(t),
                    NEW c \in Conversations
             PROVE  /\ turns'[c] <= MaxTurns /\ spent'[c] <= MaxTokens - 1 + t
                    /\ calling'[c] # NoAction =>
                         turns'[c] < MaxTurns /\ spent'[c] < MaxTokens
                    /\ seen'.turns[c] <= restarts' * MaxTurns + turns'[c]
                    /\ seen'.tokens[c] <= restarts' * (MaxTokens - 1 + t) + spent'[c]
  BY DEF SpendInv, MostATurnCosts
<1> DEFINE most == MaxTokens - 1 + t
<1>1. /\ t \in Nat /\ MaxTurns \in Nat /\ MaxTokens \in Nat \ {0} /\ most \in Nat
      /\ \A u \in TurnTokens : u \in Nat /\ u <= t
  BY ContextAssumption DEF MostATurnCosts
<1>2. /\ turns \in [Conversations -> Nat] /\ spent \in [Conversations -> Nat]
      /\ calling \in [Conversations -> Actions \cup {NoAction}]
      /\ restarts \in Nat /\ seen \in SeenType
      /\ seen.turns \in [Conversations -> Nat] /\ seen.tokens \in [Conversations -> Nat]
  <2>1. /\ turns \in [Conversations -> Nat] /\ spent \in [Conversations -> Nat]
        /\ calling \in [Conversations -> Actions \cup {NoAction}]
        /\ restarts \in Nat /\ seen \in SeenType
    BY ContextAssumption DEF IInv, ShapeInv
  <2> QED BY <2>1 DEF SeenType
<1>3. /\ turns[c] <= MaxTurns /\ spent[c] <= most
      /\ calling[c] # NoAction => turns[c] < MaxTurns /\ spent[c] < MaxTokens
      /\ seen.turns[c] <= restarts * MaxTurns + turns[c]
      /\ seen.tokens[c] <= restarts * most + spent[c]
  BY DEF SpendInv
<1>4. restarts * MaxTurns \in Nat /\ restarts * most \in Nat
  BY <1>1, <1>2, OneLifeMore
<1> HIDE DEF most
<1>5. ASSUME UNCHANGED <<turns, spent, restarts>>,
             seen'.turns = seen.turns, seen'.tokens = seen.tokens,
             calling'[c] # NoAction => turns[c] < MaxTurns /\ spent[c] < MaxTokens
      PROVE  /\ turns'[c] <= MaxTurns /\ spent'[c] <= most
             /\ calling'[c] # NoAction =>
                  turns'[c] < MaxTurns /\ spent'[c] < MaxTokens
             /\ seen'.turns[c] <= restarts' * MaxTurns + turns'[c]
             /\ seen'.tokens[c] <= restarts' * most + spent'[c]
  BY <1>3, <1>5
<1>6. ASSUME NEW d \in Conversations, NEW a \in Actions, Check(d, a)
      PROVE  /\ UNCHANGED <<turns, spent, restarts>>
             /\ seen'.turns = seen.turns /\ seen'.tokens = seen.tokens
             /\ calling'[c] # NoAction => turns[c] < MaxTurns /\ spent[c] < MaxTokens
  <2>1. /\ UNCHANGED <<turns, spent, restarts, seen>>
        /\ calling' = [calling EXCEPT ![d] = a]
        /\ turns[d] < MaxTurns /\ spent[d] < MaxTokens
    BY <1>6 DEF Check, BreakersClosed
  <2> QED BY <1>2, <1>3, <2>1
<1>7. ASSUME NEW d \in Conversations,
             \/ Block(d) \/ Mask(d) \/ MaskNext(d) \/ UNCHANGED vars
             \/ \E o \in Outputs : Rehydrate(d, o)
      PROVE  /\ UNCHANGED <<turns, spent, restarts, calling>>
             /\ seen'.turns = seen.turns /\ seen'.tokens = seen.tokens
  <2>1. UNCHANGED <<turns, spent, restarts, calling>>
    BY <1>7 DEF Block, Mask, MaskNext, Rehydrate, vars, chain
  <2>2. ASSUME Block(d)
        PROVE  seen'.turns = seen.turns /\ seen'.tokens = seen.tokens
    BY <1>2, <2>2 DEF Block, SeenType
  <2>3. ASSUME Mask(d) \/ UNCHANGED vars
        PROVE  seen'.turns = seen.turns /\ seen'.tokens = seen.tokens
    BY <2>3 DEF Mask, vars
  <2>4. ASSUME MaskNext(d)
        PROVE  seen'.turns = seen.turns /\ seen'.tokens = seen.tokens
    BY <1>2, <2>4 DEF MaskNext, SeenType
  <2>5. ASSUME \E o \in Outputs : Rehydrate(d, o)
        PROVE  seen'.turns = seen.turns /\ seen'.tokens = seen.tokens
    BY <1>2, <2>5 DEF Rehydrate, SeenType
  <2> QED BY <1>7, <2>1, <2>2, <2>3, <2>4, <2>5
<1>8. ASSUME NEW d \in Conversations, RecordTurn(d)
      PROVE  /\ turns'[c] <= MaxTurns /\ spent'[c] <= most
             /\ calling'[c] # NoAction =>
                  turns'[c] < MaxTurns /\ spent'[c] < MaxTokens
             /\ seen'.turns[c] <= restarts' * MaxTurns + turns'[c]
             /\ seen'.tokens[c] <= restarts' * most + spent'[c]
  <2>1. PICK u \in TurnTokens :
          /\ turns' = [turns EXCEPT ![d] = @ + 1] /\ spent' = [spent EXCEPT ![d] = @ + u]
          /\ seen' = [seen EXCEPT !.turns = [@ EXCEPT ![d] = seen.turns[d] + 1],
                                  !.tokens = [@ EXCEPT ![d] = seen.tokens[d] + u]]
    BY <1>8 DEF RecordTurn
  <2>2. /\ calling' = [calling EXCEPT ![d] = NoAction] /\ restarts' = restarts
        /\ calling[d] # NoAction
    BY <1>8 DEF RecordTurn
  <2>3. /\ seen'.turns = [seen.turns EXCEPT ![d] = seen.turns[d] + 1]
        /\ seen'.tokens = [seen.tokens EXCEPT ![d] = seen.tokens[d] + u]
    BY <1>2, <2>1 DEF SeenType
  <2>4. CASE d # c
    <3>1. /\ turns'[c] = turns[c] /\ spent'[c] = spent[c] /\ calling'[c] = calling[c]
          /\ seen'.turns[c] = seen.turns[c] /\ seen'.tokens[c] = seen.tokens[c]
      BY <1>2, <2>1, <2>2, <2>3, <2>4
    <3> QED BY <1>3, <2>2, <3>1
  <2>5. CASE d = c
    <3>1. /\ turns'[c] = turns[c] + 1 /\ spent'[c] = spent[c] + u
          /\ calling'[c] = NoAction
          /\ seen'.turns[c] = seen.turns[c] + 1 /\ seen'.tokens[c] = seen.tokens[c] + u
      BY <1>2, <2>1, <2>2, <2>3, <2>5
    <3>2. /\ turns[c] < MaxTurns /\ spent[c] < MaxTokens /\ u \in Nat /\ u <= t
          /\ turns[c] \in Nat /\ spent[c] \in Nat
          /\ seen.turns[c] \in Nat /\ seen.tokens[c] \in Nat
      BY <1>1, <1>2, <1>3, <2>2, <2>5
    <3>3. spent[c] + u <= most
      BY <1>1, <3>2 DEF most
    <3>4. seen.turns[c] + 1 <= restarts * MaxTurns + (turns[c] + 1)
      BY <1>3, <1>4, <3>2
    <3>5. seen.tokens[c] + u <= restarts * most + (spent[c] + u)
      BY <1>3, <1>4, <3>2
    <3>6. turns[c] + 1 <= MaxTurns
      BY <1>1, <3>2
    <3> QED BY <2>2, <3>1, <3>3, <3>4, <3>5, <3>6
  <2> QED BY <2>4, <2>5
<1>9. CASE Restart
  <2>1. /\ restarts' = restarts + 1 /\ seen' = seen
        /\ calling'[c] = NoAction /\ turns'[c] = 0 /\ spent'[c] = 0
    BY <1>9 DEF Restart
  <2>2. /\ turns[c] \in Nat /\ spent[c] \in Nat
        /\ seen.turns[c] \in Nat /\ seen.tokens[c] \in Nat
    BY <1>2
  <2>3. /\ (restarts + 1) * MaxTurns = restarts * MaxTurns + MaxTurns
        /\ (restarts + 1) * most = restarts * most + most
    BY <1>1, <1>2, OneLifeMore DEF most
  <2>4. seen.turns[c] <= restarts' * MaxTurns + 0
    BY <1>1, <1>3, <1>4, <2>1, <2>2, <2>3
  <2>5. most \in Nat
    BY <1>1 DEF most
  <2>6. seen.tokens[c] <= restarts' * most + 0
    BY <1>3, <1>4, <2>1, <2>2, <2>3, <2>5
  <2>7. turns'[c] <= MaxTurns /\ spent'[c] <= most
    BY <1>1, <2>1, <2>5
  <2> QED BY <2>1, <2>4, <2>6, <2>7 DEF most
<1> QED
  <2>1. CASE UNCHANGED vars \/ Restart
    <3>1. CASE UNCHANGED vars
      <4>1. UNCHANGED <<turns, spent, restarts, calling>>
            /\ seen'.turns = seen.turns /\ seen'.tokens = seen.tokens
        BY <1>7, <3>1
      <4> QED BY <1>3, <1>5, <4>1 DEF most
    <3> QED BY <1>9, <2>1, <3>1 DEF most
  <2>2. CASE \E d \in Conversations : RecordTurn(d)
    BY <1>8, <2>2 DEF most
  <2>3. CASE \E d \in Conversations : \E a \in Actions : Check(d, a)
    BY <1>5, <1>6, <2>3 DEF most
  <2>4. CASE \E d \in Conversations :
               Block(d) \/ Mask(d) \/ MaskNext(d) \/ \E o \in Outputs : Rehydrate(d, o)
    <3>1. UNCHANGED <<turns, spent, restarts, calling>>
          /\ seen'.turns = seen.turns /\ seen'.tokens = seen.tokens
      BY <1>7, <2>4
    <3> QED BY <1>3, <1>5, <3>1 DEF most
  <2> QED BY <2>1, <2>2, <2>3, <2>4 DEF Next

\* If a turn has a highest cost, no conversation takes more turns or spends more tokens
\* than its limits allow for the lives the process has had, whatever turns of other
\* conversations, masks and restarts come in between (check_circuit_breakers and
\* record_turn).
THEOREM SpendingBounded ==
  (\E t \in TurnTokens : \A u \in TurnTokens : u <= t) => (Spec => []SpendingIsBounded)
<1> SUFFICES ASSUME NEW t \in TurnTokens, \A u \in TurnTokens : u <= t
             PROVE  Spec => []SpendingIsBounded
  OBVIOUS
<1>1. Init => IInv /\ SpendInv
  BY InitIInv, InitSpend
<1>2. IInv /\ SpendInv /\ [Next]_vars => (IInv /\ SpendInv)'
  BY NextIInv, NextSpend
<1>3. ASSUME IInv, SpendInv PROVE SpendingIsBounded
  <2> SUFFICES ASSUME NEW c \in Conversations
               PROVE  /\ seen.turns[c] <= (restarts + 1) * MaxTurns
                      /\ seen.tokens[c] <= (restarts + 1) * (MaxTokens - 1 + t)
    BY DEF SpendingIsBounded
  <2> DEFINE most == MaxTokens - 1 + t
  <2>1. /\ turns[c] <= MaxTurns /\ spent[c] <= most
        /\ seen.turns[c] <= restarts * MaxTurns + turns[c]
        /\ seen.tokens[c] <= restarts * most + spent[c]
    BY <1>3 DEF SpendInv, MostATurnCosts
  <2>2. /\ turns[c] \in Nat /\ spent[c] \in Nat /\ restarts \in Nat
        /\ seen.turns[c] \in Nat /\ seen.tokens[c] \in Nat
        /\ MaxTurns \in Nat /\ most \in Nat
    BY <1>3, ContextAssumption DEF IInv, ShapeInv, SeenType
  <2> HIDE DEF most
  <2>3. /\ (restarts + 1) * MaxTurns = restarts * MaxTurns + MaxTurns
        /\ (restarts + 1) * most = restarts * most + most
        /\ restarts * MaxTurns \in Nat /\ restarts * most \in Nat
    BY <2>2, OneLifeMore
  <2>4. seen.turns[c] <= (restarts + 1) * MaxTurns
    BY <2>1, <2>2, <2>3
  <2>5. seen.tokens[c] <= (restarts + 1) * most
    BY <2>1, <2>2, <2>3
  <2> QED BY <2>4, <2>5 DEF most
<1> QED BY <1>1, <1>2, <1>3, PTL DEF Spec
================================================================================
