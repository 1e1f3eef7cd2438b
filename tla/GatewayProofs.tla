------------------------------ MODULE GatewayProofs ------------------------------
(***************************************************************************)
(* What Gateway keeps true for every set of requests, headers, bodies and  *)
(* providers.  The invariant has three parts: SlotInv, what a request in   *)
(* flight may look like; HistoryInv, that a conversation's boundary is     *)
(* what was judged, and what every request past the guard and every        *)
(* provider agrees with; PoolInv, the connections.  What a prefix is, is   *)
(* never opened: PrefixAssumption is all the proofs know of it.            *)
(***************************************************************************)
EXTENDS Gateway, FiniteSetTheorems, TLAPS

Senders == Headers \cup {NoHeader}
KnownPrefixes == {Prefix(b) : b \in Bodies}

\* The rows of requests in flight.
BusyRow ==
  [pc : {"received", "queued", "waiting", "streaming", "answered"},
   header : Senders, body : Bodies, conn : {"none", "open", "closed"},
   upstream : {"none", "ok", "refused", "garbled", "broken"},
   status : {"none", "ok", "conflict", "rejected", "refused", "failed", "cut"}]

\* What a request's place in its life says of its answer and its connection.
RowOK(s) ==
  /\ s.pc \in {"received", "queued"} =>
       s.conn = "none" /\ s.upstream = "none" /\ s.status = "none"
  /\ s.pc = "waiting" =>
       s.conn = "open" /\ s.upstream = "none" /\ s.status = "none"
  /\ s.pc = "streaming" =>
       s.conn = "open" /\ s.upstream = "ok" /\ s.status = "ok"
  /\ s.pc = "answered" =>
       /\ s.status \in {"ok", "cut"} => s.upstream \in {"ok", "broken"}
       /\ s.upstream = "refused" => s.status = "refused"
       /\ s.status = "conflict" => s.conn = "none"
       /\ s.conn = "open" => s.status = "ok"

SlotInv ==
  /\ slot \in [Requests -> SlotType]
  /\ \A r \in Requests : slot[r].pc # "free" => slot[r] \in BusyRow /\ RowOK(slot[r])

LEMMA SlotSplit == SlotType = {Free} \cup BusyRow
  BY DEF SlotType, BusyRow, Senders

\* A record with other fields is one with these fields.
LEMMA AnsweredRow ==
  ASSUME NEW r \in Requests, slot[r] \in BusyRow,
         NEW st \in {"ok", "conflict", "rejected", "refused", "failed", "cut"},
         NEW up \in {"none", "ok", "refused", "garbled", "broken"}
  PROVE  /\ Answered(r, st, up) \in BusyRow
         /\ Answered(r, st, up).pc = "answered"
         /\ Answered(r, st, up).status = st
         /\ Answered(r, st, up).upstream = up
         /\ Answered(r, st, up).conn \in {"none", "closed"}
         /\ slot[r].conn = "none" => Answered(r, st, up).conn = "none"
         /\ Answered(r, st, up).header = slot[r].header
         /\ Answered(r, st, up).body = slot[r].body
<1>1. /\ Answered(r, st, up).pc = "answered"
      /\ Answered(r, st, up).status = st
      /\ Answered(r, st, up).upstream = up
  BY DEF Answered, BusyRow
<1>2. /\ Answered(r, st, up).header = slot[r].header
      /\ Answered(r, st, up).body = slot[r].body
  BY DEF Answered, BusyRow
<1>3. /\ Answered(r, st, up).conn \in {"none", "closed"}
      /\ slot[r].conn = "none" => Answered(r, st, up).conn = "none"
  BY DEF Answered, BusyRow
<1>4. Answered(r, st, up) \in BusyRow
  <2>1. PICK a \in BusyRow : a = [slot[r] EXCEPT !.pc = "answered"]
    BY DEF BusyRow
  <2>2. PICK b \in BusyRow : b = [a EXCEPT !.status = st]
    BY DEF BusyRow
  <2>3. PICK c \in BusyRow : c = [b EXCEPT !.upstream = up]
    BY DEF BusyRow
  <2>4. PICK closed \in {"none", "open", "closed"} :
          closed = IF slot[r].conn = "open" THEN "closed" ELSE slot[r].conn
    BY DEF BusyRow
  <2>5. [c EXCEPT !.conn = closed] \in BusyRow
    BY DEF BusyRow
  <2> QED
    BY <2>1, <2>2, <2>3, <2>4, <2>5 DEF Answered
<1> QED
  BY <1>1, <1>2, <1>3, <1>4

LEMMA QueueRow ==
  ASSUME NEW s \in BusyRow
  PROVE  /\ [s EXCEPT !.pc = "queued"] \in BusyRow
         /\ [s EXCEPT !.pc = "queued"].pc = "queued"
         /\ [s EXCEPT !.pc = "queued"].status = s.status
         /\ [s EXCEPT !.pc = "queued"].upstream = s.upstream
         /\ [s EXCEPT !.pc = "queued"].conn = s.conn
         /\ [s EXCEPT !.pc = "queued"].header = s.header
         /\ [s EXCEPT !.pc = "queued"].body = s.body
  BY DEF BusyRow

LEMMA AbandonRow ==
  ASSUME NEW s \in BusyRow
  PROVE  /\ [s EXCEPT !.pc = "answered"] \in BusyRow
         /\ [s EXCEPT !.pc = "answered"].pc = "answered"
         /\ [s EXCEPT !.pc = "answered"].status = s.status
         /\ [s EXCEPT !.pc = "answered"].upstream = s.upstream
         /\ [s EXCEPT !.pc = "answered"].conn = s.conn
         /\ [s EXCEPT !.pc = "answered"].header = s.header
         /\ [s EXCEPT !.pc = "answered"].body = s.body
  BY DEF BusyRow

LEMMA SendRow ==
  ASSUME NEW s \in BusyRow
  PROVE  /\ [s EXCEPT !.pc = "waiting", !.conn = "open"] \in BusyRow
         /\ [s EXCEPT !.pc = "waiting", !.conn = "open"].pc = "waiting"
         /\ [s EXCEPT !.pc = "waiting", !.conn = "open"].conn = "open"
         /\ [s EXCEPT !.pc = "waiting", !.conn = "open"].status = s.status
         /\ [s EXCEPT !.pc = "waiting", !.conn = "open"].upstream = s.upstream
  BY DEF BusyRow

LEMMA AcceptRow ==
  ASSUME NEW s \in BusyRow
  PROVE  /\ [s EXCEPT !.pc = "streaming", !.status = "ok", !.upstream = "ok"] \in BusyRow
         /\ [s EXCEPT !.pc = "streaming", !.status = "ok", !.upstream = "ok"].pc = "streaming"
         /\ [s EXCEPT !.pc = "streaming", !.status = "ok", !.upstream = "ok"].status = "ok"
         /\ [s EXCEPT !.pc = "streaming", !.status = "ok", !.upstream = "ok"].upstream = "ok"
         /\ [s EXCEPT !.pc = "streaming", !.status = "ok", !.upstream = "ok"].conn = s.conn
  BY DEF BusyRow

LEMMA CloseRow ==
  ASSUME NEW s \in BusyRow
  PROVE  /\ [s EXCEPT !.conn = "closed"] \in BusyRow
         /\ [s EXCEPT !.conn = "closed"].conn = "closed"
         /\ [s EXCEPT !.conn = "closed"].pc = s.pc
         /\ [s EXCEPT !.conn = "closed"].status = s.status
         /\ [s EXCEPT !.conn = "closed"].upstream = s.upstream
  BY DEF BusyRow

\* A row no Handle has just written.
Plain(s) == s.pc # "queued" /\ s.status # "conflict"

\* A step changes one row, to a free one or to one that is as it should be.
LEMMA RowStep ==
  ASSUME SlotInv, NEW r \in Requests, Step(r)
  PROVE  /\ slot' = [slot EXCEPT ![r] = slot'[r]]
         /\ slot'[r] = Free \/ (slot'[r] \in BusyRow /\ RowOK(slot'[r]))
         /\ Handle(r) \/ slot'[r] = Free \/ Plain(slot'[r])
         /\ \/ Send(r) \/ slot'[r] = Free \/ slot'[r].conn # "open"
            \/ slot[r].pc # "free" /\ slot[r].conn = "open"
<1>0. slot \in [Requests -> SlotType] /\ (slot[r].pc # "free" => slot[r] \in BusyRow /\ RowOK(slot[r]))
  BY DEF SlotInv
<1>1. CASE Arrive(r)
  <2>1. PICK b \in Bodies, header \in Senders : slot' = [slot EXCEPT ![r] = Busy(header, b)]
    BY <1>1 DEF Arrive, Senders
  <2>2. /\ Busy(header, b) \in BusyRow /\ RowOK(Busy(header, b)) /\ Plain(Busy(header, b))
        /\ Busy(header, b).conn = "none"
    BY DEF Busy, BusyRow, RowOK, Plain
  <2> QED BY <2>1, <2>2, <1>0
<1>2. CASE Handle(r)
  <2>1. slot[r] \in BusyRow /\ RowOK(slot[r]) /\ slot[r].pc = "received"
    BY <1>0, <1>2 DEF Handle
  <2>2. slot' = [slot EXCEPT ![r] = slot'[r]] /\
        \/ slot'[r] = Answered(r, "conflict", "none")
        \/ slot'[r] = Answered(r, "rejected", "none")
        \/ slot'[r] = [slot[r] EXCEPT !.pc = "queued"]
    BY <1>0, <1>2 DEF Handle
  <2>3. CASE slot'[r] = Answered(r, "conflict", "none")
    BY <1>2, <2>1, <2>2, <2>3, AnsweredRow DEF RowOK, Plain
  <2>4. CASE slot'[r] = Answered(r, "rejected", "none")
    BY <1>2, <2>1, <2>2, <2>4, AnsweredRow DEF RowOK, Plain
  <2>5. CASE slot'[r] = [slot[r] EXCEPT !.pc = "queued"]
    BY <1>2, <2>1, <2>2, <2>5, QueueRow DEF RowOK, Plain
  <2> QED BY <2>2, <2>3, <2>4, <2>5
<1>3. CASE Send(r)
  <2>1. slot[r] \in BusyRow /\ RowOK(slot[r]) /\ slot[r].pc = "queued"
    BY <1>0, <1>3 DEF Send
  <2>2. /\ slot' = [slot EXCEPT ![r] = slot'[r]]
        /\ slot'[r] = [slot[r] EXCEPT !.pc = "waiting", !.conn = "open"]
    BY <1>0, <1>3 DEF Send
  <2> QED BY <1>3, <2>1, <2>2, SendRow, ZenonT(60) DEF RowOK, Plain
<1>4. CASE Break(r)
  <2>1. slot[r] \in BusyRow /\ RowOK(slot[r])
    BY <1>0, <1>4 DEF Break
  <2>2. /\ slot' = [slot EXCEPT ![r] = slot'[r]]
        /\ slot'[r] = Answered(r, IF slot[r].pc = "streaming" THEN "cut" ELSE "failed", "broken")
    BY <1>0, <1>4 DEF Break
  <2> QED BY <2>1, <2>2, AnsweredRow DEF RowOK, Plain
<1>5. CASE Refuse(r)
  <2>1. slot[r] \in BusyRow /\ RowOK(slot[r])
    BY <1>0, <1>5 DEF Refuse
  <2>2. /\ slot' = [slot EXCEPT ![r] = slot'[r]]
        /\ slot'[r] = Answered(r, "refused", "refused")
    BY <1>0, <1>5 DEF Refuse
  <2> QED BY <2>1, <2>2, AnsweredRow DEF RowOK, Plain
<1>6. CASE Accept(r)
  <2>1. slot[r] \in BusyRow /\ RowOK(slot[r]) /\ slot[r].pc = "waiting"
    BY <1>0, <1>6 DEF Accept
  <2>2. /\ slot' = [slot EXCEPT ![r] = slot'[r]]
        /\ \/ slot'[r] = Answered(r, "ok", "ok")
           \/ slot'[r] = [slot[r] EXCEPT !.pc = "streaming", !.status = "ok", !.upstream = "ok"]
    BY <1>0, <1>6 DEF Accept
  <2>3. CASE slot'[r] = Answered(r, "ok", "ok")
    BY <2>1, <2>2, <2>3, AnsweredRow DEF RowOK, Plain
  <2>4. CASE slot'[r] = [slot[r] EXCEPT !.pc = "streaming", !.status = "ok", !.upstream = "ok"]
    BY <2>1, <2>2, <2>4, AcceptRow, ZenonT(60) DEF RowOK, Plain
  <2> QED BY <2>2, <2>3, <2>4
<1>7. CASE Garble(r)
  <2>1. slot[r] \in BusyRow /\ RowOK(slot[r])
    BY <1>0, <1>7 DEF Garble
  <2>2. /\ slot' = [slot EXCEPT ![r] = slot'[r]]
        /\ slot'[r] = Answered(r, IF Shape(slot[r].body) = "gemini" THEN "rejected" ELSE "failed", "garbled")
    BY <1>0, <1>7 DEF Garble
  <2> QED BY <2>1, <2>2, AnsweredRow DEF RowOK, Plain
<1>8. CASE StreamEnds(r)
  <2>1. slot[r] \in BusyRow /\ RowOK(slot[r])
    BY <1>0, <1>8 DEF StreamEnds
  <2>2. /\ slot' = [slot EXCEPT ![r] = slot'[r]]
        /\ slot'[r] = Answered(r, "ok", "ok")
    BY <1>0, <1>8 DEF StreamEnds
  <2> QED BY <2>1, <2>2, AnsweredRow DEF RowOK, Plain
<1>9. CASE Abandon(r)
  <2>1. slot[r] \in BusyRow /\ RowOK(slot[r]) /\ slot[r].pc = "streaming"
    BY <1>0, <1>9 DEF Abandon
  <2>2. /\ slot' = [slot EXCEPT ![r] = slot'[r]]
        /\ slot'[r] = [slot[r] EXCEPT !.pc = "answered"]
    BY <1>0, <1>9 DEF Abandon
  <2> QED BY <2>1, <2>2, AbandonRow DEF RowOK, Plain
<1>10. CASE Finalize(r)
  <2>1. slot[r] \in BusyRow /\ RowOK(slot[r]) /\ slot[r].pc = "answered" /\ slot[r].conn = "open"
    BY <1>0, <1>10 DEF Finalize
  <2>2. /\ slot' = [slot EXCEPT ![r] = slot'[r]]
        /\ slot'[r] = [slot[r] EXCEPT !.conn = "closed"]
    BY <1>0, <1>10 DEF Finalize
  <2> QED BY <2>1, <2>2, CloseRow DEF RowOK, Plain
<1>11. CASE Leave(r)
  BY <1>0, <1>11 DEF Leave
<1>12. \/ Arrive(r) \/ Handle(r) \/ Send(r) \/ Break(r) \/ Refuse(r) \/ Accept(r)
       \/ Garble(r) \/ StreamEnds(r) \/ Abandon(r) \/ Finalize(r) \/ Leave(r)
  BY DEF Step
<1> QED
  BY <1>12, <1>1, <1>2, <1>3, <1>4, <1>5, <1>6, <1>7, <1>8, <1>9, <1>10, <1>11

------------------------------------------------------------------------------
\* A request past the guard is frozen, a refused one has a witness.
RowHistory(s) ==
  /\ s.pc = "queued" =>
       /\ Resolves(s.body)
       /\ Guarded(s.body) => frozen[Conversation(s.header)] = Prefix(s.body)
  /\ s.status = "conflict" =>
       \E j \in judged : j[1] = s.header /\ j[2] # Prefix(s.body)

\* What a provider saw is the frozen prefix of its conversation.
SentUnder(x, h, b) ==
  x = Seen(h, b) /\ Resolves(b) /\ frozen[Conversation(h)] = Prefix(b)

HistoryInv ==
  /\ frozen \in [Conversations -> {NoPrefix} \cup KnownPrefixes]
  /\ \A j \in judged : \E h \in Senders, p \in KnownPrefixes : j = <<h, p>>
  /\ \A h \in Senders :
       frozen[Conversation(h)] # NoPrefix => <<h, frozen[Conversation(h)]>> \in judged
  /\ \A x \in sent : \E h \in Senders, b \in Bodies : SentUnder(x, h, b)
  /\ \A r \in Requests : slot[r].pc # "free" => RowHistory(slot[r])

PoolInv == IsFiniteSet(Open) /\ Cardinality(Open) <= PoolSize

IInv == SlotInv /\ HistoryInv /\ PoolInv /\ restarts \in 0 .. MaxRestarts

LEMMA ConversationFacts ==
  /\ \A h \in Senders : Conversation(h) \in Conversations
  /\ \A g, h \in Senders : Conversation(g) = Conversation(h) => g = h
  BY GatewayAssumption DEF Senders, Conversation, Conversations

LEMMA KnownPrefix == \A b \in Bodies : Prefix(b) \in KnownPrefixes /\ Prefix(b) # NoPrefix
  BY PrefixAssumption DEF KnownPrefixes

\* The two halves of Handle: a refusal by the guard, or a request that goes on, whose
\* prefix is frozen and remembered if it is guarded.
LEMMA HandleEffect ==
  ASSUME SlotInv, NEW r \in Requests, Handle(r)
  PROVE  /\ slot[r] \in BusyRow /\ sent' = sent
         /\ \/ /\ slot'[r] = Answered(r, "conflict", "none")
               /\ frozen[Conversation(slot[r].header)] \notin {NoPrefix, Prefix(slot[r].body)}
               /\ frozen' = frozen /\ judged' = judged
            \/ /\ \/ slot'[r] = Answered(r, "rejected", "none")
                  \/ Resolves(slot[r].body) /\ slot'[r] = [slot[r] EXCEPT !.pc = "queued"]
               /\ \/ /\ frozen[Conversation(slot[r].header)] \in {NoPrefix, Prefix(slot[r].body)}
                     /\ frozen' = [frozen EXCEPT ![Conversation(slot[r].header)] = Prefix(slot[r].body)]
                     /\ judged' = judged \cup {<<slot[r].header, Prefix(slot[r].body)>>}
                  \/ ~Guarded(slot[r].body) /\ frozen' = frozen /\ judged' = judged
<1>1. slot \in [Requests -> SlotType] /\ slot[r].pc = "received" /\ slot[r] \in BusyRow
  BY DEF SlotInv, Handle
<1>2. sent' = sent
  BY DEF Handle
<1>3. CASE Guarded(slot[r].body) /\ Conflict(Conversation(slot[r].header), Prefix(slot[r].body))
  BY <1>1, <1>2, <1>3 DEF Handle, Conflict
<1>4. CASE ~(Guarded(slot[r].body) /\ Conflict(Conversation(slot[r].header), Prefix(slot[r].body)))
  <2>1. \/ slot'[r] = Answered(r, "rejected", "none")
        \/ Resolves(slot[r].body) /\ slot'[r] = [slot[r] EXCEPT !.pc = "queued"]
    BY <1>1, <1>4 DEF Handle
  <2>2. CASE Guarded(slot[r].body)
    BY <1>1, <1>2, <1>4, <2>1, <2>2 DEF Handle, Conflict
  <2>3. CASE ~Guarded(slot[r].body)
    BY <1>1, <1>2, <1>4, <2>1, <2>3 DEF Handle
  <2> QED BY <2>2, <2>3
<1> QED BY <1>3, <1>4

LEMMA SlotStep ==
  ASSUME SlotInv, NEW r \in Requests, Step(r)
  PROVE  SlotInv'
<1>1. slot \in [Requests -> SlotType]
  BY DEF SlotInv
<1>2. slot' = [slot EXCEPT ![r] = slot'[r]] /\ (slot'[r] = Free \/ (slot'[r] \in BusyRow /\ RowOK(slot'[r])))
  BY RowStep
<1>3. slot' \in [Requests -> SlotType]
  BY <1>1, <1>2, SlotSplit
<1>4. ASSUME NEW q \in Requests, slot'[q].pc # "free" PROVE slot'[q] \in BusyRow /\ RowOK(slot'[q])
  <2>1. CASE q = r
    BY <2>1, <1>2, <1>4 DEF Free
  <2>2. CASE q # r
    BY <2>2, <1>1, <1>2, <1>4 DEF SlotInv
  <2> QED BY <2>1, <2>2
<1> QED BY <1>3, <1>4 DEF SlotInv, RowOK

\* A boundary, once registered, stays.
Kept == \A c \in Conversations : frozen[c] # NoPrefix => frozen'[c] = frozen[c]

LEMMA HandleKeeps ==
  ASSUME SlotInv, HistoryInv, NEW r \in Requests, Handle(r)
  PROVE  /\ Kept
         /\ judged \subseteq judged' /\ sent' = sent
         /\ frozen' \in [Conversations -> {NoPrefix} \cup KnownPrefixes]
         /\ \A j \in judged' : \E h \in Senders, p \in KnownPrefixes : j = <<h, p>>
         /\ \A h \in Senders :
              frozen'[Conversation(h)] # NoPrefix => <<h, frozen'[Conversation(h)]>> \in judged'
<1> DEFINE h0 == slot[r].header
           p0 == Prefix(slot[r].body)
<1>1. frozen \in [Conversations -> {NoPrefix} \cup KnownPrefixes]
  BY DEF HistoryInv
<1>2. slot[r] \in BusyRow /\ sent' = sent
  BY HandleEffect
<1>3. h0 \in Senders /\ slot[r].body \in Bodies
  BY <1>2 DEF BusyRow
<1>4. p0 \in KnownPrefixes /\ p0 # NoPrefix /\ Conversation(h0) \in Conversations
  BY <1>3, KnownPrefix, ConversationFacts
<1>5. CASE frozen' = frozen /\ judged' = judged
  BY <1>1, <1>2, <1>5 DEF HistoryInv, Kept
<1>6. CASE /\ frozen[Conversation(h0)] \in {NoPrefix, p0}
           /\ frozen' = [frozen EXCEPT ![Conversation(h0)] = p0]
           /\ judged' = judged \cup {<<h0, p0>>}
  <2> HIDE DEF h0, p0
  <2>1. Kept /\ frozen' \in [Conversations -> {NoPrefix} \cup KnownPrefixes]
    BY <1>1, <1>4, <1>6 DEF Kept
  <2>2. \A j \in judged' : \E h \in Senders, p \in KnownPrefixes : j = <<h, p>>
    BY <1>3, <1>4, <1>6 DEF HistoryInv
  <2>3. ASSUME NEW h \in Senders, frozen'[Conversation(h)] # NoPrefix
        PROVE  <<h, frozen'[Conversation(h)]>> \in judged'
    <3>1. CASE h = h0
      BY <1>1, <1>4, <1>6, <3>1
    <3>2. CASE h # h0
      <4>1. Conversation(h) # Conversation(h0) /\ Conversation(h) \in Conversations
        BY <1>3, <3>2, ConversationFacts
      <4> QED BY <1>1, <1>6, <2>3, <4>1 DEF HistoryInv
    <3> QED BY <3>1, <3>2
  <2> QED BY <1>2, <1>6, <2>1, <2>2, <2>3
<1> QED BY <1>5, <1>6, HandleEffect

\* The handled request has its history, whichever way the guard went.
LEMMA HandledRow ==
  ASSUME SlotInv, HistoryInv, NEW r \in Requests, Handle(r)
  PROVE  RowHistory(slot[r])'
<1>1. /\ frozen \in [Conversations -> {NoPrefix} \cup KnownPrefixes]
      /\ slot \in [Requests -> SlotType]
  BY DEF HistoryInv, SlotInv
<1>2. slot[r] \in BusyRow /\ RowOK(slot[r]) /\ slot[r].pc = "received"
  BY DEF SlotInv, Handle
<1>3. /\ slot[r].header \in Senders /\ slot[r].body \in Bodies
      /\ Conversation(slot[r].header) \in Conversations
  BY <1>2, ConversationFacts DEF BusyRow
<1>4. CASE /\ slot'[r] = Answered(r, "conflict", "none")
           /\ frozen[Conversation(slot[r].header)] \notin {NoPrefix, Prefix(slot[r].body)}
           /\ frozen' = frozen /\ judged' = judged
  <2>1. <<slot[r].header, frozen[Conversation(slot[r].header)]>> \in judged'
    BY <1>3, <1>4 DEF HistoryInv
  <2>2. /\ slot'[r].pc = "answered" /\ slot'[r].header = slot[r].header
        /\ slot'[r].body = slot[r].body
    BY <1>2, <1>4, AnsweredRow
  <2>3. \E j \in judged' : j[1] = slot'[r].header /\ j[2] # Prefix(slot'[r].body)
    <3> DEFINE j0 == <<slot[r].header, frozen[Conversation(slot[r].header)]>>
    <3>1. j0 \in judged' /\ j0[1] = slot'[r].header /\ j0[2] # Prefix(slot'[r].body)
      BY <1>4, <2>1, <2>2
    <3> QED BY <3>1
  <2> QED BY <2>2, <2>3 DEF RowHistory
<1>5. CASE slot'[r] = Answered(r, "rejected", "none")
  <2>1. slot'[r].pc = "answered" /\ slot'[r].status = "rejected"
    BY <1>2, <1>5, AnsweredRow
  <2> QED BY <2>1 DEF RowHistory
<1>6. CASE /\ Resolves(slot[r].body) /\ slot'[r] = [slot[r] EXCEPT !.pc = "queued"]
           /\ \/ frozen' = [frozen EXCEPT ![Conversation(slot[r].header)] = Prefix(slot[r].body)]
              \/ ~Guarded(slot[r].body)
  <2>1. /\ slot'[r].header = slot[r].header /\ slot'[r].body = slot[r].body
        /\ slot'[r].status = "none"
    BY <1>2, <1>6, QueueRow DEF RowOK
  <2>2. Guarded(slot[r].body) =>
          frozen'[Conversation(slot[r].header)] = Prefix(slot[r].body)
    BY <1>1, <1>3, <1>6
  <2> QED BY <1>6, <2>1, <2>2 DEF RowHistory
<1> QED BY <1>4, <1>5, <1>6, HandleEffect

\* Every other step leaves boundaries and judgements alone, and only Send adds to
\* what providers saw.
LEMMA OtherEffect ==
  ASSUME NEW r \in Requests, Step(r), ~Handle(r)
  PROVE  /\ frozen' = frozen /\ judged' = judged
         /\ \/ sent' = sent
            \/ /\ slot[r].pc = "queued" /\ Guarded(slot[r].body)
               /\ sent' = sent \cup {Seen(slot[r].header, slot[r].body)}
  BY DEF Step, Arrive, Handle, Send, Break, Refuse, Accept, Garble, StreamEnds, Abandon,
         Finalize, Leave

LEMMA HistoryStep ==
  ASSUME SlotInv, HistoryInv, NEW r \in Requests, Step(r)
  PROVE  HistoryInv'
<1>1. /\ slot' = [slot EXCEPT ![r] = slot'[r]]
      /\ Handle(r) \/ slot'[r] = Free \/ Plain(slot'[r])
  BY RowStep
<1>2. slot \in [Requests -> SlotType]
  BY DEF SlotInv
<1>3. /\ Kept /\ judged \subseteq judged'
      /\ frozen' \in [Conversations -> {NoPrefix} \cup KnownPrefixes]
      /\ \A j \in judged' : \E h \in Senders, p \in KnownPrefixes : j = <<h, p>>
      /\ \A h \in Senders :
           frozen'[Conversation(h)] # NoPrefix => <<h, frozen'[Conversation(h)]>> \in judged'
  <2>1. CASE Handle(r)
    BY <2>1, HandleKeeps
  <2>2. CASE ~Handle(r)
    BY <2>2, OtherEffect DEF HistoryInv, Kept
  <2> QED BY <2>1, <2>2
<1>4. \A x \in sent' : \E h \in Senders, b \in Bodies : SentUnder(x, h, b)'
  <2>1. ASSUME NEW x \in sent PROVE \E h \in Senders, b \in Bodies : SentUnder(x, h, b)'
    <3>1. PICK h \in Senders, b \in Bodies : SentUnder(x, h, b)
      BY DEF HistoryInv
    <3>2. Conversation(h) \in Conversations /\ Prefix(b) # NoPrefix
      BY ConversationFacts, KnownPrefix
    <3>3. SentUnder(x, h, b)'
      BY <1>3, <3>1, <3>2 DEF Kept, SentUnder
    <3> QED BY <3>3
  <2>2. ASSUME NEW x, x = Seen(slot[r].header, slot[r].body),
               slot[r].pc = "queued", Guarded(slot[r].body), frozen' = frozen
        PROVE  \E h \in Senders, b \in Bodies : SentUnder(x, h, b)'
    <3>1. slot[r].header \in Senders /\ slot[r].body \in Bodies /\ RowHistory(slot[r])
      BY <2>2 DEF SlotInv, HistoryInv, BusyRow
    <3>2. PICK h \in Senders, b \in Bodies : h = slot[r].header /\ b = slot[r].body
      BY <3>1
    <3>3. frozen'[Conversation(h)] = Prefix(b) /\ Resolves(b)
      BY <2>2, <3>1, <3>2 DEF RowHistory
    <3>4. SentUnder(x, h, b)'
      BY <2>2, <3>2, <3>3 DEF SentUnder
    <3> QED BY <3>4
  <2>3. CASE Handle(r)
    BY <2>1, <2>3, HandleKeeps
  <2>4. CASE ~Handle(r)
    BY <2>1, <2>2, <2>4, OtherEffect
  <2> QED BY <2>3, <2>4
<1>5. ASSUME NEW q \in Requests, slot'[q].pc # "free" PROVE RowHistory(slot[q])'
  <2>1. CASE q # r
    <3>1. slot'[q] = slot[q] /\ RowHistory(slot[q]) /\ slot[q] \in BusyRow
      BY <1>1, <1>2, <1>5, <2>1 DEF HistoryInv, SlotInv
    <3>2. slot[q].header \in Senders /\ slot[q].body \in Bodies
      BY <3>1 DEF BusyRow
    <3>3. /\ Conversation(slot[q].header) \in Conversations
          /\ Prefix(slot[q].body) # NoPrefix
      BY <3>2, ConversationFacts, KnownPrefix
    <3> QED BY <1>3, <3>1, <3>3 DEF RowHistory, Kept
  <2>2. CASE q = r /\ Handle(r)
    BY <2>2, HandledRow
  <2>3. CASE q = r /\ ~Handle(r)
    <3>1. Plain(slot'[r])
      BY <1>1, <1>5, <2>3 DEF Free
    <3> QED BY <2>3, <3>1 DEF Plain, RowHistory
  <2> QED BY <2>1, <2>2, <2>3
<1> QED BY <1>3, <1>4, <1>5 DEF HistoryInv

LEMMA OneMore ==
  ASSUME NEW S, IsFiniteSet(S), NEW x
  PROVE  /\ IsFiniteSet(S \cup {x})
         /\ Cardinality(S \cup {x}) \in Nat
         /\ Cardinality(S \cup {x}) <= Cardinality(S) + 1
<1>1. Cardinality(S) \in Nat
  BY FS_CardinalityType
<1>2. /\ IsFiniteSet(S \cup {x})
      /\ Cardinality(S \cup {x}) = IF x \in S THEN Cardinality(S) ELSE Cardinality(S) + 1
  BY FS_AddElement
<1> QED BY <1>1, <1>2

\* Only Send opens a connection, and only while the pool has room.
LEMMA PoolStep ==
  ASSUME SlotInv, PoolInv, NEW r \in Requests, Step(r)
  PROVE  PoolInv'
<1>1. /\ slot' = [slot EXCEPT ![r] = slot'[r]]
      /\ \/ Send(r) \/ slot'[r] = Free \/ slot'[r].conn # "open"
         \/ slot[r].pc # "free" /\ slot[r].conn = "open"
  BY RowStep
<1>2. slot \in [Requests -> SlotType]
  BY DEF SlotInv
<1>3. IsFiniteSet(Open) /\ Cardinality(Open) \in Nat /\ PoolSize \in Nat
  BY FS_CardinalityType, GatewayAssumption DEF PoolInv
<1>4. Open' \subseteq Open \cup {r}
  BY <1>1, <1>2 DEF Open
<1>5. CASE Send(r)
  <2>1. Cardinality(Open) < PoolSize
    BY <1>5 DEF Send
  <2>2. /\ IsFiniteSet(Open \cup {r})
        /\ Cardinality(Open \cup {r}) \in Nat
        /\ Cardinality(Open \cup {r}) <= Cardinality(Open) + 1
    BY <1>3, OneMore
  <2>3. /\ IsFiniteSet(Open') /\ Cardinality(Open') \in Nat
        /\ Cardinality(Open') <= Cardinality(Open \cup {r})
    BY <1>4, <2>2, FS_Subset, FS_CardinalityType
  <2> QED BY <1>3, <2>1, <2>2, <2>3 DEF PoolInv
<1>6. CASE ~Send(r)
  <2>1. Open' \subseteq Open
    <3>1. r \in Open' => r \in Open
      BY <1>1, <1>6 DEF Open, Free
    <3> QED BY <1>4, <3>1
  <2>2. /\ IsFiniteSet(Open') /\ Cardinality(Open') \in Nat
        /\ Cardinality(Open') <= Cardinality(Open)
    BY <1>3, <2>1, FS_Subset, FS_CardinalityType
  <2> QED BY <1>3, <2>2 DEF PoolInv
<1> QED BY <1>5, <1>6

------------------------------------------------------------------------------
\* A process without requests remembers nothing it has to keep.
Empty ==
  /\ frozen = [c \in Conversations |-> NoPrefix] /\ slot = [r \in Requests |-> Free]
  /\ judged = {} /\ sent = {}

LEMMA EmptyState == Empty => SlotInv /\ HistoryInv /\ PoolInv
<1> SUFFICES ASSUME Empty PROVE SlotInv /\ HistoryInv /\ PoolInv
  OBVIOUS
<1> USE DEF Empty
<1>1. SlotInv
  BY SlotSplit DEF SlotInv, Free
<1>2. HistoryInv
  BY ConversationFacts DEF HistoryInv, Free
<1>3. PoolInv
  <2>1. Open = {}
    BY DEF Open, Free
  <2> QED BY <2>1, FS_EmptySet, GatewayAssumption DEF PoolInv
<1> QED BY <1>1, <1>2, <1>3

LEMMA InitIInv == Init => IInv
  BY EmptyState, GatewayAssumption DEF Init, Empty, IInv

LEMMA NextIInv == IInv /\ [Next]_vars => IInv'
<1> SUFFICES ASSUME IInv, [Next]_vars PROVE IInv'
  OBVIOUS
<1>1. CASE Restart
  <2>1. Empty'
    BY <1>1 DEF Restart, Empty
  <2>3. (SlotInv /\ HistoryInv /\ PoolInv)'
    BY <2>1, EmptyState, PTL
  <2>2. (restarts \in 0 .. MaxRestarts)'
    BY <1>1, GatewayAssumption DEF Restart, IInv
  <2> QED BY <2>2, <2>3 DEF IInv
<1>2. ASSUME NEW r \in Requests, Step(r) PROVE IInv'
  <2>1. restarts' = restarts
    BY <1>2 DEF Step, Arrive, Handle, Send, Break, Refuse, Accept, Garble, StreamEnds,
                Abandon, Finalize, Leave
  <2> QED BY <1>2, <2>1, SlotStep, HistoryStep, PoolStep DEF IInv
<1>3. CASE UNCHANGED vars
  BY <1>3 DEF vars, IInv, SlotInv, RowOK, HistoryInv, RowHistory, SentUnder, PoolInv, Open
<1> QED BY <1>1, <1>2, <1>3 DEF Next

LEMMA Invariance == Spec => []IInv
  BY InitIInv, NextIInv, PTL DEF Spec

\* The state keeps its shape and the pool is never overdrawn: httpx's limits
\* (server.py's lifespan) hold for any number of requests, providers and restarts.
THEOREM GatewayTyping == Spec => []GatewayTypeOK
<1>1. IInv => GatewayTypeOK
  <2> SUFFICES ASSUME IInv PROVE GatewayTypeOK
    OBVIOUS
  <2>1. judged \subseteq Senders \X KnownPrefixes
    BY DEF IInv, HistoryInv
  <2>2. sent \subseteq {Seen(h, b) : h \in Senders, b \in {x \in Bodies : Resolves(x)}}
    BY DEF IInv, HistoryInv, SentUnder
  <2> QED BY <2>1, <2>2
          DEF IInv, SlotInv, HistoryInv, PoolInv, GatewayTypeOK, Senders, KnownPrefixes
<1> QED BY <1>1, Invariance, PTL

\* BoundaryGuard's promise in every interleaving: no provider sees two prefixes in one
\* conversation of one process, but for system messages that Gemini's translation
\* moves.
THEOREM PrefixStability == Spec => []GuardedPrefixStable
<1>1. IInv => GuardedPrefixStable
  <2> SUFFICES ASSUME IInv, NEW x \in sent, NEW y \in sent,
                      x.header = y.header, ~x.hoisted, ~y.hoisted
               PROVE  x.prefix = y.prefix
    BY DEF GuardedPrefixStable
  <2>1. PICK h \in Senders, b \in Bodies : SentUnder(x, h, b)
    BY DEF IInv, HistoryInv
  <2>2. PICK g \in Senders, d \in Bodies : SentUnder(y, g, d)
    BY DEF IInv, HistoryInv
  <2>3. /\ x.header = h /\ x.prefix = UpstreamPrefix(b) /\ ~Hoisted(b) /\ Resolves(b)
        /\ y.header = g /\ y.prefix = UpstreamPrefix(d) /\ ~Hoisted(d) /\ Resolves(d)
    BY <2>1, <2>2 DEF SentUnder, Seen
  <2>4. Prefix(b) = Prefix(d)
    BY <2>1, <2>2, <2>3 DEF SentUnder
  <2> QED BY <2>3, <2>4, PrefixAssumption
<1> QED BY <1>1, Invariance, PTL

\* A 409 of chat_completions or messages always has an earlier request of the same
\* header with another prefix to blame.
THEOREM NoFalseConflict == Spec => []ConflictsAreTrue
<1>1. IInv => ConflictsAreTrue
  BY DEF IInv, HistoryInv, RowHistory, ConflictsAreTrue
<1> QED BY <1>1, Invariance, PTL

\* What the client hears of the provider is what the provider said.
THEOREM Truthfulness == Spec => []TruthfulStatus
<1>1. IInv => TruthfulStatus
  <2> SUFFICES ASSUME IInv, NEW r \in Requests, slot[r].pc # "free"
               PROVE  /\ slot[r].status \in {"ok", "cut"} => slot[r].upstream \in {"ok", "broken"}
                      /\ slot[r].upstream = "refused" => slot[r].status = "refused"
                      /\ slot[r].status = "conflict" => slot[r].conn = "none"
    BY DEF TruthfulStatus
  <2>1. slot[r] \in BusyRow /\ RowOK(slot[r])
    BY DEF IInv, SlotInv
  <2>2. slot[r].pc \in {"received", "queued", "waiting", "streaming", "answered"}
    BY <2>1 DEF BusyRow
  <2> QED BY <2>1, <2>2 DEF RowOK
<1> QED BY <1>1, Invariance, PTL
==============================================================================
