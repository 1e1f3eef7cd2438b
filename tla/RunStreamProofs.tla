---------------------------- MODULE RunStreamProofs ----------------------------
(***************************************************************************)
(* The engine with real pages in front of it is the engine: proofs about   *)
(* RunStream for every number of tabs, connections, runs and tasks.        *)
(***************************************************************************)
EXTENDS RunStream, PlaybookDriverProofs

EventTypes == TerminalEvents \cup {"none", "step_started", "step_completed"}
FrameRow == [type : EventTypes, index : 0 .. MaxSteps]
ConnRow == [phase : {"free", "requested", "live"}, run : Runs \cup {NoRun},
            tab : Tabs \cup {NoTab}, inbox : Seq(FrameRow)]
TabRow == [phase : {"closed", "loading", "stuck", "connecting", "streaming", "ended"},
           run : Runs \cup {NoRun}, snapshot : 0 .. MaxSteps, latest : FrameRow]

StreamTypeOK ==
  /\ bus \in [Runs -> Conns \cup {NoConn}]
  /\ conn \in [Conns -> ConnRow]
  /\ tab \in [Tabs -> TabRow]

\* A page that shows gate i of r tells nothing new, or the truth.
Fresh(r, i) ==
  \/ i = NoGate \/ i \in shown[r]
  \/ run[r].status = "paused" /\ run[r].index = i

Told(r, frame) == frame.type = "gate_paused" => Fresh(r, frame.index)

ConnOK(c) ==
  /\ IF conn[c].phase = "free" THEN conn[c].inbox = <<>>
     ELSE conn[c].run \in Runs /\ Created(conn[c].run)
  /\ conn[c].tab # NoTab =>
       /\ conn[c].phase # "free"
       /\ tab[conn[c].tab].phase = "streaming" /\ tab[conn[c].tab].run = conn[c].run
       /\ \A d \in Conns : conn[d].tab = conn[c].tab => d = c
  /\ \A n \in DOMAIN conn[c].inbox : Told(conn[c].run, conn[c].inbox[n])

TabOK(v) ==
  tab[v].phase # "closed" =>
    /\ tab[v].run \in Runs /\ Created(tab[v].run)
    /\ tab[v].phase = "loading" => tab[v].latest.type = "none"
    /\ tab[v].snapshot = NoGate \/ tab[v].snapshot \in shown[tab[v].run]

BusOK(r) ==
  bus[r] # NoConn => conn[bus[r]].phase = "live" /\ conn[bus[r]].run = r

StreamInv ==
  /\ StreamTypeOK
  /\ \A c \in Conns : ConnOK(c)
  /\ \A v \in Tabs : TabOK(v)
  /\ \A r \in Runs : BusOK(r)

EngineInv == TypeInv /\ OwnInv /\ FrontInv /\ ReviewInv /\ NoUnseenDecision

------------------------------------------------------------------------------
(***************************************************************************)
(* What the engine does to runs a page knows of.                           *)
(***************************************************************************)
\* No step forgets a run, a gate that was shown, or a pause before anybody saw it.
Remembers ==
  \A r \in Runs :
    /\ Created(r) => Created(r)'
    /\ shown[r] \subseteq shown'[r]
    /\ run[r].status = "paused" /\ run[r].index \in Steps \ shown[r] => run'[r] = run[r]

LEMMA StepRemembers ==
  ASSUME EngineInv, NEW t \in Coroutines, Step(t)
  PROVE  Remembers
<1>1. /\ task[t].pc \in WorkingPCs /\ Others(t)
      /\ Works(t) \/ Advances(t) \/ Leaves(t)
  BY StepEffect DEF EngineInv
<1>2. PICK r \in Runs : r = task[t].run /\ Owns(t) /\ TaskReview(t)
  BY <1>1, AtWork DEF EngineInv, TypeInv, OwnInv, ReviewInv
<1>3. shown' = shown /\ \A q \in Runs : q # r => run'[q] = run[q]
  BY <1>1, <1>2 DEF Others
<1>4. Created(r)'
  BY <1>1, <1>2 DEF Works, Advances, Leaves, Owns, Created, TerminalStatus
<1>5. ~(run[r].status = "paused" /\ run[r].index \in Steps \ shown[r])
  <2> SUFFICES ASSUME run[r].status = "paused", run[r].index \in Steps PROVE run[r].index \in shown[r]
    OBVIOUS
  <2>1. task[t].pc \in DecidedPCs /\ task[t].index = run[r].index
    BY <1>1, <1>2, PCClasses DEF Owns
  <2>2. gateDecisions[r][run[r].index] # <<>>
    BY <1>2, <2>1 DEF TaskReview
  <2> QED
    BY <2>2 DEF EngineInv, NoUnseenDecision
<1> QED
  BY <1>3, <1>4, <1>5 DEF Remembers, Created

LEMMA NextRemembers ==
  ASSUME EngineInv, [Next]_vars
  PROVE  Remembers
<1>0. run \in [Runs -> RunRow] /\ shown \in [Runs -> SUBSET Steps]
  BY DEF EngineInv, TypeInv, TypeOK, StoreTypeOK
<1>1. CASE \E t \in Coroutines : Step(t)
  BY <1>1, StepRemembers
<1>2. ASSUME NEW t \in Tasks, NEW p \in Playbooks, NEW r \in Runs, CreateRun(t, p, r)
      PROVE  Remembers
  <2>1. /\ run[r].status = "absent" /\ shown' = shown
        /\ run' = [run EXCEPT ![r] = [playbook |-> p, status |-> "running", index |-> 0]]
    BY <1>2 DEF CreateRun, CreateRunRow
  <2>2. \A q \in Runs : q # r => run'[q] = run[q]
    BY <1>0, <2>1
  <2> QED
    BY <2>1, <2>2 DEF Remembers, Created
<1>3. ASSUME run' = run, \A r \in Runs : shown[r] \subseteq shown'[r] PROVE Remembers
  BY <1>3 DEF Remembers, Created
<1>4. ASSUME NEW r \in Runs, ShowGate(r) PROVE Remembers
  BY <1>0, <1>3, <1>4 DEF ShowGate, storeVars
<1>5. ASSUME NEW t \in Tasks, NEW r \in Runs, NEW i \in Steps, NEW d \in Submissions,
             AcceptDecision(t, r, i, d)
      PROVE  Remembers
  BY <1>3, <1>5 DEF AcceptDecision
<1>6. ASSUME NEW p \in Playbooks, NEW d \in PutDefinitions, UpdatePlaybook(p, d)
      PROVE  Remembers
  BY <1>3, <1>6 DEF UpdatePlaybook, engineVars
<1>7. CASE Crash \/ Restart \/ Recover \/ UNCHANGED vars
  BY <1>3, <1>7
  DEF Crash, Restart, Recover, RecoveryDies, RecoveryEnds, RecoverRun, vars, storeVars,
      engineVars
<1> QED
  BY <1>1, <1>2, <1>4, <1>5, <1>6, <1>7 DEF Next

LEMMA StaysFresh ==
  ASSUME EngineInv, Remembers, NEW r \in Runs, NEW i \in 0 .. MaxSteps, Fresh(r, i)
  PROVE  Fresh(r, i)'
<1>1. i = NoGate \/ i \in Steps
  BY ConstantFacts DEF NoGate, Steps
<1> QED
  BY <1>1 DEF Fresh, Remembers, NoGate

------------------------------------------------------------------------------
(***************************************************************************)
(* What nobody touches stays right.                                        *)
(***************************************************************************)
LEMMA StreamFacts ==
  ASSUME StreamTypeOK
  PROVE  /\ \A c \in Conns :
              /\ conn[c] \in ConnRow /\ conn[c].inbox \in Seq(FrameRow)
              /\ conn[c].run \in Runs \cup {NoRun} /\ conn[c].tab \in Tabs \cup {NoTab}
         /\ \A v \in Tabs :
              /\ tab[v] \in TabRow /\ tab[v].snapshot \in 0 .. MaxSteps
              /\ tab[v].latest \in FrameRow /\ tab[v].run \in Runs \cup {NoRun}
         /\ \A r \in Runs : bus[r] \in Conns \cup {NoConn}
  BY DEF StreamTypeOK, ConnRow, TabRow

LEMMA StaysTold ==
  ASSUME EngineInv, Remembers, NEW r \in Runs, NEW frame \in FrameRow, Told(r, frame)
  PROVE  Told(r, frame)'
  BY StaysFresh DEF Told, FrameRow

\* The frames of a connection that keeps them.
LEMMA InboxKept ==
  ASSUME EngineInv, Remembers, StreamTypeOK, NEW c \in Conns, ConnOK(c),
         NEW n \in DOMAIN conn[c].inbox
  PROVE  Told(conn[c].run, conn[c].inbox[n]) /\ conn[c].inbox[n] \in FrameRow
  BY StreamFacts DEF ConnOK

LEMMA ConnKept ==
  ASSUME EngineInv, Remembers, StreamTypeOK, NEW c \in Conns, ConnOK(c),
         conn'[c] = conn[c],
         conn[c].tab # NoTab =>
           /\ tab'[conn[c].tab].phase = "streaming"
           /\ tab'[conn[c].tab].run = conn[c].run
           /\ \A d \in Conns : conn'[d].tab = conn[c].tab => d = c
  PROVE  ConnOK(c)'
<1>1. conn[c].phase # "free" => conn[c].run \in Runs /\ Created(conn[c].run)'
  BY DEF ConnOK, Remembers
<1>2. ASSUME NEW n \in DOMAIN conn[c].inbox
      PROVE  Told(conn[c].run, conn[c].inbox[n])'
  BY <1>2, InboxKept, StaysTold DEF ConnOK
<1> QED
  BY <1>1, <1>2 DEF ConnOK, Created, Told, Fresh

LEMMA TabKept ==
  ASSUME EngineInv, Remembers, NEW v \in Tabs, TabOK(v), tab'[v] = tab[v]
  PROVE  TabOK(v)'
  BY DEF TabOK, Created, Remembers

LEMMA BusKept ==
  ASSUME StreamTypeOK, NEW r \in Runs, BusOK(r), bus'[r] = bus[r],
         bus[r] # NoConn =>
           conn'[bus[r]].phase = conn[bus[r]].phase /\ conn'[bus[r]].run = conn[bus[r]].run
  PROVE  BusOK(r)'
  BY DEF BusOK

LEMMA QuietKeeps ==
  ASSUME EngineInv, Remembers, StreamInv, UNCHANGED streamVars
  PROVE  StreamInv'
<1>1. StreamTypeOK /\ bus' = bus /\ conn' = conn /\ tab' = tab
  BY DEF StreamInv, streamVars
<1>2. \A v \in Tabs : TabOK(v)'
  BY <1>1, TabKept DEF StreamInv
<1>3. \A c \in Conns : ConnOK(c)'
  BY <1>1, ConnKept DEF StreamInv, ConnOK
<1>4. \A q \in Runs : BusOK(q)'
  BY <1>1, BusKept DEF StreamInv
<1> QED
  BY <1>1, <1>2, <1>3, <1>4 DEF StreamInv, StreamTypeOK

LEMMA PublishKeeps ==
  ASSUME EngineInv, Remembers, StreamInv, NEW r \in Runs, NEW type \in EventTypes,
         NEW i \in 0 .. MaxSteps, Publish(r, type, i),
         type = "gate_paused" => Fresh(r, i)'
  PROVE  StreamInv'
<1> DEFINE frame == [type |-> type, index |-> i]
<1>1. StreamTypeOK /\ frame \in FrameRow /\ bus' = bus /\ tab' = tab
  BY DEF StreamInv, FrameRow, Publish
<1>2. \A v \in Tabs : TabOK(v)'
  BY <1>1, TabKept DEF StreamInv
<1>3. CASE bus[r] = NoConn
  BY <1>1, <1>3, QuietKeeps DEF Publish, streamVars
<1>4. CASE bus[r] # NoConn
  <2>1. PICK c \in Conns : c = bus[r]
    BY <1>1, <1>4, StreamFacts
  <2>2. conn[c] \in ConnRow /\ conn[c].run = r /\ conn[c].phase = "live" /\ ConnOK(c)
    BY <1>1, <2>1, <1>4, StreamFacts DEF StreamInv, BusOK
  <2> DEFINE queue == Append(conn[c].inbox, frame)
             row == [conn[c] EXCEPT !.inbox = queue]
  <2>3. conn' = [conn EXCEPT ![c] = row]
    BY <1>4, <2>1 DEF Publish
  <2>4. /\ row.phase = "live" /\ row.run = r /\ row.tab = conn[c].tab
        /\ row.inbox = Append(conn[c].inbox, frame) /\ row \in ConnRow
    <3>1. queue \in Seq(FrameRow)
      BY <1>1, StreamFacts
    <3>2. row.inbox = queue
      BY <2>2 DEF ConnRow
    <3> HIDE DEF queue
    <3>3. row \in ConnRow /\ row.phase = "live" /\ row.run = r /\ row.tab = conn[c].tab
      BY <2>2, <3>1 DEF ConnRow
    <3> QED
      BY <3>2, <3>3 DEF queue
  <2> HIDE DEF row
  <2>5. /\ conn'[c] = row /\ conn' \in [Conns -> ConnRow]
        /\ \A d \in Conns : d # c => conn'[d] = conn[d]
    BY <1>1, <2>3, <2>4 DEF StreamTypeOK
  <2>6. \A d \in Conns : conn'[d].tab = conn[d].tab
    BY <2>4, <2>5
  <2>7. ASSUME NEW d \in Conns, d # c PROVE ConnOK(d)'
    BY <1>1, <2>5, <2>6, <2>7, ConnKept DEF StreamInv, ConnOK
  <2>8. ConnOK(c)'
    <3>1. row.inbox \in Seq(FrameRow) /\ conn[c].inbox \in Seq(FrameRow)
      BY <1>1, <2>4, StreamFacts DEF ConnRow
    <3>2. ASSUME NEW n \in DOMAIN row.inbox, NEW f \in FrameRow, f = row.inbox[n]
          PROVE  Told(r, f)'
      <4>1. CASE n \in DOMAIN conn[c].inbox
        <5>1. f = conn[c].inbox[n]
          BY <1>1, <2>4, <3>1, <3>2, <4>1
        <5>2. Told(r, f)
          BY <1>1, <2>2, <4>1, <5>1, InboxKept
        <5> QED
          BY <5>2, StaysTold
      <4>2. CASE n \notin DOMAIN conn[c].inbox
        <5>1. f = frame
          BY <1>1, <2>4, <3>1, <3>2, <4>2
        <5>2. f.type = type /\ f.index = i
          BY <5>1
        <5> QED
          BY <5>2 DEF Told
      <4> QED
        BY <4>1, <4>2
    <3>3. /\ conn'[c].phase = "live" /\ conn'[c].run = r /\ conn'[c].tab = conn[c].tab
          /\ conn'[c].inbox = row.inbox
      BY <2>4, <2>5
    <3>4. \A n \in DOMAIN conn'[c].inbox : conn'[c].inbox[n] \in FrameRow
      BY <3>1, <3>3
    <3>5. \A n \in DOMAIN conn'[c].inbox :
            /\ conn'[c].inbox[n].type = "gate_paused"
            => \/ conn'[c].inbox[n].index = NoGate \/ conn'[c].inbox[n].index \in shown'[r]
               \/ run'[r].status = "paused" /\ run'[r].index = conn'[c].inbox[n].index
      BY <3>2, <3>3, <3>4 DEF Told, Fresh
    <3>6. Created(r)'
      BY <2>2 DEF ConnOK, Remembers
    <3>7. conn'[c].tab # NoTab =>
            /\ conn'[c].phase # "free"
            /\ tab'[conn'[c].tab].phase = "streaming" /\ tab'[conn'[c].tab].run = conn'[c].run
            /\ \A d \in Conns : conn'[d].tab = conn'[c].tab => d = c
      BY <1>1, <2>2, <2>6, <3>3 DEF ConnOK
    <3>8. IF conn'[c].phase = "free" THEN conn'[c].inbox = <<>>
          ELSE conn'[c].run \in Runs /\ Created(conn[c].run)'
      BY <3>3, <3>6 DEF Created
    <3>9. \A n \in DOMAIN conn'[c].inbox : Told(conn[c].run, conn[c].inbox[n])'
      BY <3>3, <3>5 DEF Told, Fresh, NoGate
    <3> QED
      BY <3>7, <3>8, <3>9 DEF ConnOK
  <2>9. ASSUME NEW q \in Runs PROVE BusOK(q)'
    <3>1. \A d \in Conns : conn'[d].phase = conn[d].phase /\ conn'[d].run = conn[d].run
      BY <2>2, <2>4, <2>5
    <3>2. bus[q] \in Conns \cup {NoConn} /\ BusOK(q)
      BY <1>1, StreamFacts DEF StreamInv
    <3> QED
      BY <1>1, <3>1, <3>2, BusKept
  <2> QED
    BY <1>1, <1>2, <2>5, <2>7, <2>8, <2>9 DEF StreamInv, StreamTypeOK
<1> QED
  BY <1>3, <1>4

------------------------------------------------------------------------------
(***************************************************************************)
(* Steps of the engine.                                                    *)
(***************************************************************************)
LEMMA EngineStepKeeps ==
  ASSUME EngineInv, StreamInv, NEW t \in Coroutines, PublishingStep(t) \/ QuietStep(t)
  PROVE  Next /\ StreamInv'
<1>1. Step(t)
  BY DEF PublishingStep, QuietStep, Step
<1>2. Remembers
  BY <1>1, StepRemembers
<1>3. CASE QuietStep(t)
  BY <1>1, <1>2, <1>3, QuietKeeps DEF QuietStep, Next
<1>4. CASE PublishingStep(t)
  <2>1. PICK r \in Runs : r = task[t].run
    BY <1>1, StepEffect, AtWork DEF EngineInv, TypeInv
  <2>2. run[r] \in RunRow /\ run[r].index \in 0 .. MaxSteps
    BY DEF EngineInv, TypeInv, TypeOK, StoreTypeOK, RunRow
  <2>3. CASE PauseRun(t) /\ Publish(r, "gate_paused", run[r].index)
    <3>1. PICK i \in 0 .. MaxSteps : i = run[r].index
      BY <2>2
    <3>2. Fresh(r, i)'
      <4>1. run'[r].status = "paused" /\ run'[r].index = i
        BY <2>1, <2>3, <3>1, UpdatedRun DEF PauseRun, EngineInv, TypeInv, TypeOK
      <4> QED
        BY <4>1 DEF Fresh
    <3> QED
      BY <1>1, <1>2, <2>3, <3>1, <3>2, PublishKeeps DEF EventTypes, TerminalEvents, Next
  <2>4. CASE \E type \in EventTypes \ {"gate_paused"} : Publish(r, type, run[r].index)
    BY <1>1, <1>2, <2>2, <2>4, PublishKeeps DEF Next
  <2> QED
    BY <1>4, <2>1, <2>3, <2>4 DEF PublishingStep, EventTypes, TerminalEvents
<1> QED
  BY <1>3, <1>4

LEMMA RequestsKeep ==
  ASSUME EngineInv, StreamInv, Requests
  PROVE  Next /\ StreamInv'
<1>1. Next
  BY DEF Requests, Next
<1> QED
  BY <1>1, NextRemembers, QuietKeeps DEF Requests

\* What a page shows of its run is either known or a gate the run waits at.
LEMMA RenderShows ==
  ASSUME EngineInv, NEW v, NEW row, row.run \in Runs, Serving, Render(v, row),
         ShownGate(row) \in 0 .. MaxSteps, Fresh(row.run, ShownGate(row))
  PROVE  /\ [Next]_vars
         /\ ShownGate(row) = NoGate \/ ShownGate(row) \in shown'[row.run]
<1> DEFINE r == row.run
           g == ShownGate(row)
<1>1. /\ shown \in [Runs -> SUBSET Steps]
      /\ shown' = [shown EXCEPT ![r] = IF g = NoGate THEN @ ELSE @ \cup {g}]
      /\ UNCHANGED <<storeVars, task, active, toRecover, loaded, up, crashes>>
  BY DEF EngineInv, TypeInv, TypeOK, Render
<1>2. r \in Runs /\ (g = NoGate \/ g \in Steps)
  BY ConstantFacts DEF NoGate, Steps
<1>3. Fresh(r, g) /\ up /\ active = Idle
  BY DEF Serving
<1> HIDE DEF r, g
<1>4. CASE g = NoGate \/ g \in shown[r]
  <2>1. shown' = shown
    BY <1>1, <1>2, <1>4
  <2> QED
    BY <1>1, <1>4, <2>1 DEF vars, engineVars, g, r
<1>5. CASE g # NoGate /\ g \notin shown[r]
  <2>1. run[r].status = "paused" /\ run[r].index = g
    BY <1>3, <1>5 DEF Fresh
  <2>2. shown' = [shown EXCEPT ![r] = @ \cup {run[r].index}] /\ g \in shown'[r]
    BY <1>1, <1>2, <1>5, <2>1
  <2>3. ShowGate(r)
    BY <1>1, <1>2, <1>3, <1>5, <2>1, <2>2 DEF ShowGate
  <2> QED
    BY <1>2, <2>2, <2>3 DEF Next, g, r
<1> QED
  BY <1>4, <1>5

------------------------------------------------------------------------------
(***************************************************************************)
(* Steps of the endpoint and of the pages.                                 *)
(***************************************************************************)
\* A step that is not the engine's remembers everything.
LEMMA VarsRemember ==
  ASSUME UNCHANGED vars
  PROVE  Remembers
  BY DEF vars, storeVars, engineVars, Remembers, Created

LEMMA FreeConnFacts ==
  /\ FreeConn \in ConnRow /\ FreeConn.phase = "free" /\ FreeConn.run = NoRun
  /\ FreeConn.tab = NoTab /\ FreeConn.inbox = <<>>
  BY DEF FreeConn, ConnRow

LEMMA ClosedTabFacts ==
  /\ ClosedTab \in TabRow /\ ClosedTab.phase = "closed"
  /\ ClosedTab.snapshot = NoGate /\ ClosedTab.latest = NoEvent
  BY ConstantFacts DEF ClosedTab, TabRow, NoGate, NoEvent, FrameRow, EventTypes

LEMMA ReleaseKeeps ==
  ASSUME StreamInv, NEW c \in Conns, Release(c)
  PROVE  /\ conn'[c] = FreeConn /\ \A d \in Conns : d # c => conn'[d] = conn[d]
         /\ conn' \in [Conns -> ConnRow] /\ bus' \in [Runs -> Conns \cup {NoConn}]
         /\ \A r \in Runs : BusOK(r)'
         /\ ConnOK(c)'
<1>1. StreamTypeOK
  BY DEF StreamInv
<1>2. /\ conn'[c] = FreeConn /\ \A d \in Conns : d # c => conn'[d] = conn[d]
      /\ conn' \in [Conns -> ConnRow] /\ bus' \in [Runs -> Conns \cup {NoConn}]
  BY <1>1, FreeConnFacts DEF Release, StreamTypeOK
<1>3. ASSUME NEW r \in Runs PROVE BusOK(r)'
  <2>1. bus'[r] = NoConn \/ (bus'[r] = bus[r] /\ bus[r] # c)
    BY DEF Release
  <2>2. BusOK(r) /\ bus[r] \in Conns \cup {NoConn}
    BY <1>1, StreamFacts DEF StreamInv
  <2> QED
    BY <1>2, <2>1, <2>2 DEF BusOK
<1>4. ConnOK(c)'
  BY <1>2, FreeConnFacts DEF ConnOK
<1> QED
  BY <1>2, <1>3, <1>4

LEMMA ServeStreamKeeps ==
  ASSUME EngineInv, StreamInv, NEW c \in Conns, ServeStream(c)
  PROVE  UNCHANGED vars /\ StreamInv'
<1>1. /\ StreamTypeOK /\ ConnOK(c) /\ UNCHANGED vars /\ tab' = tab /\ conn[c] \in ConnRow
      /\ conn[c].phase = "requested"
  BY StreamFacts DEF StreamInv, ServeStream
<1>2. Remembers
  BY <1>1, VarsRemember
<1>3. PICK r \in Runs : r = conn[c].run /\ Created(r)
  BY <1>1 DEF ConnOK
<1>4. run[r] \in RunRow
  BY DEF EngineInv, TypeInv, TypeOK, StoreTypeOK
<1>5. run[r].status # "running" =>
        SnapshotFrame(r) \in FrameRow /\ Told(r, SnapshotFrame(r))
  BY <1>3, <1>4
  DEF RunRow, RunStatus, Created, SnapshotFrame, FrameRow, EventTypes, TerminalEvents, Told,
      Fresh
<1> DEFINE inbox == IF run[r].status = "running" THEN conn[c].inbox ELSE <<SnapshotFrame(r)>>
           row == [conn[c] EXCEPT !.phase = "live", !.inbox = inbox]
<1>6. /\ conn' = [conn EXCEPT ![c] = row]
      /\ bus' = IF run[r].status = "running" THEN [bus EXCEPT ![r] = c] ELSE bus
  BY <1>1, <1>3 DEF ServeStream, StreamTypeOK
<1>7. /\ row \in ConnRow /\ row.phase = "live" /\ row.run = r /\ row.tab = conn[c].tab
      /\ row.inbox = inbox
  <2>1. inbox \in Seq(FrameRow)
    BY <1>1, <1>5, StreamFacts
  <2> HIDE DEF inbox
  <2> QED
    BY <1>1, <1>3, <2>1 DEF ConnRow
<1>8. \A n \in DOMAIN inbox : Told(r, inbox[n])
  <2>1. \A n \in DOMAIN conn[c].inbox : Told(r, conn[c].inbox[n])
    BY <1>1, <1>3 DEF ConnOK
  <2>2. run[r].status # "running" => DOMAIN inbox = {1} /\ inbox[1] = SnapshotFrame(r)
    OBVIOUS
  <2> QED
    BY <1>5, <2>1, <2>2
<1> HIDE DEF row, inbox
<1>9. /\ conn'[c] = row /\ \A d \in Conns : d # c => conn'[d] = conn[d]
      /\ conn' \in [Conns -> ConnRow]
  BY <1>1, <1>6, <1>7 DEF StreamTypeOK
<1>10. \A d \in Conns : conn'[d].tab = conn[d].tab
  BY <1>7, <1>9
<1>11. ASSUME NEW d \in Conns, d # c PROVE ConnOK(d)'
  BY <1>1, <1>2, <1>9, <1>10, <1>11, ConnKept DEF StreamInv, ConnOK
<1>12. ConnOK(c)'
  <2>1. run' = run /\ shown' = shown
    BY <1>1 DEF vars, storeVars, engineVars
  <2>2. \A n \in DOMAIN conn'[c].inbox : Told(conn[c].run, conn[c].inbox[n])'
    BY <1>7, <1>8, <1>9, <2>1 DEF Told, Fresh
  <2>3. conn'[c].tab # NoTab =>
          /\ conn'[c].phase # "free"
          /\ tab'[conn'[c].tab].phase = "streaming" /\ tab'[conn'[c].tab].run = conn'[c].run
          /\ \A d \in Conns : conn'[d].tab = conn'[c].tab => d = c
    BY <1>1, <1>3, <1>7, <1>9, <1>10 DEF ConnOK
  <2> QED
    BY <1>3, <1>7, <1>9, <2>1, <2>2, <2>3 DEF ConnOK, Created
<1>13. \A v \in Tabs : TabOK(v)'
  BY <1>1, <1>2, TabKept DEF StreamInv
<1>14. ASSUME NEW q \in Runs PROVE BusOK(q)'
  <2>1. BusOK(q) /\ bus[q] \in Conns \cup {NoConn} /\ bus \in [Runs -> Conns \cup {NoConn}]
    BY <1>1, StreamFacts DEF StreamInv, StreamTypeOK
  <2>2. bus'[q] = bus[q] \/ (bus'[q] = c /\ q = r)
    BY <1>6, <2>1
  <2>3. \A d \in Conns : conn[d].phase = "live" => conn'[d].phase = "live" /\ conn'[d].run = conn[d].run
    BY <1>1, <1>9
  <2> QED
    BY <1>7, <1>9, <2>1, <2>2, <2>3 DEF BusOK
<1>15. StreamTypeOK'
  BY <1>1, <1>6, <1>9 DEF StreamTypeOK
<1> QED
  BY <1>1, <1>11, <1>12, <1>13, <1>14, <1>15 DEF StreamInv

LEMMA NoticeDisconnectKeeps ==
  ASSUME EngineInv, StreamInv, NEW c \in Conns, NoticeDisconnect(c)
  PROVE  UNCHANGED vars /\ StreamInv'
<1>1. /\ StreamTypeOK /\ UNCHANGED vars /\ tab' = tab /\ Release(c) /\ conn[c].tab = NoTab
  BY DEF StreamInv, NoticeDisconnect
<1>2. Remembers
  BY <1>1, VarsRemember
<1>3. \A d \in Conns : conn'[d].tab = conn[d].tab
  BY <1>1, ReleaseKeeps, FreeConnFacts
<1>4. ASSUME NEW d \in Conns PROVE ConnOK(d)'
  BY <1>1, <1>2, <1>3, ReleaseKeeps, ConnKept DEF StreamInv, ConnOK
<1>5. \A v \in Tabs : TabOK(v)'
  BY <1>1, <1>2, TabKept DEF StreamInv
<1> QED
  BY <1>1, <1>4, <1>5, ReleaseKeeps DEF StreamInv, StreamTypeOK

\* A page renders a row of its own run; nobody else's row changes.
LEMMA RenderKeepsTabs ==
  ASSUME EngineInv, StreamInv, NEW v \in Tabs, NEW row \in TabRow, row.run \in Runs,
         Created(row.run), row.phase # "loading", row.snapshot = NoGate \/ row.snapshot \in shown'[row.run],
         Remembers, Render(v, row)
  PROVE  /\ tab'[v] = row /\ tab' \in [Tabs -> TabRow]
         /\ \A w \in Tabs : w # v => tab'[w] = tab[w]
         /\ \A w \in Tabs : TabOK(w)'
<1>1. /\ tab'[v] = row /\ tab' \in [Tabs -> TabRow]
      /\ \A w \in Tabs : w # v => tab'[w] = tab[w]
  BY DEF StreamInv, StreamTypeOK, Render
<1>2. ASSUME NEW w \in Tabs, w # v PROVE TabOK(w)'
  BY <1>1, <1>2, TabKept DEF StreamInv
<1>3. TabOK(v)'
  <2>1. PICK r \in Runs : r = row.run
    OBVIOUS
  <2>2. Created(r)'
    BY <2>1 DEF Remembers
  <2> QED
    BY <1>1, <2>1, <2>2 DEF TabOK, Created, NoGate
<1> QED
  BY <1>1, <1>2, <1>3

LEMMA DeliverFrameKeeps ==
  ASSUME EngineInv, StreamInv, NEW c \in Conns, DeliverFrame(c)
  PROVE  [Next]_vars /\ StreamInv'
<1>1. /\ StreamTypeOK /\ ConnOK(c) /\ conn[c] \in ConnRow /\ conn[c].phase = "live"
      /\ conn[c].tab \in Tabs /\ conn[c].inbox \in Seq(FrameRow) /\ conn[c].inbox # <<>>
      /\ Serving
  BY StreamFacts DEF StreamInv, DeliverFrame
<1>2. PICK v \in Tabs, r \in Runs, frame \in FrameRow, rest \in Seq(FrameRow) :
        /\ v = conn[c].tab /\ r = conn[c].run /\ frame = Head(conn[c].inbox)
        /\ rest = Tail(conn[c].inbox)
  <2>1. conn[c].run \in Runs
    BY <1>1 DEF ConnOK
  <2>2. Head(conn[c].inbox) \in FrameRow /\ Tail(conn[c].inbox) \in Seq(FrameRow)
    BY <1>1
  <2> QED
    BY <1>1, <2>1, <2>2
<1>3. /\ tab[v].phase = "streaming" /\ tab[v].run = r /\ Created(r) /\ TabOK(v)
      /\ \A d \in Conns : conn[d].tab = v => d = c
      /\ tab[v] \in TabRow /\ tab[v].snapshot \in 0 .. MaxSteps
  BY <1>1, <1>2, StreamFacts, StreamAssumption DEF ConnOK, StreamInv
<1>4. Told(r, frame) /\ conn[c].inbox[1] = frame
      /\ \A n \in DOMAIN rest : Told(r, rest[n])
  <2>1. /\ conn[c].inbox[1] = frame /\ 1 \in DOMAIN conn[c].inbox
        /\ \A n \in DOMAIN rest : n + 1 \in DOMAIN conn[c].inbox /\ rest[n] = conn[c].inbox[n + 1]
    BY <1>1, <1>2
  <2>2. \A n \in DOMAIN conn[c].inbox : Told(r, conn[c].inbox[n])
    BY <1>1, <1>2 DEF ConnOK
  <2> QED
    BY <2>1, <2>2
<1> DEFINE ends == frame.type \in TerminalEvents
           phase == IF ends THEN "connecting" ELSE tab[v].phase
           row == [tab[v] EXCEPT !.latest = frame, !.phase = phase]
<1>5. Render(v, row)
  BY <1>2 DEF DeliverFrame
<1>6. /\ row \in TabRow /\ row.run = r /\ row.latest = frame /\ row.phase = phase
      /\ row.snapshot = tab[v].snapshot
  BY <1>2, <1>3 DEF TabRow
<1>7. phase = IF ends THEN "connecting" ELSE "streaming"
  BY <1>3
<1>8. IF ends THEN Release(c)
      ELSE conn' = [conn EXCEPT ![c] = [conn[c] EXCEPT !.inbox = rest]] /\ bus' = bus
  BY <1>1, <1>2 DEF DeliverFrame, StreamTypeOK
<1> HIDE DEF row, ends, phase
<1>9. ShownGate(row) \in 0 .. MaxSteps /\ Fresh(r, ShownGate(row))
  BY <1>3, <1>4, <1>6 DEF ShownGate, Told, TabOK, Fresh, FrameRow
<1>10. [Next]_vars
  BY <1>1, <1>5, <1>6, <1>9, RenderShows
<1>11. Remembers
  BY <1>10, NextRemembers
<1>12. row.snapshot = NoGate \/ row.snapshot \in shown'[r]
  BY <1>3, <1>6, <1>11 DEF TabOK, Remembers
<1>13. /\ tab'[v] = row /\ tab' \in [Tabs -> TabRow]
       /\ \A w \in Tabs : w # v => tab'[w] = tab[w]
       /\ \A w \in Tabs : TabOK(w)'
  BY <1>3, <1>5, <1>6, <1>7, <1>11, <1>12, RenderKeepsTabs
<1>14. CASE ends
  <2>1. \A d \in Conns : conn'[d].tab = IF d = c THEN NoTab ELSE conn[d].tab
    BY <1>8, <1>14, ReleaseKeeps, FreeConnFacts
  <2>2. ASSUME NEW d \in Conns, d # c PROVE ConnOK(d)'
    <3>1. conn'[d] = conn[d] /\ ConnOK(d) /\ conn[d].tab # v /\ conn[d].tab \in Tabs \cup {NoTab}
      BY <1>1, <1>3, <1>8, <1>14, <2>2, ReleaseKeeps, StreamFacts DEF StreamInv
    <3>2. conn[d].tab # NoTab =>
            /\ tab'[conn[d].tab].phase = "streaming" /\ tab'[conn[d].tab].run = conn[d].run
            /\ \A e \in Conns : conn'[e].tab = conn[d].tab => e = d
      BY <1>13, <2>1, <3>1 DEF ConnOK
    <3> QED
      BY <1>1, <1>11, <3>1, <3>2, ConnKept
  <2> QED
    BY <1>8, <1>10, <1>13, <1>14, <2>2, ReleaseKeeps DEF StreamInv, StreamTypeOK
<1>15. CASE ~ends
  <2> DEFINE left == [conn[c] EXCEPT !.inbox = rest]
  <2>1. /\ left \in ConnRow /\ left.phase = "live" /\ left.run = r /\ left.tab = v
        /\ left.inbox = rest
    BY <1>1, <1>2 DEF ConnRow
  <2>2. conn' = [conn EXCEPT ![c] = left] /\ bus' = bus
    BY <1>8, <1>15
  <2> HIDE DEF left
  <2>3. /\ conn'[c] = left /\ conn' \in [Conns -> ConnRow]
        /\ \A d \in Conns : d # c => conn'[d] = conn[d]
    BY <1>1, <2>1, <2>2 DEF StreamTypeOK
  <2>4. \A d \in Conns : conn'[d].tab = conn[d].tab
    BY <1>2, <2>1, <2>3
  <2>5. ASSUME NEW d \in Conns, d # c PROVE ConnOK(d)'
    <3>1. conn'[d] = conn[d] /\ ConnOK(d) /\ conn[d].tab # v /\ conn[d].tab \in Tabs \cup {NoTab}
      BY <1>1, <1>3, <2>3, <2>5, StreamFacts DEF StreamInv
    <3>2. conn[d].tab # NoTab =>
            /\ tab'[conn[d].tab].phase = "streaming" /\ tab'[conn[d].tab].run = conn[d].run
            /\ \A e \in Conns : conn'[e].tab = conn[d].tab => e = d
      BY <1>13, <2>4, <3>1 DEF ConnOK
    <3> QED
      BY <1>1, <1>11, <3>1, <3>2, ConnKept
  <2>6. ConnOK(c)'
    <3>1. Created(r)'
      BY <1>3, <1>11 DEF Remembers
    <3>2. ASSUME NEW n \in DOMAIN rest PROVE Told(r, rest[n])'
      <4>1. PICK f \in FrameRow : f = rest[n]
        BY <1>2, <3>2
      <4>2. Told(r, f)'
        BY <1>4, <1>11, <3>2, <4>1, StaysTold
      <4> QED
        BY <4>1, <4>2 DEF Told, Fresh
    <3>3. tab'[v].phase = "streaming" /\ tab'[v].run = r
      BY <1>6, <1>7, <1>13, <1>15
    <3> QED
      BY <1>3, <2>1, <2>3, <2>4, <3>1, <3>2, <3>3 DEF ConnOK, Created, Told, Fresh
  <2>7. ASSUME NEW q \in Runs PROVE BusOK(q)'
    <3>1. \A d \in Conns : conn'[d].phase = conn[d].phase /\ conn'[d].run = conn[d].run
      BY <1>1, <1>2, <2>1, <2>3
    <3>2. bus[q] \in Conns \cup {NoConn} /\ BusOK(q)
      BY <1>1, StreamFacts DEF StreamInv
    <3> QED
      BY <1>1, <2>2, <3>1, <3>2, BusKept
  <2> QED
    BY <1>1, <1>10, <1>13, <2>2, <2>3, <2>5, <2>6, <2>7 DEF StreamInv, StreamTypeOK
<1> QED
  BY <1>10, <1>14, <1>15

\* The snapshot shows the gate the run waits at, or none.
LEMMA SnapshotShowsThisGate ==
  ASSUME EngineInv, NEW r \in Runs, Created(r)
  PROVE  SnapshotGate(r) \in 0 .. MaxSteps /\ Fresh(r, SnapshotGate(r))
<1> DEFINE waiting == {i \in Steps : /\ record[r][i].status = "awaiting_approval"
                                     /\ IsGate(StepsOf(r), i)}
<1>1. ASSUME NEW i \in waiting PROVE i = run[r].index
  <2>1. run[r].index \in Int /\ i \in Int /\ record[r][i].status = "awaiting_approval"
    BY ConstantFacts DEF EngineInv, TypeInv, TypeOK, StoreTypeOK, RunRow, Steps
  <2> QED
    BY <2>1 DEF EngineInv, FrontInv, Frontier
<1>2. NoGate \in 0 .. MaxSteps /\ Steps \subseteq 0 .. MaxSteps
  BY ConstantFacts DEF NoGate, Steps
<1>3. CASE run[r].status = "paused" /\ waiting # {}
  <2>1. waiting = {run[r].index}
    BY <1>1, <1>3
  <2>2. run[r].index \in Steps
    BY <2>1
  <2>3. \A j \in waiting : run[r].index <= j
    BY <2>1, <2>2, <1>2
  <2>4. SnapshotGate(r) = run[r].index
    BY <1>3, <2>1, <2>3 DEF SnapshotGate
  <2> QED
    BY <1>2, <1>3, <2>2, <2>4 DEF Fresh
<1>4. CASE ~(run[r].status = "paused" /\ waiting # {})
  BY <1>2, <1>4 DEF SnapshotGate, Fresh
<1> QED
  BY <1>3, <1>4

\* A page that is not streaming has no connection.
LEMMA NoConnOf ==
  ASSUME StreamInv, NEW v \in Tabs, tab[v].phase # "streaming"
  PROVE  \A c \in Conns : conn[c].tab # v
  BY StreamAssumption DEF StreamInv, ConnOK

\* Only the row of a page without a connection changes.
LEMMA PageKeeps ==
  ASSUME EngineInv, Remembers, StreamInv, NEW v \in Tabs, tab[v].phase # "streaming",
         bus' = bus, conn' = conn, tab' \in [Tabs -> TabRow],
         \A w \in Tabs : w # v => tab'[w] = tab[w], TabOK(v)'
  PROVE  StreamInv'
<1>1. StreamTypeOK
  BY DEF StreamInv
<1>2. ASSUME NEW w \in Tabs PROVE TabOK(w)'
  BY TabKept DEF StreamInv
<1>3. ASSUME NEW c \in Conns PROVE ConnOK(c)'
  <2>1. conn[c].tab # v /\ ConnOK(c) /\ conn[c].tab \in Tabs \cup {NoTab}
    BY <1>1, NoConnOf, StreamFacts DEF StreamInv
  <2> QED
    BY <1>1, <2>1, ConnKept DEF ConnOK
<1>4. ASSUME NEW q \in Runs PROVE BusOK(q)'
  BY <1>1, BusKept DEF StreamInv
<1> QED
  BY <1>1, <1>2, <1>3, <1>4 DEF StreamInv, StreamTypeOK

LEMMA OpenTabKeeps ==
  ASSUME EngineInv, StreamInv, NEW v \in Tabs, NEW r \in Runs, OpenTab(v, r)
  PROVE  UNCHANGED vars /\ StreamInv'
<1> DEFINE row == [ClosedTab EXCEPT !.phase = "loading", !.run = r]
<1>1. /\ UNCHANGED vars /\ Created(r) /\ tab[v].phase = "closed" /\ bus' = bus /\ conn' = conn
      /\ tab' = [tab EXCEPT ![v] = row]
  BY DEF OpenTab
<1>2. /\ row \in TabRow /\ row.run = r /\ row.snapshot = NoGate /\ row.latest = NoEvent
      /\ row.phase = "loading"
  BY ClosedTabFacts DEF TabRow
<1> HIDE DEF row
<1>3. /\ tab'[v] = row /\ tab' \in [Tabs -> TabRow] /\ \A w \in Tabs : w # v => tab'[w] = tab[w]
  BY <1>1, <1>2 DEF StreamInv, StreamTypeOK
<1>4. Remembers
  BY <1>1, VarsRemember
<1>5. Created(r)'
  BY <1>1, <1>4 DEF Remembers
<1>6. TabOK(v)'
  BY <1>2, <1>3, <1>5 DEF TabOK, Created, NoEvent, NoGate
<1> QED
  BY <1>1, <1>3, <1>4, <1>6, PageKeeps

LEMMA FetchFailsKeeps ==
  ASSUME EngineInv, StreamInv, NEW v \in Tabs, FetchFails(v)
  PROVE  UNCHANGED vars /\ StreamInv'
<1> DEFINE row == [tab[v] EXCEPT !.phase = "stuck"]
<1>1. /\ UNCHANGED vars /\ tab[v].phase = "loading" /\ bus' = bus /\ conn' = conn
      /\ tab' = [tab EXCEPT ![v] = row] /\ StreamTypeOK /\ tab[v] \in TabRow /\ TabOK(v)
  BY StreamFacts DEF FetchFails, StreamInv, StreamTypeOK
<1>2. /\ row \in TabRow /\ row.run = tab[v].run /\ row.snapshot = tab[v].snapshot
      /\ row.phase = "stuck"
  BY <1>1 DEF TabRow
<1> HIDE DEF row
<1>3. /\ tab'[v] = row /\ tab' \in [Tabs -> TabRow] /\ \A w \in Tabs : w # v => tab'[w] = tab[w]
  BY <1>1, <1>2 DEF StreamTypeOK
<1>4. Remembers /\ shown' = shown /\ run' = run
  BY <1>1, VarsRemember DEF vars, storeVars, engineVars
<1>5. TabOK(v)'
  BY <1>1, <1>2, <1>3, <1>4 DEF TabOK, Created, NoGate
<1> QED
  BY <1>1, <1>3, <1>4, <1>5, PageKeeps

LEMMA FetchSnapshotKeeps ==
  ASSUME EngineInv, StreamInv, NEW v \in Tabs, FetchSnapshot(v)
  PROVE  [Next]_vars /\ StreamInv'
<1>1. /\ StreamTypeOK /\ TabOK(v) /\ tab[v] \in TabRow /\ tab[v].phase = "loading" /\ Serving
      /\ bus' = bus /\ conn' = conn
  BY StreamFacts DEF StreamInv, FetchSnapshot
<1>2. PICK r \in Runs : r = tab[v].run /\ Created(r)
  BY <1>1 DEF TabOK
<1> DEFINE gate == SnapshotGate(r)
           phase == IF run[r].status \in TerminalStatus THEN "ended" ELSE "connecting"
           row == [tab[v] EXCEPT !.snapshot = gate, !.phase = phase]
<1>3. Render(v, row)
  BY <1>2 DEF FetchSnapshot
<1>4. gate \in 0 .. MaxSteps /\ Fresh(r, gate)
  BY <1>2, SnapshotShowsThisGate
<1>5. phase \in {"ended", "connecting"}
  OBVIOUS
<1> HIDE DEF gate, phase
<1>6. /\ row \in TabRow /\ row.run = r /\ row.latest = tab[v].latest /\ row.snapshot = gate
      /\ row.phase = phase
  BY <1>1, <1>2, <1>4, <1>5 DEF TabRow
<1> HIDE DEF row
<1>7. ShownGate(row) = gate
  BY <1>1, <1>6 DEF ShownGate, TabOK
<1>8. [Next]_vars /\ (gate = NoGate \/ gate \in shown'[r])
  <2>1. /\ [Next]_vars
        /\ ShownGate(row) = NoGate \/ ShownGate(row) \in shown'[row.run]
    BY <1>1, <1>3, <1>4, <1>6, <1>7, RenderShows
  <2> QED
    BY <1>6, <1>7, <2>1
<1>9. Remembers
  BY <1>8, NextRemembers
<1>10. /\ tab' \in [Tabs -> TabRow] /\ \A w \in Tabs : w # v => tab'[w] = tab[w]
       /\ \A w \in Tabs : TabOK(w)'
  BY <1>2, <1>3, <1>5, <1>6, <1>8, <1>9, RenderKeepsTabs
<1> QED
  BY <1>1, <1>8, <1>9, <1>10, PageKeeps

LEMMA CloseTabKeeps ==
  ASSUME EngineInv, StreamInv, NEW v \in Tabs, CloseTab(v)
  PROVE  UNCHANGED vars /\ StreamInv'
<1>1. /\ UNCHANGED vars /\ bus' = bus /\ tab' = [tab EXCEPT ![v] = ClosedTab] /\ StreamTypeOK
      /\ conn' = [c \in Conns |-> IF conn[c].tab = v THEN [conn[c] EXCEPT !.tab = NoTab]
                                                     ELSE conn[c]]
  BY DEF CloseTab, StreamInv
<1>2. Remembers
  BY <1>1, VarsRemember
<1>3. /\ tab'[v] = ClosedTab /\ tab' \in [Tabs -> TabRow]
      /\ \A w \in Tabs : w # v => tab'[w] = tab[w]
  BY <1>1, ClosedTabFacts DEF StreamTypeOK
<1>4. ASSUME NEW c \in Conns
      PROVE  /\ conn'[c] \in ConnRow /\ conn'[c].phase = conn[c].phase
             /\ conn'[c].run = conn[c].run /\ conn'[c].inbox = conn[c].inbox
             /\ conn'[c].tab = IF conn[c].tab = v THEN NoTab ELSE conn[c].tab
  <2>1. conn[c] \in ConnRow
    BY <1>1, StreamFacts
  <2>2. conn'[c] = IF conn[c].tab = v THEN [conn[c] EXCEPT !.tab = NoTab] ELSE conn[c]
    BY <1>1
  <2> QED
    BY <2>1, <2>2 DEF ConnRow
<1>5. ASSUME NEW w \in Tabs PROVE TabOK(w)'
  <2>1. CASE w = v
    BY <1>3, <2>1, ClosedTabFacts DEF TabOK
  <2>2. CASE w # v
    BY <1>2, <1>3, <2>2, TabKept DEF StreamInv
  <2> QED
    BY <2>1, <2>2
<1>6. ASSUME NEW c \in Conns PROVE ConnOK(c)'
  <2>1. ConnOK(c) /\ conn[c].tab \in Tabs \cup {NoTab}
    BY <1>1, StreamFacts DEF StreamInv
  <2>2. CASE conn[c].tab # v
    <3>1. conn'[c] = conn[c]
      BY <1>1, <2>2
    <3>2. conn[c].tab # NoTab =>
            /\ tab'[conn[c].tab].phase = "streaming" /\ tab'[conn[c].tab].run = conn[c].run
            /\ \A d \in Conns : conn'[d].tab = conn[c].tab => d = c
      BY <1>3, <1>4, <2>1, <2>2 DEF ConnOK
    <3> QED
      BY <1>1, <1>2, <2>1, <3>1, <3>2, ConnKept
  <2>3. CASE conn[c].tab = v
    <3>1. run' = run /\ shown' = shown
      BY <1>1 DEF vars, storeVars, engineVars
    <3>2. conn'[c].tab = NoTab
      BY <1>4, <2>3
    <3>3. \A n \in DOMAIN conn'[c].inbox : Told(conn[c].run, conn[c].inbox[n])'
      BY <1>4, <2>1, <3>1 DEF ConnOK, Told, Fresh
    <3> QED
      BY <1>4, <2>1, <3>1, <3>2, <3>3 DEF ConnOK, Created, Told, Fresh
  <2> QED
    BY <2>2, <2>3
<1>7. ASSUME NEW q \in Runs PROVE BusOK(q)'
  <2>1. bus[q] \in Conns \cup {NoConn} /\ BusOK(q)
    BY <1>1, StreamFacts DEF StreamInv
  <2> QED
    BY <1>1, <1>4, <2>1, BusKept
<1>8. conn' \in [Conns -> ConnRow]
  BY <1>1, <1>4
<1> QED
  BY <1>1, <1>3, <1>5, <1>6, <1>7, <1>8 DEF StreamInv, StreamTypeOK

LEMMA ConnectKeeps ==
  ASSUME EngineInv, StreamInv, NEW v \in Tabs, Connect(v)
  PROVE  UNCHANGED vars /\ StreamInv'
<1> DEFINE there == [tab[v] EXCEPT !.phase = "streaming"]
           here == [FreeConn EXCEPT !.phase = "requested", !.run = tab[v].run, !.tab = v]
<1>1. /\ UNCHANGED vars /\ bus' = bus /\ tab' = [tab EXCEPT ![v] = there] /\ StreamTypeOK
      /\ tab[v].phase = "connecting" /\ tab[v] \in TabRow /\ TabOK(v)
  BY StreamFacts DEF Connect, StreamInv, StreamTypeOK
<1>2. PICK c \in Conns : conn[c].phase = "free" /\ conn' = [conn EXCEPT ![c] = here]
  BY DEF Connect
<1>3. PICK r \in Runs : r = tab[v].run /\ Created(r)
  BY <1>1 DEF TabOK
<1>4. /\ there \in TabRow /\ there.run = r /\ there.snapshot = tab[v].snapshot
      /\ there.phase = "streaming" /\ there.latest = tab[v].latest
  BY <1>1, <1>3 DEF TabRow
<1>5. /\ here \in ConnRow /\ here.phase = "requested" /\ here.run = r /\ here.tab = v
      /\ here.inbox = <<>>
  BY <1>3, FreeConnFacts DEF ConnRow
<1> HIDE DEF there, here
<1>6. /\ tab'[v] = there /\ tab' \in [Tabs -> TabRow]
      /\ \A w \in Tabs : w # v => tab'[w] = tab[w]
      /\ conn'[c] = here /\ conn' \in [Conns -> ConnRow]
      /\ \A d \in Conns : d # c => conn'[d] = conn[d]
  BY <1>1, <1>2, <1>4, <1>5 DEF StreamTypeOK
<1>7. Remembers /\ run' = run /\ shown' = shown
  BY <1>1, VarsRemember DEF vars, storeVars, engineVars
<1>8. ASSUME NEW w \in Tabs PROVE TabOK(w)'
  <2>1. CASE w = v
    BY <1>1, <1>3, <1>4, <1>6, <1>7, <2>1 DEF TabOK, Created, NoGate
  <2>2. CASE w # v
    BY <1>6, <1>7, <2>2, TabKept DEF StreamInv
  <2> QED
    BY <2>1, <2>2
<1>9. \A d \in Conns : conn[d].tab # v
  BY <1>1, NoConnOf
<1>10. ASSUME NEW d \in Conns PROVE ConnOK(d)'
  <2>1. CASE d = c
    <3>1. \A e \in Conns : conn'[e].tab = v => e = c
      BY <1>6, <1>9
    <3> QED
      BY <1>3, <1>4, <1>5, <1>6, <1>7, <2>1, <3>1 DEF ConnOK, Created
  <2>2. CASE d # c
    <3>1. ConnOK(d) /\ conn[d].tab \in Tabs \cup {NoTab} /\ conn'[d] = conn[d]
      BY <1>1, <1>6, <2>2, StreamFacts DEF StreamInv
    <3>2. conn[d].tab # NoTab =>
            /\ tab'[conn[d].tab].phase = "streaming" /\ tab'[conn[d].tab].run = conn[d].run
            /\ \A e \in Conns : conn'[e].tab = conn[d].tab => e = d
      BY <1>5, <1>6, <1>9, <3>1 DEF ConnOK
    <3> QED
      BY <1>1, <1>7, <3>1, <3>2, ConnKept
  <2> QED
    BY <2>1, <2>2
<1>11. ASSUME NEW q \in Runs PROVE BusOK(q)'
  <2>1. bus[q] \in Conns \cup {NoConn} /\ BusOK(q)
    BY <1>1, StreamFacts DEF StreamInv
  <2> QED
    BY <1>1, <1>2, <1>6, <2>1 DEF BusOK
<1> QED
  BY <1>1, <1>6, <1>8, <1>10, <1>11 DEF StreamInv, StreamTypeOK

LEMMA CrashStreamsKeeps ==
  ASSUME EngineInv, StreamInv, CrashStreams
  PROVE  Next /\ StreamInv'
<1>1. /\ StreamTypeOK /\ Crash /\ Next /\ bus' = [r \in Runs |-> NoConn]
      /\ conn' = [c \in Conns |-> FreeConn]
      /\ tab' = [v \in Tabs |-> IF tab[v].phase = "streaming"
                                THEN [tab[v] EXCEPT !.phase = "connecting"] ELSE tab[v]]
  BY DEF CrashStreams, StreamInv, Next
<1>2. run' = run /\ shown' = shown
  BY <1>1 DEF Crash, storeVars
<1>3. ASSUME NEW v \in Tabs
      PROVE  /\ tab'[v] \in TabRow /\ tab'[v].run = tab[v].run
             /\ tab'[v].snapshot = tab[v].snapshot /\ tab'[v].latest = tab[v].latest
             /\ tab'[v].phase = IF tab[v].phase = "streaming" THEN "connecting"
                                                             ELSE tab[v].phase
  <2>1. tab[v] \in TabRow
    BY <1>1, StreamFacts
  <2>2. tab'[v] = IF tab[v].phase = "streaming"
                  THEN [tab[v] EXCEPT !.phase = "connecting"] ELSE tab[v]
    BY <1>1
  <2> QED
    BY <2>1, <2>2 DEF TabRow
<1>4. ASSUME NEW v \in Tabs PROVE TabOK(v)'
  BY <1>2, <1>3 DEF StreamInv, TabOK, Created, NoGate
<1>5. \A c \in Conns : ConnOK(c)'
  BY <1>1, FreeConnFacts DEF ConnOK
<1>6. \A r \in Runs : BusOK(r)'
  BY <1>1 DEF BusOK
<1>7. conn' \in [Conns -> ConnRow] /\ bus' \in [Runs -> Conns \cup {NoConn}]
  BY <1>1, FreeConnFacts
<1>8. tab' \in [Tabs -> TabRow]
  BY <1>1, <1>3
<1> QED
  BY <1>1, <1>4, <1>5, <1>6, <1>7, <1>8 DEF StreamInv, StreamTypeOK

------------------------------------------------------------------------------
(***************************************************************************)
(* The stream is a way to watch the engine, and nothing else.              *)
(***************************************************************************)
LEMMA InitStreamInv == StreamInit => EngineInv /\ StreamInv
<1> SUFFICES ASSUME StreamInit PROVE EngineInv /\ StreamInv
  OBVIOUS
<1>1. /\ Init /\ bus = [r \in Runs |-> NoConn] /\ conn = [c \in Conns |-> FreeConn]
      /\ tab = [v \in Tabs |-> ClosedTab]
  BY DEF StreamInit
<1>2. EngineInv
  <2>1. NoUnseenDecision
    BY <1>1 DEF Init, StoreInit, NoUnseenDecision
  <2> QED
    BY <1>1, <2>1, InitTypeInv, InitOwnInv, InitFrontInv, InitReviewInv DEF EngineInv
<1>3. StreamTypeOK
  BY <1>1, FreeConnFacts, ClosedTabFacts DEF StreamTypeOK
<1>4. \A c \in Conns : ConnOK(c)
  BY <1>1, FreeConnFacts DEF ConnOK
<1>5. (\A v \in Tabs : TabOK(v)) /\ (\A r \in Runs : BusOK(r))
  BY <1>1, ClosedTabFacts DEF TabOK, BusOK
<1> QED
  BY <1>2, <1>3, <1>4, <1>5 DEF StreamInv

LEMMA StreamStepIsEngineStep ==
  ASSUME EngineInv, StreamInv, [StreamNext]_allVars
  PROVE  [Next]_vars /\ StreamInv'
<1>1. ASSUME NEW t \in Coroutines, PublishingStep(t) \/ QuietStep(t)
      PROVE  [Next]_vars /\ StreamInv'
  BY <1>1, EngineStepKeeps
<1>2. CASE Requests \/ CrashStreams
  BY <1>2, RequestsKeep, CrashStreamsKeeps
<1>3. ASSUME NEW c \in Conns, ServeStream(c) \/ DeliverFrame(c) \/ NoticeDisconnect(c)
      PROVE  [Next]_vars /\ StreamInv'
  BY <1>3, ServeStreamKeeps, DeliverFrameKeeps, NoticeDisconnectKeeps
<1>4. ASSUME NEW v \in Tabs, CloseTab(v) \/ FetchSnapshot(v) \/ FetchFails(v) \/ Connect(v)
      PROVE  [Next]_vars /\ StreamInv'
  BY <1>4, CloseTabKeeps, FetchSnapshotKeeps, FetchFailsKeeps, ConnectKeeps
<1>5. ASSUME NEW v \in Tabs, NEW r \in Runs, OpenTab(v, r)
      PROVE  [Next]_vars /\ StreamInv'
  BY <1>5, OpenTabKeeps
<1>6. CASE UNCHANGED allVars
  BY <1>6, VarsRemember, QuietKeeps DEF allVars
<1> QED
  BY <1>1, <1>2, <1>3, <1>4, <1>5, <1>6 DEF StreamNext

LEMMA NextStreamInv ==
  ASSUME SerialReview, EngineInv, StreamInv, [StreamNext]_allVars
  PROVE  [Next]_vars /\ EngineInv' /\ StreamInv'
<1>1. [Next]_vars /\ StreamInv'
  BY StreamStepIsEngineStep
<1>2. EngineInv'
  BY <1>1, NextTypeInv, NextOwnInv, NextFrontInv, NextReviewInv, NextSeen DEF EngineInv
<1> QED
  BY <1>1, <1>2

\* As long as decisions do not overlap, whatever tabs, connections and crashes there
\* are, the engine behind the stream endpoint does what it does alone, and every gate
\* a page first shows (a late frame, an old snapshot) is one its run then waits at
\* (stream_run_events, get_run, useRunEvents, deriveGateInfo).
THEOREM StreamImplementsEngine == SerialReview => (StreamSpec => EngineSpec)
<1> SUFFICES ASSUME SerialReview PROVE StreamSpec => EngineSpec
  OBVIOUS
<1>1. StreamInit => Init /\ EngineInv /\ StreamInv
  BY InitStreamInv DEF StreamInit
<1>2. EngineInv /\ StreamInv /\ [StreamNext]_allVars => [Next]_vars /\ EngineInv' /\ StreamInv'
  BY NextStreamInv
<1> QED
  BY <1>1, <1>2, PTL DEF StreamSpec, EngineSpec, Spec

\* A step takes a run's queue from its connection only to give it to another one, or
\* because the connection ends.
LEMMA QueueIsTakenOver ==
  ASSUME StreamInv, [StreamNext]_allVars, NEW r \in Runs, NEW c \in Conns,
         bus[r] = c, bus'[r] # c
  PROVE  bus'[r] # NoConn \/ conn'[c].phase = "free"
<1>1. bus' # bus
  OBVIOUS
<1>2. ASSUME NEW d \in Conns, Release(d) PROVE conn'[c].phase = "free"
  <2>1. d = c
    BY <1>2 DEF Release
  <2> QED
    BY <1>2, <2>1, ReleaseKeeps, FreeConnFacts
<1>3. ASSUME NEW d \in Conns, ServeStream(d) PROVE bus'[r] # NoConn
  BY <1>1, <1>3, StreamAssumption DEF ServeStream, StreamInv, StreamTypeOK
<1>4. ASSUME NEW d \in Conns, DeliverFrame(d) \/ NoticeDisconnect(d)
      PROVE  conn'[c].phase = "free"
  BY <1>1, <1>2, <1>4 DEF DeliverFrame, NoticeDisconnect
<1>5. CASE CrashStreams
  BY <1>5, FreeConnFacts DEF CrashStreams
<1>6. CASE \E t \in Coroutines : PublishingStep(t) \/ QuietStep(t)
  BY <1>1, <1>6 DEF PublishingStep, QuietStep, Publish, streamVars
<1>7. CASE Requests \/ UNCHANGED allVars
  BY <1>1, <1>7 DEF Requests, allVars, streamVars
<1>8. ASSUME NEW v \in Tabs,
             CloseTab(v) \/ FetchSnapshot(v) \/ FetchFails(v) \/ Connect(v)
               \/ \E q \in Runs : OpenTab(v, q)
      PROVE  FALSE
  BY <1>1, <1>8 DEF CloseTab, FetchSnapshot, FetchFails, Connect, OpenTab
<1> QED
  BY <1>3, <1>4, <1>5, <1>6, <1>7, <1>8 DEF StreamNext

\* As long as decisions do not overlap, a run's queue belongs to a live connection of
\* that run, and a subscriber loses it only to a newer one, with its own stream or with
\* the process (EventBus.subscribe and its finally), for any number of connections.
THEOREM QueuesFollowOwners == SerialReview => (StreamSpec => QueueFollowsOwner)
<1> SUFFICES ASSUME SerialReview PROVE StreamSpec => QueueFollowsOwner
  OBVIOUS
<1> DEFINE Inv == EngineInv /\ StreamInv
           Follows ==
             \A r \in Runs :
               /\ bus'[r] # NoConn =>
                    conn'[bus'[r]].phase = "live" /\ conn'[bus'[r]].run = r
               /\ \A c \in Conns :
                    bus[r] = c /\ bus'[r] # c =>
                      bus'[r] # NoConn \/ conn'[c].phase = "free"
<1>1. StreamInit => Inv
  BY InitStreamInv
<1>2. Inv /\ [StreamNext]_allVars => Inv'
  BY NextStreamInv
<1>3. Inv /\ [StreamNext]_allVars => [Follows]_allVars
  <2> SUFFICES ASSUME EngineInv, StreamInv, [StreamNext]_allVars, NEW r \in Runs
               PROVE  /\ bus'[r] # NoConn =>
                           conn'[bus'[r]].phase = "live" /\ conn'[bus'[r]].run = r
                      /\ \A c \in Conns :
                           bus[r] = c /\ bus'[r] # c =>
                             bus'[r] # NoConn \/ conn'[c].phase = "free"
    OBVIOUS
  <2>1. BusOK(r)'
    BY StreamStepIsEngineStep DEF StreamInv
  <2> QED
    BY <2>1, QueueIsTakenOver DEF BusOK
<1> HIDE DEF Inv
<1> QED
  BY <1>1, <1>2, <1>3, PTL DEF StreamSpec, QueueFollowsOwner

------------------------------------------------------------------------------
(***************************************************************************)
(* The last frame of a run is never lost.                                  *)
(***************************************************************************)
HasEnd(inbox) == \E k \in DOMAIN inbox : inbox[k].type \in TerminalEvents

\* The subscriber of a run that does not run has the frame that says why.
EndOK(r) == bus[r] # NoConn /\ run[r].status # "running" => HasEnd(conn[bus[r]].inbox)

EndInv == \A r \in Runs : EndOK(r)

\* A queue that stays with its connection and loses no terminal frame.
LEMMA EndKept ==
  ASSUME NEW r \in Runs, EndOK(r),
         run'[r].status = "running" \/ run'[r].status = run[r].status,
         \/ bus'[r] = NoConn
         \/ /\ bus'[r] = bus[r]
            /\ bus[r] # NoConn =>
                 (HasEnd(conn[bus[r]].inbox) => HasEnd(conn'[bus[r]].inbox))
  PROVE  EndOK(r)'
  BY DEF EndOK, HasEnd

LEMMA EndAppended ==
  ASSUME NEW inbox \in Seq(FrameRow), NEW frame \in FrameRow,
         HasEnd(inbox) \/ frame.type \in TerminalEvents
  PROVE  HasEnd(Append(inbox, frame))
<1> DEFINE longer == Append(inbox, frame)
<1>1. /\ DOMAIN inbox \subseteq DOMAIN longer
      /\ \A k \in DOMAIN inbox : longer[k] = inbox[k]
      /\ Len(longer) \in DOMAIN longer /\ longer[Len(longer)] = frame
  OBVIOUS
<1> HIDE DEF longer
<1>2. HasEnd(longer)
  BY <1>1 DEF HasEnd
<1> QED
  BY <1>2 DEF longer

LEMMA EndInTail ==
  ASSUME NEW inbox \in Seq(FrameRow), inbox # <<>>, HasEnd(inbox),
         Head(inbox).type \notin TerminalEvents
  PROVE  HasEnd(Tail(inbox))
<1>1. PICK k \in DOMAIN inbox : inbox[k].type \in TerminalEvents
  BY DEF HasEnd
<1>2. k # 1
  BY <1>1
<1>3. k - 1 \in DOMAIN Tail(inbox) /\ Tail(inbox)[k - 1] = inbox[k]
  BY <1>2
<1> QED
  BY <1>1, <1>3 DEF HasEnd

\* A frame is appended to the queue of its own run and to no other.
LEMMA PublishAppends ==
  ASSUME StreamInv, NEW r \in Runs, NEW type \in EventTypes, NEW i \in 0 .. MaxSteps,
         Publish(r, type, i)
  PROVE  /\ bus' = bus
         /\ \A q \in Runs \ {r} : bus[q] # NoConn => conn'[bus[q]] = conn[bus[q]]
         /\ bus[r] # NoConn =>
              /\ conn'[bus[r]].inbox =
                   Append(conn[bus[r]].inbox, [type |-> type, index |-> i])
              /\ conn[bus[r]].inbox \in Seq(FrameRow)
<1>1. StreamTypeOK /\ bus' = bus
  BY DEF StreamInv, Publish
<1>2. CASE bus[r] = NoConn
  BY <1>1, <1>2 DEF Publish
<1>3. CASE bus[r] # NoConn
  <2>1. PICK c \in Conns : c = bus[r]
    BY <1>1, <1>3, StreamFacts
  <2> DEFINE row == [conn[c] EXCEPT !.inbox = Append(@, [type |-> type, index |-> i])]
  <2>2. conn' = [conn EXCEPT ![c] = row]
    BY <1>3, <2>1 DEF Publish
  <2>3. conn[c] \in ConnRow /\ conn[c].inbox \in Seq(FrameRow)
    BY <1>1, StreamFacts
  <2>4. row.inbox = Append(conn[c].inbox, [type |-> type, index |-> i])
    BY <2>3 DEF ConnRow
  <2> HIDE DEF row
  <2>5. conn'[c] = row /\ \A d \in Conns : d # c => conn'[d] = conn[d]
    BY <1>1, <2>2 DEF StreamTypeOK
  <2>6. \A q \in Runs \ {r} : bus[q] # NoConn => bus[q] \in Conns /\ bus[q] # c
    BY <1>1, <1>3, <2>1, StreamFacts DEF StreamInv, BusOK
  <2> QED
    BY <1>1, <2>1, <2>3, <2>4, <2>5, <2>6
<1> QED
  BY <1>2, <1>3

\* A commit that stops a run publishes why in the same step.
LEMMA PublishingEnds ==
  ASSUME EngineInv, StreamInv, EndInv, NEW t \in Coroutines, PublishingStep(t)
  PROVE  EndInv'
<1>1. Step(t) /\ TypeOK /\ StoreTypeOK
  BY DEF PublishingStep, Step, EngineInv, TypeInv, TypeOK
<1>2. PICK r \in Runs : r = task[t].run
  BY <1>1, StepEffect, AtWork DEF EngineInv, TypeInv
<1>3. PICK i \in 0 .. MaxSteps : i = run[r].index
  BY <1>1 DEF StoreTypeOK, RunRow
<1>4. PICK type \in EventTypes :
        /\ Publish(r, type, i)
        /\ \A q \in Runs : q # r => run'[q] = run[q]
        /\ type \in TerminalEvents \/ run'[r] = run[r]
  <2>1. CASE StartTeammateStep(t) /\ Publish(r, "step_started", i)
    BY <2>1 DEF StartTeammateStep, EventTypes
  <2>2. CASE StoreMilestone(t) /\ Publish(r, "step_completed", i)
    BY <2>2 DEF StoreMilestone, EventTypes
  <2>3. CASE \E type \in TerminalEvents : \E status, index :
               /\ Publish(r, type, i)
               /\ UpdateRunStatus(r, status) \/ UpdateRunStatusAt(r, status, index)
    BY <1>1, <2>3, UpdatedRun DEF EventTypes
  <2> QED
    BY <1>2, <1>3, <2>1, <2>2, <2>3
    DEF PublishingStep, PauseRun, FailRun, BackstopFailsRun, CompleteRun, RejectRun,
        TerminalEvents
<1>5. /\ bus' = bus
      /\ \A q \in Runs \ {r} : bus[q] # NoConn => conn'[bus[q]] = conn[bus[q]]
      /\ bus[r] # NoConn =>
           /\ conn'[bus[r]].inbox =
                Append(conn[bus[r]].inbox, [type |-> type, index |-> i])
           /\ conn[bus[r]].inbox \in Seq(FrameRow)
  BY <1>4, PublishAppends
<1>6. EndOK(r)'
  <2> SUFFICES ASSUME bus[r] # NoConn, run'[r].status # "running"
               PROVE  HasEnd(conn'[bus[r]].inbox)
    BY <1>5 DEF EndOK, HasEnd
  <2> DEFINE frame == [type |-> type, index |-> i]
  <2>1. PICK inbox \in Seq(FrameRow) : inbox = conn[bus[r]].inbox
    BY <1>5
  <2>2. HasEnd(inbox) \/ frame.type \in TerminalEvents
    BY <1>4, <2>1 DEF EndInv, EndOK
  <2>3. frame \in FrameRow
    BY DEF FrameRow
  <2> HIDE DEF frame
  <2>4. HasEnd(Append(inbox, frame))
    BY <2>2, <2>3, EndAppended
  <2> QED
    BY <1>5, <2>1, <2>4 DEF frame
<1>7. ASSUME NEW q \in Runs, q # r PROVE EndOK(q)'
  BY <1>4, <1>5, <1>7, EndKept DEF EndInv
<1> QED
  BY <1>6, <1>7 DEF EndInv

\* A step that leaves queues and connections alone stops no run.
LEMMA QuietEnds ==
  ASSUME EngineInv, EndInv, bus' = bus, conn' = conn,
         \/ \E t \in Coroutines : QuietStep(t)
         \/ Requests
         \/ run' = run
  PROVE  EndInv'
<1>1. TypeOK /\ StoreTypeOK /\ run \in [Runs -> RunRow]
  BY DEF EngineInv, TypeInv, TypeOK, StoreTypeOK
<1>2. ASSUME NEW t \in Coroutines, MoveToNextStep(t), NEW q \in Runs
      PROVE  run'[q].status = "running" \/ run'[q] = run[q]
  <2>1. PICK r \in Runs : r = task[t].run
    BY <1>2, StepEffect, AtWork DEF EngineInv, TypeInv, Step
  <2> QED
    BY <1>1, <1>2, <2>1, UpdatedRun DEF MoveToNextStep
<1>3. ASSUME NEW t \in Tasks, NEW p \in Playbooks, NEW r \in Runs, CreateRun(t, p, r),
             NEW q \in Runs
      PROVE  run'[q].status = "running" \/ run'[q] = run[q]
  BY <1>1, <1>3 DEF CreateRun, CreateRunRow
<1>4. CASE \E t \in Coroutines : QuietStep(t) /\ ~MoveToNextStep(t)
  <2>1. run' = run
    BY <1>4
    DEF QuietStep, CreateNextRecord, SetGoalAndSpawn, MarkAwaitingApproval, AdvanceRaises,
        ModelAnswers, ModelCallFails, RejectRecord, ApproveRecord, PropagateEdit, storeVars
  <2> QED
    BY <2>1, EndKept DEF EndInv
<1>5. CASE \/ \E t \in Tasks, r \in Runs, i \in Steps, d \in Submissions :
                AcceptDecision(t, r, i, d)
           \/ Restart \/ Recover
  <2>1. run' = run
    BY <1>5
    DEF AcceptDecision, Restart, Recover, RecoverRun, RecoveryDies, RecoveryEnds, storeVars
  <2> QED
    BY <2>1, EndKept DEF EndInv
<1>6. CASE run' = run
  BY <1>6, EndKept DEF EndInv
<1>7. CASE \A q \in Runs : run'[q].status = "running" \/ run'[q] = run[q]
  BY <1>7, EndKept DEF EndInv
<1> QED
  BY <1>2, <1>3, <1>4, <1>5, <1>6, <1>7 DEF Requests

\* Who subscribes to a run finds it running: the state is read and the queue taken
\* in one step.
LEMMA ServeStreamEnds ==
  ASSUME StreamInv, EndInv, NEW c \in Conns, ServeStream(c)
  PROVE  EndInv'
<1>1. StreamTypeOK /\ run' = run /\ conn[c].phase = "requested" /\ ConnOK(c)
  BY DEF StreamInv, ServeStream, vars, storeVars
<1>2. PICK r \in Runs : r = conn[c].run
  BY <1>1 DEF ConnOK
<1>3. bus' = IF run[r].status = "running" THEN [bus EXCEPT ![r] = c] ELSE bus
  BY <1>2 DEF ServeStream
<1>4. \A d \in Conns : d # c => conn'[d] = conn[d]
  BY <1>1 DEF ServeStream, StreamTypeOK
<1>5. ASSUME NEW q \in Runs PROVE EndOK(q)'
  <2>1. bus[q] \in Conns \cup {NoConn} /\ bus[q] # c
    BY <1>1, StreamFacts, StreamAssumption DEF StreamInv, BusOK
  <2>2. CASE bus'[q] = bus[q]
    BY <1>1, <1>4, <2>1, <2>2, EndKept DEF EndInv
  <2>3. CASE bus'[q] # bus[q]
    <3>1. q = r /\ run[r].status = "running"
      BY <1>1, <1>3, <2>3 DEF StreamTypeOK
    <3> QED
      BY <1>1, <3>1 DEF EndOK
  <2> QED
    BY <2>2, <2>3
<1> QED
  BY <1>5 DEF EndInv

LEMMA ReleaseEnds ==
  ASSUME StreamInv, EndInv, NEW c \in Conns, Release(c), run' = run
  PROVE  EndInv'
<1>1. \A d \in Conns : d # c => conn'[d] = conn[d]
  BY ReleaseKeeps
<1>2. ASSUME NEW q \in Runs PROVE EndOK(q)'
  <2>1. bus[q] \in Conns \cup {NoConn}
    BY StreamFacts DEF StreamInv
  <2>2. bus'[q] = NoConn \/ (bus'[q] = bus[q] /\ bus[q] # c)
    BY DEF Release
  <2> QED
    BY <1>1, <2>1, <2>2, EndKept DEF EndInv
<1> QED
  BY <1>2 DEF EndInv

\* Frames leave in order, and the stream ends with the first terminal one.
LEMMA DeliverFrameEnds ==
  ASSUME StreamInv, EndInv, NEW c \in Conns, DeliverFrame(c)
  PROVE  EndInv'
<1>1. /\ StreamTypeOK /\ run' = run /\ conn[c] \in ConnRow
      /\ conn[c].inbox \in Seq(FrameRow) /\ conn[c].inbox # <<>>
  BY StreamFacts DEF StreamInv, DeliverFrame, Render, storeVars
<1>2. CASE Head(conn[c].inbox).type \in TerminalEvents
  BY <1>1, <1>2, ReleaseEnds DEF DeliverFrame
<1>3. CASE Head(conn[c].inbox).type \notin TerminalEvents
  <2> DEFINE row == [conn[c] EXCEPT !.inbox = Tail(@)]
  <2>1. conn' = [conn EXCEPT ![c] = row] /\ bus' = bus
    BY <1>3 DEF DeliverFrame
  <2>2. row.inbox = Tail(conn[c].inbox)
    BY <1>1 DEF ConnRow
  <2> HIDE DEF row
  <2>3. conn'[c] = row /\ \A d \in Conns : d # c => conn'[d] = conn[d]
    BY <1>1, <2>1 DEF StreamTypeOK
  <2>4. HasEnd(conn[c].inbox) => HasEnd(conn'[c].inbox)
    BY <1>1, <1>3, <2>2, <2>3, EndInTail
  <2>5. ASSUME NEW q \in Runs PROVE EndOK(q)'
    <3>1. bus[q] \in Conns \cup {NoConn}
      BY <1>1, StreamFacts
    <3>2. bus[q] # NoConn =>
            (HasEnd(conn[bus[q]].inbox) => HasEnd(conn'[bus[q]].inbox))
      BY <2>3, <2>4, <3>1
    <3> QED
      BY <1>1, <2>1, <3>2, EndKept DEF EndInv
  <2> QED
    BY <2>5 DEF EndInv
<1> QED
  BY <1>2, <1>3

\* Closing a page and connecting one touch no queue in use.
LEMMA PageEnds ==
  ASSUME StreamInv, EndInv, NEW v \in Tabs, CloseTab(v) \/ Connect(v)
  PROVE  EndInv'
<1>1. StreamTypeOK /\ run' = run /\ bus' = bus
  BY DEF StreamInv, CloseTab, Connect, vars, storeVars
<1>2. \A d \in Conns : conn[d].phase = "live" => conn'[d].inbox = conn[d].inbox
  <2>1. CASE CloseTab(v)
    <3> SUFFICES ASSUME NEW d \in Conns PROVE conn'[d].inbox = conn[d].inbox
      OBVIOUS
    <3>1. conn[d] \in ConnRow
      BY <1>1, StreamFacts
    <3>2. conn'[d] = IF conn[d].tab = v THEN [conn[d] EXCEPT !.tab = NoTab] ELSE conn[d]
      BY <2>1 DEF CloseTab
    <3> QED
      BY <3>1, <3>2 DEF ConnRow
  <2>2. CASE Connect(v)
    BY <1>1, <2>2 DEF Connect, StreamTypeOK
  <2> QED
    BY <2>1, <2>2
<1>3. ASSUME NEW q \in Runs PROVE EndOK(q)'
  <2>1. bus[q] # NoConn => bus[q] \in Conns /\ conn[bus[q]].phase = "live"
    BY <1>1, StreamFacts DEF StreamInv, BusOK
  <2> QED
    BY <1>1, <1>2, <2>1, EndKept DEF EndInv
<1> QED
  BY <1>3 DEF EndInv

LEMMA NextEndInv ==
  ASSUME EngineInv, StreamInv, EndInv, [StreamNext]_allVars
  PROVE  EndInv'
<1>1. ASSUME NEW t \in Coroutines, PublishingStep(t) \/ QuietStep(t) PROVE EndInv'
  BY <1>1, PublishingEnds, QuietEnds DEF QuietStep, streamVars
<1>2. CASE Requests
  BY <1>2, QuietEnds DEF Requests, streamVars
<1>3. CASE CrashStreams
  BY <1>3 DEF CrashStreams, EndInv, EndOK
<1>4. ASSUME NEW c \in Conns, ServeStream(c) \/ DeliverFrame(c) \/ NoticeDisconnect(c)
      PROVE  EndInv'
  <2>1. NoticeDisconnect(c) => Release(c) /\ run' = run
    BY DEF NoticeDisconnect, vars, storeVars
  <2> QED
    BY <1>4, <2>1, ServeStreamEnds, DeliverFrameEnds, ReleaseEnds
<1>5. ASSUME NEW v \in Tabs, CloseTab(v) \/ Connect(v) PROVE EndInv'
  BY <1>5, PageEnds
<1>6. ASSUME NEW v \in Tabs,
             FetchSnapshot(v) \/ FetchFails(v) \/ \E r \in Runs : OpenTab(v, r)
      PROVE  EndInv'
  BY <1>6, QuietEnds DEF FetchSnapshot, FetchFails, OpenTab, Render, vars, storeVars
<1>7. CASE UNCHANGED allVars
  BY <1>7, QuietEnds DEF allVars, streamVars, vars, storeVars
<1> QED
  BY <1>1, <1>2, <1>3, <1>4, <1>5, <1>6, <1>7 DEF StreamNext

\* As long as decisions do not overlap, whoever waits on the queue of a run that paused
\* or ended has the frame that says so, whenever it subscribed and however many
\* subscribers replaced each other (stream_run_events, EventBus.publish).
THEOREM NobodyMissesTheEnd == SerialReview => (StreamSpec => []NoLostTerminal)
<1> SUFFICES ASSUME SerialReview PROVE StreamSpec => []NoLostTerminal
  OBVIOUS
<1> DEFINE Inv == EngineInv /\ StreamInv /\ EndInv
<1>1. StreamInit => Inv
  <2>1. StreamInit => EndInv
    BY DEF StreamInit, EndInv, EndOK
  <2> QED
    BY <2>1, InitStreamInv
<1>2. Inv /\ [StreamNext]_allVars => Inv'
  BY NextStreamInv, NextEndInv
<1>3. Inv => NoLostTerminal
  BY DEF EndInv, EndOK, HasEnd, NoLostTerminal
<1> HIDE DEF Inv
<1> QED
  BY <1>1, <1>2, <1>3, PTL DEF StreamSpec
==============================================================================
