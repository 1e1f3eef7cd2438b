------------------------------ MODULE RunStream ------------------------------
(***************************************************************************)
(* The event bus (orchestrator/events.py), the stream endpoint and the run *)
(* snapshot (routes.py), and the browser tabs that watch a run             *)
(* (frontend/lib/sse/useRunEvents.ts, lib/run/deriveGateInfo.ts), composed *)
(* with PlaybookEngine.                                                    *)
(*                                                                         *)
(* A frame is published in the same step as the commit it reports: putting *)
(* into an unbounded queue does not suspend, so nothing runs in between.   *)
(* Token frames are left out: no control depends on them.                  *)
(***************************************************************************)
EXTENDS PlaybookEngine

CONSTANTS
  Tabs,   \* browser tabs on a run page
  Conns,  \* bound: connections the stream endpoint serves at a time
  NoTab,  \* the tab of a connection whose client is gone
  NoConn  \* the absence of a subscriber

ASSUME StreamAssumption == NoTab \notin Tabs /\ NoConn \notin Conns

VARIABLES
  bus,   \* EventBus._queues: the connection that owns a run's queue
  conn,  \* the generators of stream_run_events
  tab    \* the run pages

streamVars == <<bus, conn, tab>>
allVars == <<vars, streamVars>>

\* TERMINAL_EVENTS of events.py: the stream ends after one of these.
TerminalEvents == {"gate_paused", "run_completed", "run_failed", "run_rejected"}
NoEvent == [type |-> "none", index |-> 0]

NoGate == MaxSteps  \* not a step

\* phase: "free", "requested" or "live"; inbox: the frames not yet sent.
FreeConn == [phase |-> "free", run |-> NoRun, tab |-> NoTab, inbox |-> <<>>]

\* phase: "closed", "loading", "stuck", "connecting", "streaming" or "ended";
\* snapshot: the gate the loaded snapshot shows; latest: the last frame.
ClosedTab ==
  [phase |-> "closed", run |-> NoRun, snapshot |-> NoGate, latest |-> NoEvent]

StreamInit ==
  /\ Init
  /\ bus = [r \in Runs |-> NoConn]
  /\ conn = [c \in Conns |-> FreeConn]
  /\ tab = [v \in Tabs |-> ClosedTab]

(***************************************************************************)
(* EventBus.publish, and what the engine publishes where.                  *)
(***************************************************************************)
\* Mutant: a pause is not announced.
Publish_SilentPause(r, type, i) ==
  /\ conn' = IF bus[r] = NoConn \/ type = "gate_paused" THEN conn
             ELSE [conn EXCEPT ![bus[r]].inbox =
                     Append(@, [type |-> type, index |-> i])]
  /\ UNCHANGED <<bus, tab>>

\* Delivered to the owner of the run's queue, dropped if there is none.  Only a
\* gate's frame is read for its index.
Publish(r, type, i) ==
  /\ conn' = IF bus[r] = NoConn THEN conn
             ELSE [conn EXCEPT ![bus[r]].inbox =
                     Append(@, [type |-> type, index |-> i])]
  /\ UNCHANGED <<bus, tab>>

PublishingStep(t) ==
  LET r == task[t].run
      i == run[r].index
  IN  \/ StartTeammateStep(t) /\ Publish(r, "step_started", i)
      \/ PauseRun(t) /\ Publish(r, "gate_paused", i)
      \/ StoreMilestone(t) /\ Publish(r, "step_completed", i)
      \/ (FailRun(t) \/ BackstopFailsRun(t)) /\ Publish(r, "run_failed", i)
      \/ CompleteRun(t) /\ Publish(r, "run_completed", i)
      \/ RejectRun(t) /\ Publish(r, "run_rejected", i)

QuietStep(t) ==
  /\ \/ CreateNextRecord(t) \/ SetGoalAndSpawn(t) \/ MarkAwaitingApproval(t)
     \/ AdvanceRaises(t) \/ ModelAnswers(t) \/ ModelCallFails(t)
     \/ MoveToNextStep(t) \/ RejectRecord(t) \/ ApproveRecord(t)
     \/ PropagateEdit(t)
  /\ UNCHANGED streamVars

(***************************************************************************)
(* GET /v1/playbooks/runs/{id}/events.                                     *)
(***************************************************************************)
Serving == up /\ active = Idle

\* The frame reconstructed for a run that does not run.
SnapshotFrame(r) ==
  [type |-> CASE run[r].status = "paused" -> "gate_paused"
              [] run[r].status = "completed" -> "run_completed"
              [] run[r].status = "rejected" -> "run_rejected"
              [] run[r].status = "failed" -> "run_failed",
   index |-> run[r].index]

\* Mutant: subscribes without looking at the run.
ServeStream_NoSnapshot(c) ==
  LET r == conn[c].run
  IN  /\ Serving /\ conn[c].phase = "requested"
      /\ conn' = [conn EXCEPT ![c].phase = "live"]
      /\ bus' = [bus EXCEPT ![r] = c]
      /\ UNCHANGED <<vars, tab>>

\* One synthetic frame for a settled run; else subscribe, which replaces the
\* queue of whoever was subscribed.
ServeStream(c) ==
  LET r == conn[c].run
      running == run[r].status = "running"
  IN  /\ Serving /\ conn[c].phase = "requested"
      /\ conn' = [conn EXCEPT ![c].phase = "live",
           ![c].inbox = IF running THEN @ ELSE <<SnapshotFrame(r)>>]
      /\ bus' = IF running THEN [bus EXCEPT ![r] = c] ELSE bus
      /\ UNCHANGED <<vars, tab>>

\* Mutant: drops the run's queue whoever owns it.
Release_Unchecked(c) ==
  /\ conn' = [conn EXCEPT ![c] = FreeConn]
  /\ bus' = [r \in Runs |-> IF r = conn[c].run THEN NoConn ELSE bus[r]]

\* subscribe's finally: drop the queue only if it is still this one.
Release(c) ==
  /\ conn' = [conn EXCEPT ![c] = FreeConn]
  /\ bus' = [r \in Runs |-> IF bus[r] = c THEN NoConn ELSE bus[r]]

\* deriveGateInfo: the last frame if it is a gate's, else the snapshot.
ShownGate(row) ==
  IF row.latest.type = "gate_paused" THEN row.latest.index ELSE row.snapshot

\* The tab now looks like row; a gate it shows has been shown to a reviewer.
Render(v, row) ==
  /\ tab' = [tab EXCEPT ![v] = row]
  /\ shown' = [shown EXCEPT ![row.run] =
                 IF ShownGate(row) = NoGate THEN @ ELSE @ \cup {ShownGate(row)}]
  /\ UNCHANGED <<storeVars, task, active, toRecover, loaded, up, crashes>>

\* The next frame reaches the tab.  After a terminal one the generator returns,
\* and the EventSource reconnects: the hook never closes it.
DeliverFrame(c) ==
  LET v == conn[c].tab
      frame == Head(conn[c].inbox)
      ends == frame.type \in TerminalEvents
  IN  /\ Serving /\ conn[c].phase = "live" /\ v # NoTab
      /\ conn[c].inbox # <<>>
      /\ IF ends THEN Release(c)
         ELSE conn' = [conn EXCEPT ![c].inbox = Tail(@)] /\ UNCHANGED bus
      /\ Render(v, [tab[v] EXCEPT !.latest = frame,
                      !.phase = IF ends THEN "connecting" ELSE @])

\* The server notices that the client is gone and cancels the generator.
NoticeDisconnect(c) ==
  /\ Serving /\ conn[c].phase # "free" /\ conn[c].tab = NoTab
  /\ Release(c)
  /\ UNCHANGED <<vars, tab>>

(***************************************************************************)
(* A run page.                                                             *)
(***************************************************************************)
OpenTab(v, r) ==
  /\ tab[v].phase = "closed" /\ Created(r)
  /\ tab' = [tab EXCEPT ![v] = [ClosedTab EXCEPT !.phase = "loading", !.run = r]]
  /\ UNCHANGED <<vars, bus, conn>>

\* Closed or reloaded (and opened again): its connection loses its client.
CloseTab(v) ==
  /\ tab[v].phase # "closed"
  /\ tab' = [tab EXCEPT ![v] = ClosedTab]
  /\ conn' = [c \in Conns |-> IF conn[c].tab = v
                              THEN [conn[c] EXCEPT !.tab = NoTab] ELSE conn[c]]
  /\ UNCHANGED <<vars, bus>>

\* Mutant: shows a gate the run has not reached.
SnapshotGate_Early(r) ==
  LET ahead == {i \in Steps : /\ record[r][i].status # "completed"
                              /\ IsGate(StepsOf(r), i)}
  IN  IF ahead # {} THEN CHOOSE i \in ahead : \A j \in ahead : i <= j ELSE NoGate

\* The gate a snapshot taken now shows: the first record awaiting approval.
SnapshotGate(r) ==
  LET waiting == {i \in Steps : /\ record[r][i].status = "awaiting_approval"
                                /\ IsGate(StepsOf(r), i)}
  IN  IF run[r].status = "paused" /\ waiting # {}
      THEN CHOOSE i \in waiting : \A j \in waiting : i <= j
      ELSE NoGate

\* GET /v1/playbooks/runs/{id}: the page opens the stream unless the run ended.
FetchSnapshot(v) ==
  LET r == tab[v].run
  IN  /\ Serving /\ tab[v].phase = "loading"
      /\ Render(v, [tab[v] EXCEPT !.snapshot = SnapshotGate(r),
           !.phase = IF run[r].status \in TerminalStatus THEN "ended"
                                                         ELSE "connecting"])
      /\ UNCHANGED <<bus, conn>>

\* The fetch is not retried.
FetchFails(v) ==
  /\ ~up /\ tab[v].phase = "loading"
  /\ tab' = [tab EXCEPT ![v].phase = "stuck"]
  /\ UNCHANGED <<vars, bus, conn>>

\* The EventSource (re)connects, for as long as it takes.
Connect(v) ==
  /\ up /\ tab[v].phase = "connecting"
  /\ tab' = [tab EXCEPT ![v].phase = "streaming"]
  /\ \E c \in Conns :
       /\ conn[c].phase = "free"
       /\ conn' = [conn EXCEPT ![c] = [FreeConn EXCEPT
            !.phase = "requested", !.run = tab[v].run, !.tab = v]]
  /\ UNCHANGED <<vars, bus>>

\* The process dies: queues and connections are gone, the tabs reconnect.
CrashStreams ==
  /\ Crash
  /\ bus' = [r \in Runs |-> NoConn]
  /\ conn' = [c \in Conns |-> FreeConn]
  /\ tab' = [v \in Tabs |-> IF tab[v].phase = "streaming"
                            THEN [tab[v] EXCEPT !.phase = "connecting"] ELSE tab[v]]

------------------------------------------------------------------------------
\* Requests and startup, which publish nothing.
Requests ==
  /\ \/ \E t \in Tasks, p \in Playbooks, r \in Runs : CreateRun(t, p, r)
     \/ \E t \in Tasks, r \in Runs, i \in Steps, d \in Submissions :
          AcceptDecision(t, r, i, d)
     \/ Restart \/ Recover
  /\ UNCHANGED streamVars

StreamNext ==
  \/ \E t \in Coroutines : PublishingStep(t) \/ QuietStep(t)
  \/ Requests \/ CrashStreams
  \/ \E c \in Conns : ServeStream(c) \/ DeliverFrame(c) \/ NoticeDisconnect(c)
  \/ \E v \in Tabs : CloseTab(v) \/ FetchSnapshot(v) \/ FetchFails(v) \/ Connect(v)
  \/ \E v \in Tabs, r \in Runs : OpenTab(v, r)

\* The loop's fairness extends to the endpoint; a browser sends the requests it
\* has begun.  Connecting is strongly fair because Conns only bounds the model.
StreamFairness ==
  /\ Fairness
  /\ \A c \in Conns : /\ WF_allVars(ServeStream(c))
                      /\ WF_allVars(DeliverFrame(c))
                      /\ WF_allVars(NoticeDisconnect(c))
  /\ \A v \in Tabs : WF_allVars(FetchSnapshot(v)) /\ SF_allVars(Connect(v))

StreamSpec == StreamInit /\ [][StreamNext]_allVars
FairStreamSpec == StreamSpec /\ StreamFairness

(***************************************************************************)
(* What the stream promises.                                               *)
(***************************************************************************)
\* The composed system is an execution of the engine alone: a reviewer learns of a
\* gate only while the run waits at it (ShowGate), although frames and snapshots
\* travel late and out of step with each other.
EngineSpec == Spec

\* Nobody waits on a queue that stays silent: the subscriber of a run that paused
\* or ended has the frame that says so, whenever it subscribed
\* (stream_run_events reads the run and subscribes without a suspension between).
NoLostTerminal ==
  \A r \in Runs :
    bus[r] # NoConn /\ Settled(r) /\ run[r].status # "running" =>
      \E k \in DOMAIN conn[bus[r]].inbox :
        conn[bus[r]].inbox[k].type \in TerminalEvents

\* A queue exists only while the connection that owns it lives (events.py's per-run
\* queue leak), and a subscriber loses it by ending its own stream, to a newer
\* subscriber or with the process, never because another connection ends.
QueueFollowsOwner ==
  [][\A r \in Runs :
       /\ bus'[r] # NoConn =>
            conn'[bus'[r]].phase = "live" /\ conn'[bus'[r]].run = r
       /\ \A c \in Conns :
            bus[r] = c /\ bus'[r] # c => bus'[r] # NoConn \/ conn'[c].phase = "free"]_allVars

Watches(v, r) == tab[v].run = r /\ tab[v].phase \notin {"closed", "stuck"}

\* v's connection was replaced by a newer subscriber and gets no more frames.
Starved(v) ==
  \E c \in Conns : /\ conn[c].tab = v /\ conn[c].phase = "live"
                   /\ conn[c].inbox = <<>> /\ bus[conn[c].run] # c

\* A gate reaches the page that watches the run, however the pause, the snapshot,
\* the stream and a crash interleave, unless a newer viewer took the queue.
GateReachesPage ==
  \A r \in Runs, v \in Tabs :
    (run[r].status = "paused" /\ Watches(v, r)) ~>
      \/ run[r].status # "paused" \/ ~Watches(v, r) \/ Starved(v)
      \/ ShownGate(tab[v]) = run[r].index
==============================================================================
