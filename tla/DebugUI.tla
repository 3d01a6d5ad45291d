------------------------------ MODULE DebugUI -------------------------------
(***************************************************************************)
(* The debug UI: the net of DebugNet with the action of each transition,   *)
(* what those actions share outside the net (the socket, the replay        *)
(* buffer, the playback timer, the page), and the browser callbacks that   *)
(* put tokens into its environment places.                                 *)
(*                                                                         *)
(* An action whose throw shows in what is modelled has a second leg, which *)
(* spends one of the instance's faults; where it would not show (a modal,  *)
(* the speed buttons) the first leg stands for it.  The server is what the *)
(* UI sees of it: the answers it queues on the socket for the commands it  *)
(* is sent.                                                                *)
(***************************************************************************)
EXTENDS DebugNet

CONSTANTS
  Sessions,       \* session ids
  History,        \* [Sessions -> Seq(Event)]: what the server holds of each
  BatchSize,      \* events per eventBatch of a replay
  LiveMessages,   \* events the server has yet to stream to a live session
  Gone,           \* sessions the server no longer holds: a subscribe is answered by an error
  DeepLinks,      \* ?sessionId= values the page may be opened with
  Modes,          \* modes the user selects
  Breakpoints,    \* breakpoints the user sets
  Stray,          \* messages a peer may send unasked
  Budgets         \* set of [Kinds -> Nat]: how often each kind of outside event, and all of
                  \* them together (total), may happen in one behaviour

VARIABLES
  m,         \* marking: [UIPlaces -> Seq(value)]
  produced,  \* what finished actions produced, not yet deposited: [UIPlaces -> Seq(value)]
  ready,     \* transitions of this cycle still to start
  awaiting,  \* asynchronous actions in flight: [t_render_dot/t_toggle_subnets -> dot]
  conn,      \* the socket (ws), what travels on it (wire), the sessions the server streams (live),
             \* those left without telling it (orphans), events streamed so far
  replay,    \* shared.replay: [events, checkpoints], and the places at which an event of it was
             \* rewritten since it came (rewritten)
  timer,     \* shared.playback.timer is armed
  session,   \* shared.currentSession's id
  screen,    \* the page: icon, controls, marking and log panel, diagram and its highlights, and the
             \* panels whose last repaint threw (lost)
  left       \* what is left of the behaviour's budget

vars == <<m, produced, ready, awaiting, conn, replay, timer, session, screen, left>>

outside == <<conn, replay, timer, session, screen>>

NoSession == "none"
NoHit == 0 - 1

Unit == "*"

-----------------------------------------------------------------------------
(* The executor's cycle.                                                    *)

Awaiting == DOMAIN awaiting

\* Nothing enabled: the executor waits for a callback.
AtRest == ready = {}

\* The cycle in marking mk with prod produced and rest still to start while busy runs: when nothing
\* is left to start, the next cycle begins at once - no callback runs between two cycles.
Cycle(mk, prod, rest, busy) ==
  /\ m' = IF rest = {} THEN Deposit(mk, prod) ELSE mk
  /\ produced' = IF rest = {} THEN Nothing ELSE prod
  /\ ready' = IF rest = {} THEN EnabledTransitions(m', busy) ELSE rest

Turn(t) == t \in ready /\ \A u \in ready : Position[t] <= Position[u]

\* outs: the values the action of t outputs, by place.
Start(t, outs, busy) ==
  /\ Turn(t)
  /\ LET mk == Consume(m, t)
     IN Cycle(mk, WithOutputs(produced, outs), {u \in ready \ {t} : Enabled(mk, busy, u)}, busy)

Fire(t, outs) == Start(t, outs, Awaiting) /\ UNCHANGED <<awaiting, left>>

Spend(kind) ==
  /\ left[kind] > 0 /\ left.total > 0
  /\ left' = [left EXCEPT ![kind] = @ - 1, !.total = @ - 1]

\* The action of t threw: the leg it falls back to, which is that of Fire when it caught the throw.
Threw(t, outs) ==
  /\ Spend("fault")
  /\ Start(t, outs, Awaiting)
  /\ UNCHANGED awaiting

-----------------------------------------------------------------------------
(* The server as the UI sees it: handleCommand's answers, in order.         *)

Batches(events) ==
  [k \in 1..((Len(events) + BatchSize - 1) \div BatchSize) |->
     LET a == (k - 1) * BatchSize
         b == IF a + BatchSize < Len(events) THEN a + BatchSize ELSE Len(events)
     IN [type |-> "eventBatch", start |-> a, events |-> SubSeq(events, a + 1, b)]]

Subscribed(s, mode) ==
  [type |-> "subscribed", session |-> s, mode |-> mode,
   view |-> ViewAfter(History[s], Len(History[s])), count |-> Len(History[s])]

Say(c, msgs) == [c EXCEPT !.wire = @ \o msgs]

Serve(c, cmd) ==
  CASE cmd.type = "subscribe" ->
         IF cmd.session \in Gone THEN Say(c, <<[type |-> "error"]>>)
         ELSE [Say(c, <<Subscribed(cmd.session, cmd.mode)>> \o
                      (IF cmd.mode = "live"
                       THEN <<[type |-> "eventBatch", start |-> 0,
                               events |-> History[cmd.session]]>>
                       ELSE Batches(History[cmd.session])))
               EXCEPT !.live = IF cmd.mode = "live" THEN @ \cup {cmd.session}
                               ELSE @ \ {cmd.session}]
    [] cmd.type = "unsubscribe" ->
         [Say(c, <<[type |-> "unsubscribed"]>>) EXCEPT !.live = @ \ {cmd.session}]
    [] cmd.type = "listSessions" -> Say(c, <<[type |-> "sessionList"]>>)
    [] cmd.type \in {"pause", "resume"} ->
         Say(c, <<[type |-> "playbackStateChanged", paused |-> cmd.type = "pause"]>>)
    [] cmd.type = "stepForward" ->
         Say(c, <<[type |-> "event", event |-> History[cmd.session][1], index |-> 0]>>)
    [] cmd.type = "stepBackward" ->
         Say(c, <<[type |-> "markingSnapshot", view |-> EmptyView]>>)
    [] cmd.type = "listArchives" -> Say(c, <<[type |-> "archiveList"]>>)
    [] cmd.type = "importArchive" ->
         Say(c, <<[type |-> "archiveImported", session |-> cmd.session]>>)

\* A command is sent only on an open socket; otherwise it is silently dropped.
sendCommand(c, cmd) == IF c.ws = "open" THEN Serve(c, cmd) ELSE c

Subscribe(c, sel) ==
  sendCommand(c, [type |-> "subscribe", session |-> sel.session, mode |-> sel.mode])

\* Mutant: the session left is not unsubscribed.
UnsubscribeMutant(c, s) == c

Unsubscribe(c, s) == sendCommand(c, [type |-> "unsubscribe", session |-> s])

-----------------------------------------------------------------------------
(* Connection.                                                              *)

t_connect ==
  /\ \/ /\ Fire("t_connect", [connecting |-> Unit])
        /\ conn' = [conn EXCEPT !.ws = "connecting"]
     \/ Threw("t_connect", [waitReconnect |-> Unit]) /\ UNCHANGED conn
  /\ UNCHANGED <<replay, timer, session, screen>>

t_on_open ==
  /\ \/ /\ Fire("t_on_open", [connected |-> Unit])
        /\ conn' = sendCommand(conn, [type |-> "listSessions"])
     \/ Threw("t_on_open", [connected |-> Unit]) /\ UNCHANGED conn
  /\ UNCHANGED <<replay, timer, session, screen>>

\* setDisconnected drops the socket, unless it throws before.
Disconnect(t) ==
  /\ \/ Fire(t, [waitReconnect |-> Unit]) /\ conn' = [conn EXCEPT !.ws = "none"]
     \/ Threw(t, [waitReconnect |-> Unit]) /\ UNCHANGED conn
  /\ UNCHANGED <<replay, timer, session, screen>>

t_on_close_connecting == Disconnect("t_on_close_connecting")
t_on_close_connected == Disconnect("t_on_close_connected")

\* delayed(2000): the executor's timer wakes it, some time after waitReconnect was marked.
t_reconnect ==
  /\ AtRest /\ m["waitReconnect"] # <<>>
  /\ Cycle([m EXCEPT !["waitReconnect"] = Tail(@)], WithOutputs(Nothing, [idle |-> Unit]), {},
           Awaiting)
  /\ UNCHANGED <<awaiting, left>> /\ UNCHANGED outside

-----------------------------------------------------------------------------
(* Session phases.                                                          *)

Selection == Head(m["userSelectSession"])

EmptyReplay == [events |-> <<>>, checkpoints |-> <<>>, rewritten |-> {}]

t_subscribe ==
  /\ \/ /\ Fire("t_subscribe", [subscribing |-> Selection.session])
        /\ conn' = Subscribe(conn, Selection)
     \/ Threw("t_subscribe", [noSession |-> Unit]) /\ UNCHANGED conn
  /\ UNCHANGED <<replay, timer, session, screen>>

\* The old session is gone either way; a throw of the first or the second send leaves no answer to
\* wait for, and one of the first a session the server still streams.
SwitchFrom(t) ==
  /\ \/ /\ Fire(t, [subscribing |-> Selection.session])
        /\ conn' = Subscribe(Unsubscribe(conn, Head(m["subscribedSession"])), Selection)
        /\ UNCHANGED screen
     \/ /\ Threw(t, [noSession |-> Unit])
        /\ screen' = [screen EXCEPT !.controls = FALSE]
        /\ \/ conn' = [conn EXCEPT !.orphans = @ \cup {Head(m["subscribedSession"])}]
           \/ conn' = Unsubscribe(conn, Head(m["subscribedSession"]))
  /\ timer' = FALSE
  /\ session' = NoSession
  /\ replay' = EmptyReplay

t_switch_from_live == SwitchFrom("t_switch_from_live")
t_switch_from_replay_paused == SwitchFrom("t_switch_from_replay_paused")
t_switch_from_replay_playing == SwitchFrom("t_switch_from_replay_playing")
t_switch_from_breakpoint == SwitchFrom("t_switch_from_breakpoint")

t_abandon_subscribe ==
  Fire("t_abandon_subscribe", [noSession |-> Unit]) /\ UNCHANGED outside

-----------------------------------------------------------------------------
(* The message router.                                                      *)

t_route_message ==
  LET frame == Head(m["wsMessage"])
  IN /\ Fire("t_route_message",
             IF frame.type \in DOMAIN messageRoutes
             THEN [p \in {messageRoutes[frame.type]} |-> frame]
             ELSE [deadLetter |-> "unknown-type"])
     /\ UNCHANGED outside

t_log_dead_letter ==
  Fire("t_log_dead_letter", [routerReady |-> Unit]) /\ UNCHANGED outside

Failed == "handler-failed"

\* Mutant: a handler that throws keeps the router's permit.
OnMessageMutant(t) == Fire(t, [routerReady |-> Unit]) \/ Threw(t, NoOutput)

\* A handler with no precondition and no result: the permit comes back, or a dead letter.
OnMessage(t) ==
  \/ Fire(t, [routerReady |-> Unit])
  \/ Threw(t, [deadLetter |-> Failed])

DropWithout(t, reason) == Fire(t, [deadLetter |-> reason]) /\ UNCHANGED outside

State == Head(m["uiState"])

\* A handler that folds a message into uiState; a throw puts the state back unchanged.
OnSessionMessage(t, next) ==
  \/ Fire(t, [uiState |-> next, stateDirty |-> Unit, routerReady |-> Unit])
  \/ Threw(t, [uiState |-> State, deadLetter |-> Failed])

WithView(st, v) == [st EXCEPT !.view = v]

buildInitialUIState(msg) ==
  [view |-> IF msg.mode = "replay" THEN EmptyView ELSE msg.view, events |-> <<>>,
   eventIndex |-> 0, totalEvents |-> msg.count, breakpointHitIndex |-> NoHit]

\* The tokens of the session msg sets up, in its mode.
SessionTokens(msg) ==
  IF msg.mode = "replay"
  THEN [subscribedSession |-> msg.session, replaySession |-> Unit, replayPaused |-> Unit,
        uiState |-> buildInitialUIState(msg), dotSource |-> msg.session,
        stateDirty |-> Unit, routerReady |-> Unit]
  ELSE [subscribedSession |-> msg.session, liveSession |-> Unit,
        uiState |-> buildInitialUIState(msg), dotSource |-> msg.session,
        stateDirty |-> Unit, routerReady |-> Unit]

IconOf(paused) == IF paused THEN "paused" ELSE "playing"

TakeSession(msg) ==
  /\ Fire("t_on_subscribed", SessionTokens(msg))
  /\ replay' = EmptyReplay
  /\ session' = msg.session
  /\ screen' = [screen EXCEPT !.controls = TRUE,
                              !.icon = IconOf(msg.mode = "replay")]
  /\ UNCHANGED <<conn, timer>>

\* Mutant: the refused session leaves no phase.
RefuseSessionMutant ==
  /\ Threw("t_on_subscribed", [deadLetter |-> Failed])
  /\ conn' = Unsubscribe(conn, Head(m["subscribing"]))
  /\ screen' = [screen EXCEPT !.controls = FALSE]
  /\ UNCHANGED <<replay, timer, session>>

\* The session could not be set up: back to noSession, and the server is told.  The icon may
\* have moved before the throw.
RefuseSession ==
  /\ Threw("t_on_subscribed", [noSession |-> Unit, deadLetter |-> Failed])
  /\ conn' = Unsubscribe(conn, Head(m["subscribing"]))
  /\ \E icon \in {screen.icon, IconOf(Head(m["msgSubscribed"]).mode = "replay")} :
       screen' = [screen EXCEPT !.controls = FALSE, !.icon = icon]
  /\ UNCHANGED <<replay, timer, session>>

t_on_subscribed == TakeSession(Head(m["msgSubscribed"])) \/ RefuseSession

t_drop_subscribed == DropWithout("t_drop_subscribed", "not-subscribing")

t_on_unsubscribed == OnMessage("t_on_unsubscribed") /\ UNCHANGED outside

t_on_session_list == OnMessage("t_on_session_list") /\ UNCHANGED outside

\* The first list spends the deep link, and selects its session if the list names it.
t_on_session_list_deep_link ==
  LET target == Head(m["deepLink"])
  IN /\ \/ Fire("t_on_session_list_deep_link",
                IF target \in Sessions
                THEN [routerReady |-> Unit,
                      userSelectSession |-> [session |-> target, mode |-> "replay"]]
                ELSE [routerReady |-> Unit])
        \/ Threw("t_on_session_list_deep_link", [deadLetter |-> Failed])
     /\ UNCHANGED outside

t_on_event ==
  LET msg == Head(m["msgEvent"])
  IN /\ OnSessionMessage("t_on_event",
          [State EXCEPT !.view = applyEventToState(@, msg.event),
                        !.events = Append(@, msg.event),
                        !.eventIndex = msg.index + 1,
                        !.totalEvents = IF @ > msg.index + 1 THEN @ ELSE msg.index + 1])
     /\ UNCHANGED outside

t_drop_event == DropWithout("t_drop_event", "no-session")

\* A live session follows the batch.
t_on_event_batch ==
  LET msg == Head(m["msgEventBatch"])
      last == msg.start + Len(msg.events)
  IN /\ OnSessionMessage("t_on_event_batch",
          [State EXCEPT !.view = FoldLeft(applyEventToState, @, msg.events),
                        !.events = @ \o msg.events,
                        !.eventIndex = last,
                        !.totalEvents = IF @ > last THEN @ ELSE last])
     /\ UNCHANGED outside

\* The buffer holding events, its snapshots rewritten since it held before.
Buffered(before, events, checkpoints) ==
  [events |-> events, checkpoints |-> checkpoints,
   rewritten |-> replay.rewritten \cup RewrittenPlaces(before, events)]

\* A replay session only stores the batch.  A throw undoes that: the buffer's length and the
\* checkpoints are put back, but not what the fold had rewritten when it threw.  The state's events
\* are the buffer itself.
t_on_replay_event_batch ==
  LET old == Len(replay.events)
      grown == replay.events \o Head(m["msgEventBatch"]).events
      start == FoldStart(replay.checkpoints, old)
  IN /\ Turn("t_on_replay_event_batch")
     /\ \/ LET events == Rewritten(grown, start, Len(grown))
           IN /\ Fire("t_on_replay_event_batch",
                      [uiState |-> [State EXCEPT !.events = events, !.totalEvents = Len(events)],
                       stateDirty |-> Unit, routerReady |-> Unit])
              /\ replay' = Buffered(grown, events, buildCheckpoints(replay.checkpoints, grown, old))
        \/ \E upto \in start..Len(grown) :
             LET events == SubSeq(Rewritten(grown, start, upto), 1, old)
             IN /\ Threw("t_on_replay_event_batch",
                         [uiState |-> [State EXCEPT !.events = events], deadLetter |-> Failed])
                /\ replay' = Buffered(replay.events, events, replay.checkpoints)
     /\ UNCHANGED <<conn, timer, session, screen>>

t_drop_event_batch == DropWithout("t_drop_event_batch", "no-session")

t_on_marking_snapshot ==
  /\ OnSessionMessage("t_on_marking_snapshot", WithView(State, Head(m["msgMarkingSnapshot"]).view))
  /\ UNCHANGED outside

t_drop_marking_snapshot == DropWithout("t_drop_marking_snapshot", "no-session")

\* playbackStateChanged moves the play/pause icon, whatever session is on screen.
t_on_playback_state ==
  /\ LET moved == [screen EXCEPT !.icon = IconOf(Head(m["msgPlaybackState"]).paused)]
     IN \/ Fire("t_on_playback_state", [routerReady |-> Unit]) /\ screen' = moved
        \/ Threw("t_on_playback_state", [deadLetter |-> Failed]) /\ screen' \in {screen, moved}
  /\ UNCHANGED <<conn, replay, timer, session>>

Paused == [screen EXCEPT !.icon = IconOf(TRUE)]

t_on_breakpoint_hit ==
  /\ \/ Fire("t_on_breakpoint_hit", [routerReady |-> Unit]) /\ screen' = Paused
     \/ Threw("t_on_breakpoint_hit", [deadLetter |-> Failed]) /\ screen' \in {screen, Paused}
  /\ UNCHANGED <<conn, replay, timer, session>>

BreakpointList == Head(m["breakpoints"])

t_on_bp_list ==
  /\ \/ Fire("t_on_bp_list",
             [breakpoints |-> Head(m["msgBreakpointList"]).list, routerReady |-> Unit])
     \/ Threw("t_on_bp_list", [breakpoints |-> BreakpointList, deadLetter |-> Failed])
  /\ UNCHANGED outside

t_on_bp_set == OnMessage("t_on_bp_set") /\ UNCHANGED outside
t_on_bp_cleared == OnMessage("t_on_bp_cleared") /\ UNCHANGED outside
t_on_filter_applied == OnMessage("t_on_filter_applied") /\ UNCHANGED outside

\* The error is logged and answers nothing: a subscribe it refuses stays outstanding.
t_on_error == OnMessage("t_on_error") /\ UNCHANGED outside

-----------------------------------------------------------------------------
(* The diagram: the two asynchronous actions.                               *)

StartAsync(t, dot) ==
  /\ Start(t, NoOutput, Awaiting \cup {t})
  /\ awaiting' = [u \in Awaiting \cup {t} |-> IF u = t THEN dot ELSE awaiting[u]]
  /\ UNCHANGED left /\ UNCHANGED outside

t_render_dot == StartAsync("t_render_dot", Head(m["dotSource"]))

\* Without a mounted viewer the toggle returns at once; with one it re-mounts that viewer's DOT.
t_toggle_subnets ==
  IF screen.svg = NoSession
  THEN Fire("t_toggle_subnets", [highlightDirty |-> Unit]) /\ UNCHANGED outside
  ELSE StartAsync("t_toggle_subnets", screen.svg)

EndAsync(t, outs) ==
  /\ AtRest /\ t \in Awaiting
  /\ awaiting' = [u \in Awaiting \ {t} |-> awaiting[u]]
  /\ Cycle(m, WithOutputs(Nothing, outs), {}, Awaiting \ {t})
  /\ UNCHANGED <<conn, replay, timer, session>>

NoHighlight == [marking |-> emptyMarking, enabled |-> {}, inFlight |-> {}]

\* mount() replaced the SVG: the highlights went with the old one.
Mounted(dot) == screen' = [screen EXCEPT !.svg = dot, !.highlight = NoHighlight]

RenderDone ==
  /\ EndAsync("t_render_dot", [svgReady |-> Unit])
  /\ Mounted(awaiting["t_render_dot"])
  /\ UNCHANGED left

ToggleDone ==
  /\ EndAsync("t_toggle_subnets", [highlightDirty |-> Unit])
  /\ Mounted(awaiting["t_toggle_subnets"])
  /\ UNCHANGED left

\* A throw escapes t_render_dot, which produces nothing; t_toggle_subnets catches its own.
AsyncThrew ==
  /\ Spend("fault")
  /\ \/ EndAsync("t_render_dot", NoOutput)
     \/ EndAsync("t_toggle_subnets", [highlightDirty |-> Unit])
  /\ UNCHANGED screen

-----------------------------------------------------------------------------
(* Repaint.                                                                 *)

Silent(t, outs) == Fire(t, outs) /\ UNCHANGED outside

\* A repaint takes the panel's dirty flag and its frame.  It has no try: when it throws, they are
\* spent and the panel shows what it did (or some of both).
Paint(t, panel, painted) ==
  /\ \/ Fire(t, NoOutput) /\ screen' = [painted EXCEPT !.lost = @ \ {panel}]
     \/ Threw(t, NoOutput) /\ screen' = [screen EXCEPT !.lost = @ \cup {panel}]
  /\ UNCHANGED <<conn, replay, timer, session>>

t_fan_out_dirty ==
  Silent("t_fan_out_dirty", [highlightDirty |-> Unit, logDirty |-> Unit, markingDirty |-> Unit])

t_frame == Silent("t_frame", [frameHighlight |-> Unit, frameLog |-> Unit, frameMarking |-> Unit])

t_idle_frame == Silent("t_idle_frame", NoOutput)

\* Without a current session the highlights stay as they are.
t_update_highlighting ==
  Paint("t_update_highlighting", "highlight",
        IF session = NoSession THEN screen ELSE [screen EXCEPT !.highlight = State.view])

t_skip_highlighting == Silent("t_skip_highlighting", NoOutput)
t_await_diagram == Silent("t_await_diagram", NoOutput)

t_update_event_log ==
  Paint("t_update_event_log", "log",
        [screen EXCEPT !.log =
           buildFilteredIndices(State.events, Head(m["filterState"]), State.eventIndex)])

t_skip_event_log == Silent("t_skip_event_log", NoOutput)

t_update_marking ==
  Paint("t_update_marking", "marking", [screen EXCEPT !.marking = State.view.marking])

t_skip_marking == Silent("t_skip_marking", NoOutput)

-----------------------------------------------------------------------------
(* Replay playback.                                                         *)

StartPlaying(t) ==
  /\ \/ /\ Fire(t, [replayPlaying |-> Unit, autoStepTick |-> Unit])
        /\ screen' = [screen EXCEPT !.icon = IconOf(FALSE)]
     \/ Threw(t, [replayPlaying |-> Unit, autoStepTick |-> Unit]) /\ UNCHANGED screen
  /\ UNCHANGED <<conn, replay, timer, session>>

t_replay_play == StartPlaying("t_replay_play")
t_replay_play_from_bp == StartPlaying("t_replay_play_from_bp")

\* State after the event at eventIndex.
stepForward(st, events) ==
  [st EXCEPT !.view = applyEventToState(@, events[st.eventIndex + 1]),
             !.eventIndex = @ + 1,
             !.totalEvents = Len(events)]

HitsBreakpoint(st, events, list) ==
  /\ st.eventIndex < Len(events)
  /\ st.breakpointHitIndex # st.eventIndex
  /\ checkClientBreakpoints(events[st.eventIndex + 1], list)

\* The step says where playback goes with its output leg: on, paused at the end, or paused
\* before the event a breakpoint matches.  Stepping on arms the timer of the next tick.
t_replay_auto_step ==
  LET st == State
      t == "t_replay_auto_step"
  IN /\ Turn(t)
     /\ \/ /\ st.eventIndex >= Len(replay.events)
           /\ Fire(t, [uiState |-> st, replayPaused |-> Unit])
           /\ timer' = FALSE
           /\ screen' = Paused
        \/ /\ HitsBreakpoint(st, replay.events, BreakpointList)
           /\ Fire(t, [uiState |-> [st EXCEPT !.breakpointHitIndex = st.eventIndex],
                       breakpointPaused |-> Unit])
           /\ timer' = FALSE
           /\ screen' = Paused
        \/ /\ st.eventIndex < Len(replay.events)
           /\ ~HitsBreakpoint(st, replay.events, BreakpointList)
           /\ Fire(t, [uiState |-> [stepForward(st, replay.events)
                                        EXCEPT !.breakpointHitIndex = NoHit],
                       stateDirty |-> Unit, replayPlaying |-> Unit])
           /\ timer' = TRUE
           /\ UNCHANGED screen
        \/ /\ Threw(t, [uiState |-> st, replayPaused |-> Unit])
           /\ timer' = FALSE
           /\ screen' \in {screen, Paused}
     /\ UNCHANGED <<conn, replay, session>>

t_replay_pause ==
  /\ \/ Fire("t_replay_pause", [replayPaused |-> Unit]) /\ screen' = Paused
     \/ Threw("t_replay_pause", [replayPaused |-> Unit]) /\ UNCHANGED screen
  /\ timer' = FALSE
  /\ UNCHANGED <<conn, replay, session>>

t_drop_stale_tick == Silent("t_drop_stale_tick", NoOutput)

\* A replay command that moves uiState; a throw puts the state back unchanged.
OnReplayCommand(t, next) ==
  /\ \/ Fire(t, [uiState |-> next, stateDirty |-> Unit])
     \/ Threw(t, [uiState |-> State, stateDirty |-> Unit])
  /\ UNCHANGED <<conn, replay, session, screen>>

t_replay_step_fwd ==
  /\ OnReplayCommand("t_replay_step_fwd",
       IF State.eventIndex < Len(replay.events) THEN stepForward(State, replay.events) ELSE State)
  /\ UNCHANGED timer

\* seekToIndex stops the playback timer, then rebuilds the whole state.
Seek(target) ==
  [view |-> seekToIndex(replay.checkpoints, replay.events, target), events |-> replay.events,
   eventIndex |-> target, totalEvents |-> Len(replay.events), breakpointHitIndex |-> NoHit]

t_replay_step_back ==
  /\ Turn("t_replay_step_back")
  /\ IF State.eventIndex > 0
     THEN OnReplayCommand("t_replay_step_back", Seek(State.eventIndex - 1)) /\ timer' = FALSE
     ELSE /\ OnReplayCommand("t_replay_step_back", [State EXCEPT !.breakpointHitIndex = NoHit])
          /\ UNCHANGED timer

t_replay_seek ==
  OnReplayCommand("t_replay_seek", Seek(Head(m["userSeekSlider"]))) /\ timer' = FALSE
t_replay_restart == OnReplayCommand("t_replay_restart", Seek(0)) /\ timer' = FALSE
t_replay_run_to_end ==
  OnReplayCommand("t_replay_run_to_end", Seek(Len(replay.events))) /\ timer' = FALSE

-----------------------------------------------------------------------------
(* Live control, inspectors, breakpoints, filter, search, archives.         *)

\* A command that is sent or lost with a throw; either way the click is spent.
Request(t, command) ==
  /\ \/ Fire(t, NoOutput) /\ conn' = sendCommand(conn, command)
     \/ Threw(t, NoOutput) /\ UNCHANGED conn
  /\ UNCHANGED <<replay, timer, session, screen>>

LiveControl(t, command) == Request(t, [type |-> command, session |-> session])

t_live_pause == LiveControl("t_live_pause", "pause")
t_live_resume == LiveControl("t_live_resume", "resume")
t_live_step_fwd == LiveControl("t_live_step_fwd", "stepForward")
t_live_step_back == LiveControl("t_live_step_back", "stepBackward")

\* One place is selected at a time: the reset arc takes the selection before this one.
t_inspect_place == Silent("t_inspect_place", [selectedPlace |-> Head(m["userClickPlace"])])

t_open_modal == Silent("t_open_modal", [modalOpen |-> Unit])
t_close_modal == Silent("t_close_modal", [modalClosed |-> Unit])

\* An edit of the breakpoint list; a throw puts the list back unchanged.
OnBreakpointEdit(t, next) ==
  /\ \/ Fire(t, [breakpoints |-> next])
     \/ Threw(t, [breakpoints |-> BreakpointList])
  /\ UNCHANGED outside

t_set_breakpoint ==
  OnBreakpointEdit("t_set_breakpoint", Append(BreakpointList, Head(m["userSetBreakpoint"])))
t_clear_breakpoint ==
  OnBreakpointEdit("t_clear_breakpoint",
    SelectSeq(BreakpointList, LAMBDA bp : bp.id # Head(m["userClearBreakpoint"])))

t_apply_filter ==
  Silent("t_apply_filter", [filterState |-> Head(m["userApplyFilter"]), logDirty |-> Unit])

\* The search state after the search, or the one before if it throws.
Searched(t, next) ==
  /\ \/ Fire(t, [searchState |-> next])
     \/ Threw(t, [searchState |-> Head(m["searchState"])])
  /\ UNCHANGED outside

t_search ==
  Searched("t_search",
    computeSearchMatches(Head(m["userSearch"]), State.events, State.eventIndex))
t_search_next == Searched("t_search_next", nextSearchMatch(Head(m["searchState"])))
t_search_prev == Searched("t_search_prev", prevSearchMatch(Head(m["searchState"])))

\* The speed only sets the delay of the next timer.
t_set_speed == Silent("t_set_speed", NoOutput)

t_open_archive_browser == Request("t_open_archive_browser", [type |-> "listArchives"])
t_import_archive ==
  Request("t_import_archive",
    [type |-> "importArchive", session |-> Head(m["userImportArchive"])])
\* The file is read and sent; what comes back is the session it was imported as.
t_upload_archive ==
  Request("t_upload_archive",
    [type |-> "importArchive", session |-> Head(m["userUploadArchive"])])

t_on_archive_list == OnMessage("t_on_archive_list") /\ UNCHANGED outside

\* The imported session is selected for replay, as if the user had picked it.
t_on_archive_imported ==
  /\ \/ Fire("t_on_archive_imported",
             [routerReady |-> Unit,
              userSelectSession |-> [session |-> Head(m["msgArchiveImported"]).session,
                                      mode |-> "replay"]])
     \/ Threw("t_on_archive_imported", [deadLetter |-> Failed])
  /\ UNCHANGED outside

t_filter_net_name == Silent("t_filter_net_name", NoOutput)

-----------------------------------------------------------------------------
(* Browser callbacks: each puts one token into an environment place.        *)

Inject(p, v) ==
  /\ AtRest
  /\ Cycle([m EXCEPT ![p] = Append(@, v)], Nothing, {}, Awaiting)
  /\ UNCHANGED awaiting

\* A user event of a kind the budget names, with the value it carries.
User(kind, p, v) == Spend(kind) /\ Inject(p, v) /\ UNCHANGED outside

ws_onopen ==
  /\ conn.ws = "connecting"
  /\ Inject("wsOpenSignal", "*")
  /\ conn' = [conn EXCEPT !.ws = "open"]
  /\ UNCHANGED <<replay, timer, session, screen, left>>

\* What was still on the wire is lost, and the server ends the stream.
ws_onclose ==
  /\ conn.ws \in {"connecting", "open"}
  /\ Spend("close")
  /\ Inject("wsCloseSignal", "*")
  /\ conn' = [conn EXCEPT !.ws = "closed", !.wire = <<>>, !.live = {}]
  /\ UNCHANGED <<replay, timer, session, screen>>

ws_onmessage ==
  /\ conn.wire # <<>>
  /\ Inject("wsMessage", Head(conn.wire))
  /\ conn' = [conn EXCEPT !.wire = Tail(@)]
  /\ UNCHANGED <<replay, timer, session, screen, left>>

\* A frame nobody asked for; a subscribed only while nothing is outstanding.
StrayFrame ==
  \E frame \in Stray :
    /\ conn.ws = "open"
    /\ frame.type = "subscribed" => m["subscribing"] = <<>>
    /\ User("stray", "wsMessage", frame)

\* The server streams the next event of a live session it believes is subscribed.
LiveEvent ==
  /\ AtRest
  /\ conn.streamed < LiveMessages
  /\ \E s \in conn.live :
       conn' = [Say(conn, <<[type |-> "event", index |-> Len(History[s]) + conn.streamed,
                             event |-> History[s][conn.streamed + 1]]>>)
                EXCEPT !.streamed = @ + 1]
  /\ UNCHANGED <<m, produced, ready, awaiting, replay, timer, session, screen, left>>

\* armNextTick's callback.
TimerFires ==
  /\ timer
  /\ Inject("autoStepTick", "*")
  /\ timer' = FALSE
  /\ UNCHANGED <<conn, replay, session, screen, left>>

tick == Inject("rafTick", "*") /\ UNCHANGED left /\ UNCHANGED outside

\* The button injects what its icon shows.
btnPause ==
  /\ screen.controls
  /\ IF screen.icon = "paused" THEN User("play", "userClickPlay", "*")
     ELSE User("play", "userClickPause", "*")

\* The slider counts the events buffered so far.
timelineSlider ==
  /\ screen.controls
  /\ \E target \in 0..Len(replay.events) : User("move", "userSeekSlider", target)

Controls ==
  /\ screen.controls
  /\ \/ User("move", "userClickStepFwd", "*")
     \/ User("move", "userClickStepBack", "*")
     \/ User("move", "userClickRestart", "*")
     \/ User("move", "userClickRunToEnd", "*")

sessionSelect ==
  \E s \in Sessions, mode \in Modes :
    User("select", "userSelectSession", [session |-> s, mode |-> mode])

Panels ==
  \/ \E bp \in Breakpoints : User("breakpoint", "userSetBreakpoint", bp)
  \/ \E bp \in Breakpoints : User("breakpoint", "userClearBreakpoint", bp.id)
  \/ User("panel", "userApplyFilter", [types |-> {"TokenAdded"}, excludeTypes |-> {}])
  \/ User("search", "userSearch", "TokenAdded")
  \/ User("search", "userSearchNext", "*")
  \/ User("search", "userSearchPrev", "*")
  \/ \E p \in NetPlaces : User("panel", "userClickPlace", p)
  \/ User("panel", "userOpenModal", "*")
  \/ User("panel", "userCloseModal", "*")
  \/ User("panel", "userToggleSubnets", "*")
  \/ User("panel", "userSetSpeed", "*")
  \/ User("panel", "userOpenArchiveBrowser", "*")
  \/ \E s \in Sessions : User("panel", "userImportArchive", s)
  \/ \E s \in Sessions : User("panel", "userUploadArchive", s)
  \/ User("panel", "userFilterNetName", "*")

-----------------------------------------------------------------------------
(* initialTokens, and the ?sessionId= the page may have been opened with.   *)

initialTokens ==
  [p \in UIPlaces |->
     CASE p \in {"idle", "noSession", "routerReady", "modalClosed"} -> <<"*">>
       [] p = "breakpoints" -> << <<>> >>
       [] p = "filterState" -> <<NoFilter>>
       [] p = "searchState" -> <<EmptySearch>>
       [] OTHER -> <<>>]

Init ==
  /\ left \in Budgets
  /\ \E link \in {<<>>} \cup (IF left.link > 0 THEN {<<s>> : s \in DeepLinks} ELSE {}) :
       m = [initialTokens EXCEPT !["deepLink"] = link]
  /\ produced = Nothing /\ ready = EnabledTransitions(m, {}) /\ awaiting = <<>>
  /\ conn = [ws |-> "none", wire |-> <<>>, live |-> {}, orphans |-> {}, streamed |-> 0]
  /\ replay = EmptyReplay
  /\ timer = FALSE /\ session = NoSession
  /\ screen = [icon |-> "playing", controls |-> FALSE, marking |-> emptyMarking, log |-> {},
               svg |-> NoSession, highlight |-> NoHighlight, lost |-> {}]

Connection ==
  t_connect \/ t_on_open \/ t_on_close_connecting \/ t_on_close_connected

SessionPhase ==
  \/ t_subscribe \/ t_switch_from_live \/ t_switch_from_replay_paused
  \/ t_switch_from_replay_playing \/ t_switch_from_breakpoint \/ t_abandon_subscribe

Router ==
  \/ t_route_message \/ t_log_dead_letter \/ t_on_subscribed \/ t_drop_subscribed
  \/ t_on_unsubscribed \/ t_on_session_list \/ t_on_session_list_deep_link
  \/ t_on_event \/ t_drop_event \/ t_on_event_batch \/ t_on_replay_event_batch
  \/ t_drop_event_batch \/ t_on_marking_snapshot \/ t_drop_marking_snapshot
  \/ t_on_playback_state \/ t_on_breakpoint_hit \/ t_on_bp_list \/ t_on_bp_set
  \/ t_on_bp_cleared \/ t_on_filter_applied \/ t_on_error \/ t_on_archive_list
  \/ t_on_archive_imported

Repaint ==
  \/ t_render_dot \/ t_toggle_subnets \/ t_fan_out_dirty \/ t_frame \/ t_idle_frame
  \/ t_update_highlighting \/ t_skip_highlighting \/ t_await_diagram \/ t_update_event_log
  \/ t_skip_event_log \/ t_update_marking \/ t_skip_marking

Playback ==
  \/ t_replay_play \/ t_replay_play_from_bp \/ t_replay_auto_step \/ t_replay_pause
  \/ t_drop_stale_tick \/ t_replay_step_fwd \/ t_replay_step_back \/ t_replay_seek
  \/ t_replay_restart \/ t_replay_run_to_end \/ t_live_pause \/ t_live_resume
  \/ t_live_step_fwd \/ t_live_step_back

Tools ==
  \/ t_inspect_place \/ t_open_modal \/ t_close_modal \/ t_set_breakpoint
  \/ t_clear_breakpoint \/ t_apply_filter \/ t_search \/ t_search_next \/ t_search_prev
  \/ t_set_speed \/ t_open_archive_browser \/ t_import_archive \/ t_upload_archive
  \/ t_filter_net_name

Executor == Connection \/ SessionPhase \/ Router \/ Repaint \/ Playback \/ Tools

Callbacks ==
  \/ ws_onopen \/ ws_onclose \/ ws_onmessage \/ StrayFrame \/ LiveEvent \/ TimerFires \/ tick
  \/ RenderDone \/ ToggleDone \/ AsyncThrew

UserActs == btnPause \/ timelineSlider \/ Controls \/ sessionSelect \/ Panels

Next == Executor \/ t_reconnect \/ Callbacks \/ UserActs

Spec == Init /\ [][Next]_vars

-----------------------------------------------------------------------------
(* Properties.                                                              *)

\* Tokens of a place, those a finished action is about to deposit included.
Tokens(p) == Len(m[p]) + Len(produced[p])

OneTokenIn(places) ==
  \E p \in places : Tokens(p) = 1 /\ \A q \in places \ {p} : Tokens(q) = 0

\* The session is in one phase and a subscribed session in one mode with one uiState, whatever
\* selects, closes, throws and late answers do (the equations of definition.ts, lines 170-175), and
\* shared.currentSession names the session the marking holds.
SessionIsOnePhase ==
  /\ OneTokenIn({"noSession", "subscribing", "subscribedSession"})
  /\ Tokens("subscribedSession") = Tokens("liveSession") + Tokens("replaySession")
  /\ Tokens("replaySession") =
       Tokens("replayPaused") + Tokens("replayPlaying") + Tokens("breakpointPaused")
  /\ Tokens("uiState") = Tokens("subscribedSession")
  /\ m["subscribedSession"] # <<>> => session = Head(m["subscribedSession"])

\* When the executor rests, nothing waits that could have been worked off: the router holds its
\* permit and no message waits for it (no session state leaves a routed message without a consumer,
\* no throw costs the permit), and every frame and tick was consumed when it came.
NothingStuck ==
  /\ OneTokenIn({"routerReady", "deadLetter"} \cup Routes)
  /\ AtRest => /\ m["routerReady"] # <<>>
               /\ \A p \in {"wsMessage", "rafTick", "frameHighlight", "frameLog", "frameMarking",
                           "stateDirty", "autoStepTick"} : m[p] = <<>>

\* Every session left was unsubscribed: no switch threw before its unsubscribe was sent.
NoOrphans == conn.orphans = {}

\* The places at which no event of the buffer was rewritten.  Elsewhere the arrays of the state on
\* display may be those of a rewritten event, and nothing is said of them.
Intact == NetPlaces \ replay.rewritten

SameView(v, w) ==
  /\ v.enabled = w.enabled /\ v.inFlight = w.inFlight
  /\ \A p \in Intact : v.marking[p] = w.marking[p]

\* e is h, or the snapshot h rewritten.
SameEvent(e, h) ==
  IF e.type = "MarkingSnapshot" /\ h.type = e.type
  THEN \A p \in Intact : SnapshotMarking(e)[p] = SnapshotMarking(h)[p]
  ELSE e = h

\* However a replay was moved (steps, ticks, seeks from checkpoints, batches arriving meanwhile or
\* thrown away), the state on display is the first eventIndex events applied in order: always for
\* the transitions, and for a place while no snapshot of the buffer was rewritten at it.
ReplayExact ==
  m["replaySession"] # <<>> /\ m["uiState"] # <<>> /\ NoOrphans =>
    /\ State.eventIndex <= Len(replay.events)
    /\ SameView(State.view, ViewAfter(replay.events, State.eventIndex))

\* What is on display is the session's: nothing of a session that was left is folded into it,
\* although no message is checked against it, and a panel shows the current state unless its dirty
\* flag is up or its last repaint threw.
DisplayTruthful ==
  m["uiState"] # <<>> /\ session # NoSession /\ NoOrphans =>
    /\ \A e \in Range(State.events) \cup Range(replay.events) :
         \E h \in Range(History[session]) : SameEvent(e, h)
    /\ AtRest =>
         /\ m["markingDirty"] = <<>> /\ "marking" \notin screen.lost =>
              \A p \in Intact : screen.marking[p] = State.view.marking[p]
         /\ m["logDirty"] = <<>> /\ "log" \notin screen.lost =>
              screen.log = buildFilteredIndices(State.events, Head(m["filterState"]),
                                                State.eventIndex)
         /\ m["highlightDirty"] = <<>> /\ m["svgReady"] # <<>> /\ Awaiting = {}
            /\ "highlight" \notin screen.lost => SameView(screen.highlight, State.view)
=============================================================================
