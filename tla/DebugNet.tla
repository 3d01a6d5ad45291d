------------------------------ MODULE DebugNet ------------------------------
(***************************************************************************)
(* The debug UI is a Petri net that the library's own executor runs.  This *)
(* module holds the net of buildDebugNet() - its places, the arcs of each  *)
(* transition and the order they are declared in - and the executor's      *)
(* cycle as the net sees it; DebugUI holds what each action does.          *)
(*                                                                         *)
(* The executor deposits what finished actions produced, finds the enabled *)
(* transitions and starts those in declaration order, each if it is still  *)
(* enabled when its turn comes.  Every action but t_render_dot and         *)
(* t_toggle_subnets runs to its end when started, so what it produces is   *)
(* deposited at the next cycle, and browser callbacks run only between two *)
(* runs of the executor to rest.                                           *)
(***************************************************************************)
EXTENDS Replay

One(places) == [one |-> places, all |-> {}, reads |-> {}, inhibitors |-> {}, resets |-> {}]
Reading(arcs, places) == [arcs EXCEPT !.reads = places]
Inhibited(arcs, place) == [arcs EXCEPT !.inhibitors = {place}]
All(arcs, place) == [arcs EXCEPT !.all = {place}]
Resetting(arcs, place) == [arcs EXCEPT !.resets = {place}]

\* messageRoutes: the place of every protocol message type.
messageRoutes ==
  [sessionList |-> "msgSessionList", subscribed |-> "msgSubscribed",
   unsubscribed |-> "msgUnsubscribed", event |-> "msgEvent", eventBatch |-> "msgEventBatch",
   markingSnapshot |-> "msgMarkingSnapshot", playbackStateChanged |-> "msgPlaybackState",
   filterApplied |-> "msgFilterApplied", breakpointHit |-> "msgBreakpointHit",
   breakpointList |-> "msgBreakpointList", breakpointSet |-> "msgBreakpointSet",
   breakpointCleared |-> "msgBreakpointCleared", error |-> "msgError",
   archiveList |-> "msgArchiveList", archiveImported |-> "msgArchiveImported"]

Routes == {messageRoutes[k] : k \in DOMAIN messageRoutes}

allEnvironmentPlaces ==
  {"wsOpenSignal", "wsCloseSignal", "wsMessage", "userSelectSession", "userClickPause",
   "userClickPlay", "userClickStepFwd", "userClickStepBack", "userClickRestart",
   "userClickRunToEnd", "userSeekSlider", "userSetSpeed", "userClickPlace",
   "userSetBreakpoint", "userClearBreakpoint", "userApplyFilter", "userSearch",
   "userSearchPrev", "userSearchNext", "userOpenModal", "userCloseModal",
   "userOpenArchiveBrowser", "userImportArchive", "userUploadArchive", "userFilterNetName",
   "userToggleSubnets", "rafTick", "deepLink", "autoStepTick"}

ReplayModes == {"replayPaused", "replayPlaying", "breakpointPaused"}

\* places.ts without the environment places above (tokensDirty has no arc).
InnerPlaces ==
  {"idle", "connecting", "connected", "waitReconnect",
   "noSession", "subscribing", "subscribedSession", "liveSession", "replaySession",
   "uiState", "stateDirty", "dotSource", "svgReady", "highlightDirty", "logDirty",
   "markingDirty", "frameHighlight", "frameLog", "frameMarking", "filterState",
   "selectedPlace", "modalClosed", "modalOpen", "breakpoints", "searchState",
   "routerReady", "deadLetter"} \cup ReplayModes \cup Routes

UIPlaces == allEnvironmentPlaces \cup InnerPlaces

-----------------------------------------------------------------------------
(* The arcs, one row per builder call.                                      *)

switchFrom(held) ==
  Reading(One({"subscribedSession", "userSelectSession", "uiState"} \cup held), {"connected"})
onMessage(from) == One({from})
onSessionMessage(from, mode) == Reading(One({from, "uiState"}), {"subscribedSession"} \cup mode)
dropWithout(from, required) == Inhibited(One({from}), required)
skipFrame(frame, missing) == Inhibited(One({frame}), missing)
startPlaying(from) == Reading(One({from, "userClickPlay"}), {"replaySession"})
onReplayCommand(trigger) == Reading(One({"uiState", trigger}), {"replaySession"})
liveControl(trigger) == Reading(One({trigger}), {"liveSession"})
onBreakpointEdit(trigger) == One({"breakpoints", trigger})

Arcs ==
  [t_connect |-> One({"idle"}),
   t_on_open |-> One({"connecting", "wsOpenSignal"}),
   t_on_close_connecting |-> One({"connecting", "wsCloseSignal"}),
   t_on_close_connected |-> One({"connected", "wsCloseSignal"}),
   t_subscribe |-> Reading(One({"noSession", "userSelectSession"}), {"connected"}),
   t_switch_from_live |-> switchFrom({"liveSession"}),
   t_switch_from_replay_paused |-> switchFrom({"replaySession", "replayPaused"}),
   t_switch_from_replay_playing |-> switchFrom({"replaySession", "replayPlaying"}),
   t_switch_from_breakpoint |-> switchFrom({"replaySession", "breakpointPaused"}),
   t_abandon_subscribe |-> Inhibited(One({"subscribing"}), "connected"),
   t_route_message |-> One({"wsMessage", "routerReady"}),
   t_log_dead_letter |-> One({"deadLetter"}),
   t_on_subscribed |-> One({"msgSubscribed", "subscribing"}),
   t_drop_subscribed |-> dropWithout("msgSubscribed", "subscribing"),
   t_on_unsubscribed |-> onMessage("msgUnsubscribed"),
   t_on_session_list |-> Inhibited(One({"msgSessionList"}), "deepLink"),
   t_on_session_list_deep_link |-> One({"msgSessionList", "deepLink"}),
   t_on_event |-> onSessionMessage("msgEvent", {}),
   t_drop_event |-> dropWithout("msgEvent", "subscribedSession"),
   t_on_event_batch |-> onSessionMessage("msgEventBatch", {"liveSession"}),
   t_on_replay_event_batch |-> onSessionMessage("msgEventBatch", {"replaySession"}),
   t_drop_event_batch |-> dropWithout("msgEventBatch", "subscribedSession"),
   t_on_marking_snapshot |-> onSessionMessage("msgMarkingSnapshot", {}),
   t_drop_marking_snapshot |-> dropWithout("msgMarkingSnapshot", "subscribedSession"),
   t_on_playback_state |-> onMessage("msgPlaybackState"),
   t_on_breakpoint_hit |-> onMessage("msgBreakpointHit"),
   t_on_bp_list |-> One({"msgBreakpointList", "breakpoints"}),
   t_on_bp_set |-> onMessage("msgBreakpointSet"),
   t_on_bp_cleared |-> onMessage("msgBreakpointCleared"),
   t_on_filter_applied |-> onMessage("msgFilterApplied"),
   t_on_error |-> onMessage("msgError"),
   t_render_dot |-> Resetting(One({"dotSource"}), "svgReady"),
   t_toggle_subnets |-> One({"userToggleSubnets"}),
   t_fan_out_dirty |-> One({"stateDirty"}),
   t_frame |-> Reading(All(One({}), "rafTick"), {"uiState"}),
   t_idle_frame |-> Inhibited(All(One({}), "rafTick"), "uiState"),
   t_update_highlighting |->
     Reading(All(One({"frameHighlight"}), "highlightDirty"), {"svgReady", "uiState"}),
   t_skip_highlighting |-> skipFrame("frameHighlight", "highlightDirty"),
   t_await_diagram |-> skipFrame("frameHighlight", "svgReady"),
   t_update_event_log |-> Reading(All(One({"frameLog"}), "logDirty"), {"uiState", "filterState"}),
   t_skip_event_log |-> skipFrame("frameLog", "logDirty"),
   t_update_marking |-> Reading(All(One({"frameMarking"}), "markingDirty"), {"uiState"}),
   t_skip_marking |-> skipFrame("frameMarking", "markingDirty"),
   t_replay_play |-> startPlaying("replayPaused"),
   t_replay_play_from_bp |-> startPlaying("breakpointPaused"),
   t_replay_auto_step |->
     Reading(One({"autoStepTick", "replayPlaying", "uiState"}), {"breakpoints"}),
   t_replay_pause |-> One({"replayPlaying", "userClickPause"}),
   t_drop_stale_tick |-> Inhibited(One({"autoStepTick"}), "replayPlaying"),
   t_replay_step_fwd |-> onReplayCommand("userClickStepFwd"),
   t_replay_step_back |-> onReplayCommand("userClickStepBack"),
   t_replay_seek |-> onReplayCommand("userSeekSlider"),
   t_replay_restart |-> onReplayCommand("userClickRestart"),
   t_replay_run_to_end |-> onReplayCommand("userClickRunToEnd"),
   t_live_pause |-> liveControl("userClickPause"),
   t_live_resume |-> liveControl("userClickPlay"),
   t_live_step_fwd |-> liveControl("userClickStepFwd"),
   t_live_step_back |-> liveControl("userClickStepBack"),
   t_inspect_place |-> Resetting(Reading(One({"userClickPlace"}), {"uiState"}), "selectedPlace"),
   t_open_modal |-> One({"modalClosed", "userOpenModal"}),
   t_close_modal |-> One({"modalOpen", "userCloseModal"}),
   t_set_breakpoint |-> onBreakpointEdit("userSetBreakpoint"),
   t_clear_breakpoint |-> onBreakpointEdit("userClearBreakpoint"),
   t_apply_filter |-> One({"filterState", "userApplyFilter"}),
   t_search |-> Reading(One({"searchState", "userSearch"}), {"uiState"}),
   t_search_next |-> One({"searchState", "userSearchNext"}),
   t_search_prev |-> One({"searchState", "userSearchPrev"}),
   t_set_speed |-> One({"userSetSpeed"}),
   t_open_archive_browser |-> Reading(One({"userOpenArchiveBrowser"}), {"connected"}),
   t_on_archive_list |-> onMessage("msgArchiveList"),
   t_import_archive |-> Reading(One({"userImportArchive"}), {"connected"}),
   t_upload_archive |-> Reading(One({"userUploadArchive"}), {"connected"}),
   t_on_archive_imported |-> One({"msgArchiveImported"}),
   t_filter_net_name |-> One({"userFilterNetName"})]

\* The transitions as PetriNet.builder('DebugUI').transitions(...) lists them.  t_reconnect, the
\* only one with a delay, is an action of its own in DebugUI.
DeclarationOrder ==
  <<"t_connect", "t_on_open", "t_on_close_connecting", "t_on_close_connected", "t_subscribe",
    "t_switch_from_live", "t_switch_from_replay_paused", "t_switch_from_replay_playing",
    "t_switch_from_breakpoint", "t_abandon_subscribe", "t_route_message", "t_log_dead_letter",
    "t_on_subscribed", "t_drop_subscribed", "t_on_unsubscribed", "t_on_session_list",
    "t_on_session_list_deep_link", "t_on_event", "t_drop_event", "t_on_event_batch",
    "t_on_replay_event_batch", "t_drop_event_batch", "t_on_marking_snapshot",
    "t_drop_marking_snapshot", "t_on_playback_state", "t_on_breakpoint_hit", "t_on_bp_list",
    "t_on_bp_set", "t_on_bp_cleared", "t_on_filter_applied", "t_on_error", "t_render_dot",
    "t_toggle_subnets", "t_fan_out_dirty", "t_frame", "t_idle_frame", "t_update_highlighting",
    "t_skip_highlighting", "t_await_diagram", "t_update_event_log", "t_skip_event_log",
    "t_update_marking", "t_skip_marking", "t_replay_play", "t_replay_play_from_bp",
    "t_replay_auto_step", "t_replay_pause", "t_drop_stale_tick", "t_replay_step_fwd",
    "t_replay_step_back", "t_replay_seek", "t_replay_restart", "t_replay_run_to_end",
    "t_live_pause", "t_live_resume", "t_live_step_fwd", "t_live_step_back", "t_inspect_place",
    "t_open_modal", "t_close_modal", "t_set_breakpoint", "t_clear_breakpoint",
    "t_apply_filter", "t_search", "t_search_next", "t_search_prev", "t_set_speed",
    "t_open_archive_browser", "t_on_archive_list", "t_import_archive", "t_upload_archive",
    "t_on_archive_imported", "t_filter_net_name">>

Position == [t \in DOMAIN Arcs |-> CHOOSE i \in DOMAIN DeclarationOrder : DeclarationOrder[i] = t]

-----------------------------------------------------------------------------
Marked(mk, p) == mk[p] # <<>>

\* The places whose arcs ask for a token.
Tested == [t \in DOMAIN Arcs |-> Arcs[t].one \cup Arcs[t].all \cup Arcs[t].reads]

\* awaiting: the transitions whose action is still running (a transition has one firing at a time).
Enabled(mk, awaiting, t) ==
  /\ t \notin awaiting
  /\ \A p \in Tested[t] : Marked(mk, p)
  /\ \A p \in Arcs[t].inhibitors : ~Marked(mk, p)

Consume(mk, t) ==
  [p \in UIPlaces |-> CASE p \in Arcs[t].one -> Tail(mk[p])
                        [] p \in Arcs[t].all \cup Arcs[t].resets -> <<>>
                        [] OTHER -> mk[p]]

\* No place produced to, and an action without outputs.
Nothing == [p \in UIPlaces |-> <<>>]
NoOutput == [p \in {} |-> <<>>]

\* No action outputs twice to a place; what several of a cycle produce there keeps their order.
WithOutputs(produced, outs) ==
  [p \in UIPlaces |-> IF p \in DOMAIN outs THEN Append(produced[p], outs[p]) ELSE produced[p]]

Deposit(mk, produced) == [p \in UIPlaces |-> mk[p] \o produced[p]]

EnabledTransitions(mk, awaiting) == {t \in DOMAIN Arcs : Enabled(mk, awaiting, t)}
=============================================================================
