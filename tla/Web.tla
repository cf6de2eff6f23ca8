-------------------------------- MODULE Web ---------------------------------
(***************************************************************************)
(* The models of the web interface and of the parts of the server behind   *)
(* it, under one specification.  A page is mounted at a time and the       *)
(* models share no variable, so one of them is chosen at the start and     *)
(* acts; the others keep their initial states.  What two of them share has *)
(* a module of its own: KeepAwakeService between the manager and its       *)
(* client, PagedLibrary between the two libraries.                         *)
(***************************************************************************)
EXTENDS Naturals, Sequences, FiniteSets

CONSTANTS
  NoValue, Unread,   \* no value, and a request that was not read yet
  \* the constants of each module, which explains them
  uploader_Items, uploader_Drops, uploader_MaxFiles, files_Tabs, files_Dirs,
  files_First, files_Base, files_Within, files_Entry, files_MaxFetches,
  files_MaxMoves, files_UploadSlots, drives_Drives, drives_Tags, drives_Points,
  drives_MaxActs, jobs_Requests, jobs_Polls, jobs_MaxFails, migration_Total,
  migration_MaxPushed, migration_MaxFails, sounds_Names, sounds_Stored,
  sounds_MaxActs, sounds_MaxJobs, random_Hours, random_MaxActs,
  community_Codes, community_Filters, community_AnyFilter, community_Pages,
  community_MaxFetches, community_MaxActs, wraps_Controls, wraps_AnyControls,
  wraps_Passcodes, wraps_Pages, wraps_MaxFetches, wraps_MaxActs, preview_Uploads,
  push_Sockets, push_Cap, push_MaxFaults, push_MaxCalls, connection_MaxTurns,
  connection_MaxRetries, session_MaxChecks, session_MaxActs, awake_MaxSessions,
  awake_MaxRequests, awake_MaxWork, awake_Tasks, awake_page_Polls,
  awake_page_Calls, awake_page_MaxEnds, away_MaxLeft, away_MaxEnables,
  away_MaxRestarts, away_Tasks, away_page_Polls, away_page_MaxActs, form_Typed,
  form_Saved, form_Systems, form_Methods, form_Images, form_MaxSize,
  form_MaxActs, setup_MaxApplies, setup_MaxReboots, setup_MaxBlips,
  setup_MaxPolls

VARIABLES
  on,   \* the model that acts
  \* the uploader
  uploader_entry, uploader_ready, uploader_drop, uploader_expanded,
  uploader_single, uploader_all,
  \* the file browser
  files_tab, files_root, files_path, files_search, files_timer, files_work,
  files_fetches, files_shown, files_loading, files_selected, files_uploads,
  files_rows, files_uploading, files_moves,
  \* the drive map
  drives_there, drives_stored, drives_asked, drives_list, drives_load,
  drives_selectedId, drives_detail, drives_details, drives_saves,
  drives_sliderIdx, drives_playing, drives_acts, drives_crossed, drives_mixed, drives_lost,
  \* drive processing
  jobs_running, jobs_importing, jobs_want, jobs_req, jobs_processing,
  jobs_shownImport, jobs_following, jobs_poll, jobs_fails,
  \* the migration banner
  migration_done, migration_active, migration_loop, migration_pushed, migration_poll,
  migration_answer, migration_shown, migration_asked, migration_fails,
  \* the library of lock sounds
  sounds_library, sounds_active, sounds_shown, sounds_jobs, sounds_busy,
  sounds_confirming, sounds_playing, sounds_audio, sounds_promises,
  sounds_converting, sounds_pending, sounds_uploads, sounds_acts,
  \* the random mode
  random_stored, random_hw, random_cfg, random_loaded, random_saving,
  random_modal, random_expanded, random_enough, random_agreed, random_lost,
  random_acts,
  \* the community lock sounds
  community_query, community_due, community_sent, community_fetches,
  community_shown, community_total, community_loading, community_error,
  community_last, community_crossed, community_tab, community_playing,
  community_audio, community_promises, community_downloading,
  community_downloads, community_edits, community_edited, community_acts,
  \* the community wraps
  wraps_query, wraps_due, wraps_sent, wraps_fetches, wraps_shown, wraps_total,
  wraps_loading, wraps_error, wraps_last, wraps_crossed, wraps_prompt,
  wraps_checks, wraps_modal, wraps_saving, wraps_jobs, wraps_edited,
  wraps_downloading, wraps_acts,
  \* the previews of wraps
  preview_stage, preview_ready, preview_phase, preview_timers, preview_asked,
  preview_scene, preview_texture, preview_told, preview_preview, preview_late,
  preview_together,
  \* the socket and the hub
  push_sock, push_ws, push_timer, push_ping, push_connected, push_hub,
  push_queue, push_over, push_reader, push_writer, push_faults, push_calls,
  \* the connection banner
  connection_up, connection_state, connection_httpOk, connection_fails,
  connection_polls, connection_check, connection_prev, connection_display,
  connection_visible, connection_dismissed, connection_hide, connection_turns,
  connection_retries,
  \* App, useAuth and Login
  session_setup, session_appState, session_polled, session_session,
  session_authState, session_checks, session_login, session_loading,
  session_logout, session_acts,
  \* the keep-awake manager
  awake_state, awake_registry, awake_due, awake_stopCh, awake_made,
  awake_closed, awake_task, awake_busy, awake_called, awake_requests,
  awake_works,
  \* its client
  awake_page_session, awake_page_wanted, awake_page_shown, awake_page_poll,
  awake_page_call, awake_page_ends,
  \* away mode
  away_hasRTC, away_running, away_state, away_left, away_file, away_stopCh,
  away_made, away_closed, away_watch, away_ap, away_enables, away_restarts,
  \* its client
  away_page_active, away_page_shown, away_page_stored, away_page_poll,
  away_page_call, away_page_acts,
  \* the form of the setup
  form_form, form_original, form_disk, form_step, form_warning, form_sending,
  form_phase, form_applied, form_restoring, form_acts, form_clean, form_late,
  \* a setup that runs
  setup_up, setup_running, setup_started, setup_finished, setup_work,
  setup_dying, setup_phase, setup_post, setup_poll, setup_last, setup_wentDown,
  setup_open, setup_inbox, setup_applies, setup_reboots, setup_blips,
  setup_failed, setup_since, setup_misled

-----------------------------------------------------------------------------
U == INSTANCE Uploader WITH
  Items <- uploader_Items, Drops <- uploader_Drops,
  MaxFiles <- uploader_MaxFiles, NoItem <- NoValue,
  entry <- uploader_entry, ready <- uploader_ready, drop <- uploader_drop,
  expanded <- uploader_expanded, single <- uploader_single, all <- uploader_all

F == INSTANCE FilesPage WITH
  Tabs <- files_Tabs, Dirs <- files_Dirs, First <- files_First,
  Base <- files_Base, Within <- files_Within, Entry <- files_Entry,
  None <- NoValue, MaxFetches <- files_MaxFetches, MaxMoves <- files_MaxMoves,
  UploadSlots <- files_UploadSlots,
  tab <- files_tab, root <- files_root, path <- files_path,
  search <- files_search, timer <- files_timer, work <- files_work,
  fetches <- files_fetches, shown <- files_shown, loading <- files_loading,
  selected <- files_selected, uploads <- files_uploads, rows <- files_rows,
  uploading <- files_uploading, moves <- files_moves

D == INSTANCE DrivesPage WITH
  Drives <- drives_Drives, Tags <- drives_Tags, None <- NoValue,
  Sent <- Unread, Points <- drives_Points, MaxActs <- drives_MaxActs,
  there <- drives_there, stored <- drives_stored, asked <- drives_asked, list <- drives_list,
  load <- drives_load, selectedId <- drives_selectedId,
  detail <- drives_detail, details <- drives_details, saves <- drives_saves,
  sliderIdx <- drives_sliderIdx, playing <- drives_playing,
  acts <- drives_acts, crossed <- drives_crossed, mixed <- drives_mixed,
  lost <- drives_lost

J == INSTANCE DriveJobs WITH
  Requests <- jobs_Requests, Polls <- jobs_Polls, MaxFails <- jobs_MaxFails,
  running <- jobs_running, importing <- jobs_importing, want <- jobs_want,
  req <- jobs_req, processing <- jobs_processing,
  shownImport <- jobs_shownImport, following <- jobs_following,
  poll <- jobs_poll, fails <- jobs_fails

M == INSTANCE Migration WITH
  Total <- migration_Total, MaxPushed <- migration_MaxPushed,
  MaxFails <- migration_MaxFails,
  done <- migration_done, active <- migration_active, loop <- migration_loop,
  pushed <- migration_pushed, poll <- migration_poll,
  answer <- migration_answer, shown <- migration_shown,
  asked <- migration_asked, fails <- migration_fails

L == INSTANCE ChimeLibrary WITH
  Names <- sounds_Names, Stored <- sounds_Stored, None <- NoValue,
  MaxActs <- sounds_MaxActs, MaxJobs <- sounds_MaxJobs,
  library <- sounds_library, active <- sounds_active, shown <- sounds_shown,
  jobs <- sounds_jobs, busy <- sounds_busy, confirming <- sounds_confirming,
  playing <- sounds_playing, audio <- sounds_audio,
  promises <- sounds_promises, converting <- sounds_converting,
  pending <- sounds_pending, uploads <- sounds_uploads, acts <- sounds_acts

R == INSTANCE ChimeRandom WITH
  Hours <- random_Hours, MaxActs <- random_MaxActs,
  stored <- random_stored, hw <- random_hw, cfg <- random_cfg,
  loaded <- random_loaded, saving <- random_saving, modal <- random_modal,
  expanded <- random_expanded, enough <- random_enough,
  agreed <- random_agreed, lost <- random_lost, acts <- random_acts

Y == INSTANCE ChimeCommunity WITH
  Codes <- community_Codes, Filters <- community_Filters,
  AnyFilter <- community_AnyFilter, Pages <- community_Pages, None <- NoValue,
  MaxFetches <- community_MaxFetches, MaxActs <- community_MaxActs,
  query <- community_query, due <- community_due, sent <- community_sent,
  fetches <- community_fetches, shown <- community_shown,
  total <- community_total, loading <- community_loading,
  error <- community_error, last <- community_last,
  crossed <- community_crossed, tab <- community_tab,
  playing <- community_playing, audio <- community_audio,
  promises <- community_promises, downloading <- community_downloading,
  downloads <- community_downloads, edits <- community_edits,
  edited <- community_edited, acts <- community_acts

W == INSTANCE Wraps WITH
  Filters <- [controls : wraps_Controls, as : wraps_Passcodes \cup {NoValue}],
  AnyFilter <- [controls |-> wraps_AnyControls, as |-> NoValue],
  Controls <- wraps_Controls, Passcodes <- wraps_Passcodes, Pages <- wraps_Pages,
  None <- NoValue, MaxFetches <- wraps_MaxFetches, MaxActs <- wraps_MaxActs,
  query <- wraps_query, due <- wraps_due, sent <- wraps_sent,
  fetches <- wraps_fetches, shown <- wraps_shown, total <- wraps_total,
  loading <- wraps_loading, error <- wraps_error, last <- wraps_last,
  crossed <- wraps_crossed, prompt <- wraps_prompt, checks <- wraps_checks,
  modal <- wraps_modal, saving <- wraps_saving, jobs <- wraps_jobs,
  edited <- wraps_edited,
  downloading <- wraps_downloading, acts <- wraps_acts

V == INSTANCE WrapPreview WITH
  Uploads <- preview_Uploads, stage <- preview_stage, ready <- preview_ready,
  phase <- preview_phase, timers <- preview_timers, asked <- preview_asked,
  scene <- preview_scene, texture <- preview_texture, told <- preview_told,
  preview <- preview_preview, late <- preview_late,
  together <- preview_together

P == INSTANCE Push WITH
  Sockets <- push_Sockets, Cap <- push_Cap, MaxFaults <- push_MaxFaults,
  MaxCalls <- push_MaxCalls,
  sock <- push_sock, ws <- push_ws, timer <- push_timer, ping <- push_ping,
  connected <- push_connected, hub <- push_hub, queue <- push_queue,
  over <- push_over, reader <- push_reader, writer <- push_writer,
  faults <- push_faults, calls <- push_calls

C == INSTANCE Connection WITH
  MaxTurns <- connection_MaxTurns, MaxRetries <- connection_MaxRetries,
  up <- connection_up, state <- connection_state, httpOk <- connection_httpOk,
  fails <- connection_fails, polls <- connection_polls,
  check <- connection_check, prev <- connection_prev,
  display <- connection_display, visible <- connection_visible,
  dismissed <- connection_dismissed, hide <- connection_hide,
  turns <- connection_turns, retries <- connection_retries

S == INSTANCE Session WITH
  MaxChecks <- session_MaxChecks, MaxActs <- session_MaxActs,
  setup <- session_setup, appState <- session_appState,
  polled <- session_polled, session <- session_session,
  authState <- session_authState, checks <- session_checks,
  login <- session_login, loading <- session_loading, logout <- session_logout,
  acts <- session_acts

K == INSTANCE KeepAwake WITH
  MaxSessions <- awake_MaxSessions, MaxRequests <- awake_MaxRequests,
  MaxWork <- awake_MaxWork, Tasks <- awake_Tasks,
  state <- awake_state, registry <- awake_registry, due <- awake_due,
  stopCh <- awake_stopCh, made <- awake_made, closed <- awake_closed,
  task <- awake_task, busy <- awake_busy, called <- awake_called,
  requests <- awake_requests, works <- awake_works

B == INSTANCE KeepAwakeClient WITH
  Polls <- awake_page_Polls, Calls <- awake_page_Calls,
  MaxEnds <- awake_page_MaxEnds,
  session <- awake_page_session, wanted <- awake_page_wanted,
  shown <- awake_page_shown, poll <- awake_page_poll, call <- awake_page_call,
  ends <- awake_page_ends

A == INSTANCE AwayMode WITH
  MaxLeft <- away_MaxLeft, MaxEnables <- away_MaxEnables,
  MaxRestarts <- away_MaxRestarts, Tasks <- away_Tasks,
  hasRTC <- away_hasRTC, running <- away_running, state <- away_state,
  left <- away_left, file <- away_file, stopCh <- away_stopCh,
  made <- away_made, closed <- away_closed, watch <- away_watch, ap <- away_ap,
  enables <- away_enables, restarts <- away_restarts

E == INSTANCE AwayClient WITH
  Polls <- away_page_Polls, MaxActs <- away_page_MaxActs,
  active <- away_page_active, shown <- away_page_shown,
  stored <- away_page_stored, poll <- away_page_poll, call <- away_page_call,
  acts <- away_page_acts

G == INSTANCE SetupForm WITH
  Typed <- form_Typed, Saved <- form_Saved, Systems <- form_Systems,
  Methods <- form_Methods, Images <- form_Images, MaxSize <- form_MaxSize,
  None <- NoValue, MaxActs <- form_MaxActs,
  form <- form_form, original <- form_original, disk <- form_disk,
  step <- form_step, warning <- form_warning, sending <- form_sending,
  phase <- form_phase, applied <- form_applied, restoring <- form_restoring,
  acts <- form_acts, clean <- form_clean, late <- form_late

H == INSTANCE SetupRun WITH
  MaxApplies <- setup_MaxApplies, MaxReboots <- setup_MaxReboots,
  MaxBlips <- setup_MaxBlips, MaxPolls <- setup_MaxPolls,
  up <- setup_up, running <- setup_running, started <- setup_started,
  finished <- setup_finished, work <- setup_work, dying <- setup_dying,
  phase <- setup_phase, post <- setup_post, poll <- setup_poll,
  last <- setup_last, wentDown <- setup_wentDown, open <- setup_open,
  inbox <- setup_inbox, applies <- setup_applies, reboots <- setup_reboots,
  blips <- setup_blips, failed <- setup_failed, since <- setup_since,
  misled <- setup_misled

uploaderVars == <<uploader_entry, uploader_ready, uploader_drop,
  uploader_expanded, uploader_single, uploader_all>>
filesVars == <<files_tab, files_root, files_path, files_search, files_timer,
  files_work, files_fetches, files_shown, files_loading, files_selected,
  files_uploads, files_rows, files_uploading, files_moves>>
drivesVars == <<drives_there, drives_stored, drives_asked, drives_list, drives_load,
  drives_selectedId, drives_detail, drives_details, drives_saves,
  drives_sliderIdx, drives_playing, drives_acts, drives_crossed, drives_mixed,
  drives_lost>>
jobsVars == <<jobs_running, jobs_importing, jobs_want, jobs_req,
  jobs_processing, jobs_shownImport, jobs_following, jobs_poll, jobs_fails>>
migrationVars == <<migration_done, migration_active, migration_loop, migration_pushed,
  migration_poll, migration_answer, migration_shown, migration_asked,
  migration_fails>>
soundsVars == <<sounds_library, sounds_active, sounds_shown, sounds_jobs,
  sounds_busy, sounds_confirming, sounds_playing, sounds_audio,
  sounds_promises, sounds_converting, sounds_pending, sounds_uploads,
  sounds_acts>>
randomVars == <<random_stored, random_hw, random_cfg, random_loaded,
  random_saving, random_modal, random_expanded, random_enough, random_agreed,
  random_lost, random_acts>>
communityVars == <<community_query, community_due, community_sent,
  community_fetches, community_shown, community_total, community_loading,
  community_error, community_last, community_crossed, community_tab,
  community_playing, community_audio, community_promises,
  community_downloading, community_downloads, community_edits,
  community_edited, community_acts>>
wrapsVars == <<wraps_query, wraps_due, wraps_sent, wraps_fetches, wraps_shown,
  wraps_total, wraps_loading, wraps_error, wraps_last, wraps_crossed,
  wraps_prompt, wraps_checks, wraps_modal, wraps_saving, wraps_jobs,
  wraps_edited, wraps_downloading, wraps_acts>>
previewVars == <<preview_stage, preview_ready, preview_phase, preview_timers,
  preview_asked, preview_scene, preview_texture, preview_told, preview_preview,
  preview_late, preview_together>>
pushVars == <<push_sock, push_ws, push_timer, push_ping, push_connected,
  push_hub, push_queue, push_over, push_reader, push_writer, push_faults,
  push_calls>>
connectionVars == <<connection_up, connection_state, connection_httpOk,
  connection_fails, connection_polls, connection_check, connection_prev,
  connection_display, connection_visible, connection_dismissed,
  connection_hide, connection_turns, connection_retries>>
sessionVars == <<session_setup, session_appState, session_polled,
  session_session, session_authState, session_checks, session_login,
  session_loading, session_logout, session_acts>>
awakeVars == <<awake_state, awake_registry, awake_due, awake_stopCh,
  awake_made, awake_closed, awake_task, awake_busy, awake_called,
  awake_requests, awake_works>>
awake_pageVars == <<awake_page_session, awake_page_wanted, awake_page_shown,
  awake_page_poll, awake_page_call, awake_page_ends>>
awayVars == <<away_hasRTC, away_running, away_state, away_left, away_file,
  away_stopCh, away_made, away_closed, away_watch, away_ap, away_enables,
  away_restarts>>
away_pageVars == <<away_page_active, away_page_shown, away_page_stored,
  away_page_poll, away_page_call, away_page_acts>>
formVars == <<form_form, form_original, form_disk, form_step, form_warning,
  form_sending, form_phase, form_applied, form_restoring, form_acts,
  form_clean, form_late>>
setupVars == <<setup_up, setup_running, setup_started, setup_finished,
  setup_work, setup_dying, setup_phase, setup_post, setup_poll, setup_last,
  setup_wentDown, setup_open, setup_inbox, setup_applies, setup_reboots,
  setup_blips, setup_failed, setup_since, setup_misled>>

ASSUME WebAssumption ==
  /\ U!UploaderAssumption
  /\ F!FilesAssumption
  /\ D!DrivesPageAssumption
  /\ J!DriveJobsAssumption
  /\ M!MigrationAssumption
  /\ L!ChimeLibraryAssumption
  /\ R!ChimeRandomAssumption
  /\ Y!ChimeCommunityAssumption /\ Y!PagedLibraryAssumption
  /\ W!WrapsAssumption /\ W!PagedLibraryAssumption
  /\ V!WrapPreviewAssumption
  /\ P!PushAssumption
  /\ C!ConnectionAssumption
  /\ S!SessionAssumption
  /\ K!KeepAwakeAssumption
  /\ B!ClientAssumption
  /\ A!AwayAssumption
  /\ E!AwayClientAssumption
  /\ G!SetupFormAssumption
  /\ H!SetupRunAssumption

-----------------------------------------------------------------------------
Parts == {"uploader", "files", "drives", "jobs", "migration", "sounds",
          "random", "community", "wraps", "preview", "push", "connection",
          "session", "awake", "awake_page", "away", "away_page", "form",
          "setup"}

Init ==
  /\ on \in Parts
  /\ U!Init
  /\ F!Init
  /\ D!Init
  /\ J!Init
  /\ M!Init
  /\ L!Init
  /\ R!Init
  /\ Y!Init
  /\ W!Init
  /\ V!Init
  /\ P!Init
  /\ C!Init
  /\ S!Init
  /\ K!Init
  /\ B!Init
  /\ A!Init
  /\ E!Init
  /\ G!Init
  /\ H!Init

\* The others keep their states.
Alone(part) ==
  /\ on = part /\ UNCHANGED on
  /\ IF part = "uploader" THEN TRUE ELSE UNCHANGED uploaderVars
  /\ IF part = "files" THEN TRUE ELSE UNCHANGED filesVars
  /\ IF part = "drives" THEN TRUE ELSE UNCHANGED drivesVars
  /\ IF part = "jobs" THEN TRUE ELSE UNCHANGED jobsVars
  /\ IF part = "migration" THEN TRUE ELSE UNCHANGED migrationVars
  /\ IF part = "sounds" THEN TRUE ELSE UNCHANGED soundsVars
  /\ IF part = "random" THEN TRUE ELSE UNCHANGED randomVars
  /\ IF part = "community" THEN TRUE ELSE UNCHANGED communityVars
  /\ IF part = "wraps" THEN TRUE ELSE UNCHANGED wrapsVars
  /\ IF part = "preview" THEN TRUE ELSE UNCHANGED previewVars
  /\ IF part = "push" THEN TRUE ELSE UNCHANGED pushVars
  /\ IF part = "connection" THEN TRUE ELSE UNCHANGED connectionVars
  /\ IF part = "session" THEN TRUE ELSE UNCHANGED sessionVars
  /\ IF part = "awake" THEN TRUE ELSE UNCHANGED awakeVars
  /\ IF part = "awake_page" THEN TRUE ELSE UNCHANGED awake_pageVars
  /\ IF part = "away" THEN TRUE ELSE UNCHANGED awayVars
  /\ IF part = "away_page" THEN TRUE ELSE UNCHANGED away_pageVars
  /\ IF part = "form" THEN TRUE ELSE UNCHANGED formVars
  /\ IF part = "setup" THEN TRUE ELSE UNCHANGED setupVars

Next ==
  \/ Alone("uploader") /\ U!Next
  \/ Alone("files") /\ F!Next
  \/ Alone("drives") /\ D!Next
  \/ Alone("jobs") /\ J!Next
  \/ Alone("migration") /\ M!Next
  \/ Alone("sounds") /\ L!Next
  \/ Alone("random") /\ R!Next
  \/ Alone("community") /\ Y!Next
  \/ Alone("wraps") /\ W!Next
  \/ Alone("preview") /\ V!Next
  \/ Alone("push") /\ P!Next
  \/ Alone("connection") /\ C!Next
  \/ Alone("session") /\ S!Next
  \/ Alone("awake") /\ K!Next
  \/ Alone("awake_page") /\ B!Next
  \/ Alone("away") /\ A!Next
  \/ Alone("away_page") /\ E!Next
  \/ Alone("form") /\ G!Next
  \/ Alone("setup") /\ H!Next

vars == <<on, uploaderVars, filesVars, drivesVars, jobsVars, migrationVars, soundsVars,
          randomVars, communityVars, wrapsVars, previewVars, pushVars,
          connectionVars, sessionVars, awakeVars, awake_pageVars, awayVars,
          away_pageVars, formVars, setupVars>>

Spec == Init /\ [][Next]_vars

(* The fairness of each module, for the part that acts                              *)
Fairness ==
  /\ \A r \in jobs_Requests : WF_jobsVars(on = "jobs" /\ J!Serving(r))
  /\ \A p \in jobs_Polls : WF_jobsVars(on = "jobs" /\ (J!Ask(p) /\ jobs_poll'[p].for = "status"))
  /\ \A p \in jobs_Polls : WF_jobsVars(on = "jobs" /\ (J!Status(p) \/ J!Told(p)))
  /\ WF_migrationVars(on = "migration" /\ (M!Commit \/ M!Finish))
  /\ WF_migrationVars(on = "migration" /\ M!Going)
  /\ WF_migrationVars(on = "migration" /\ M!Pushed)
  /\ WF_migrationVars(on = "migration" /\ M!Ask)
  /\ WF_previewVars(on = "preview" /\ V!Page)
  /\ WF_pushVars(on = "push" /\ P!Reconnect)
  /\ \A s \in push_Sockets : WF_pushVars(on = "push" /\ P!Goes(s))
  /\ \A s \in push_Sockets : WF_pushVars(on = "push" /\ P!Write(s))
  /\ \A i \in 1 .. 2 : WF_connectionVars(on = "connection" /\ C!Poll(i))
  /\ \A i \in 1 .. 2 : WF_connectionVars(on = "connection" /\ C!PollDone(i))
  /\ WF_connectionVars(on = "connection" /\ C!Answers)
  /\ WF_connectionVars(on = "connection" /\ C!CheckDone)
  /\ WF_connectionVars(on = "connection" /\ C!Notice)
  /\ WF_sessionVars(on = "session" /\ S!Asking)
  /\ WF_sessionVars(on = "session" /\ S!Answering)
  /\ \A i \in 1 .. session_MaxChecks : WF_sessionVars(on = "session" /\ S!Checking(i))
  /\ \A t \in awake_Tasks : WF_awakeVars(on = "awake" /\ K!Run(t))
  /\ WF_awakeVars(on = "awake" /\ K!TimePasses)
  /\ WF_awakeVars(on = "awake" /\ K!WorkEnds)
  /\ \A p \in awake_page_Polls : WF_awake_pageVars(on = "awake_page" /\ B!Polling(p))
  /\ \A c \in awake_page_Calls : WF_awake_pageVars(on = "awake_page" /\ B!Calling(c))
  /\ WF_awayVars(on = "away" /\ A!TimePasses)
  /\ WF_awayVars(on = "away" /\ A!Restore)
  /\ \A t \in away_Tasks : WF_awayVars(on = "away" /\ (A!Enter(t) \/ A!Stopped(t) \/ A!Tick(t)))
  /\ \A p \in away_page_Polls : WF_away_pageVars(on = "away_page" /\ E!Polling(p))
  /\ WF_away_pageVars(on = "away_page" /\ E!Calling)
  /\ WF_setupVars(on = "setup" /\ H!Serving)
  /\ WF_setupVars(on = "setup" /\ H!PostAnswered)
  /\ WF_setupVars(on = "setup" /\ H!Polling)
  /\ WF_setupVars(on = "setup" /\ H!Message)
  /\ WF_setupVars(on = "setup" /\ H!Down)
  /\ WF_setupVars(on = "setup" /\ H!Up)

-----------------------------------------------------------------------------
(* The properties; each is explained in its module.  What happens in the end happens *)
(* in the part that acts.                                                            *)

\* Every part keeps to its types.
WebTypeOK ==
  /\ on = "uploader" => U!TypeOK
  /\ on = "files" => F!TypeOK
  /\ on = "drives" => D!TypeOK
  /\ on = "jobs" => J!TypeOK
  /\ on = "migration" => M!TypeOK
  /\ on = "sounds" => L!TypeOK
  /\ on = "random" => R!TypeOK
  /\ on = "community" => Y!TypeOK
  /\ on = "wraps" => W!TypeOK
  /\ on = "preview" => V!TypeOK
  /\ on = "push" => P!TypeOK
  /\ on = "connection" => C!TypeOK
  /\ on = "session" => S!TypeOK
  /\ on = "awake" => K!TypeOK
  /\ on = "awake_page" => B!TypeOK
  /\ on = "away" => A!TypeOK
  /\ on = "away_page" => E!TypeOK
  /\ on = "form" => G!TypeOK
  /\ on = "setup" => H!TypeOK

\* The uploader: a file is marked as being uploaded while one call waits for it,
\* never two.
OneUpload == on = "uploader" => U!OneUpload

\* The file browser: the timer of an earlier upload never clears the rows of the one
\* under way.
RowsOfUpload == on = "files" => F!RowsOfUpload

\* The drive map: a drive has no tags but its own, and at rest the list has those
\* that are stored.
DriveTags == on = "drives" => D!TagsOwn /\ D!ListAgrees

\* Drive processing: one run of the processor at a time, however many requests
\* passed their check.
OneRun == on = "jobs" => J!OneRun

\* The library of lock sounds: the row that offers a pause is that of the sound that
\* is heard, and a chosen sound is sent once.
SoundsShown == on = "sounds" => L!PlayingHeard /\ L!SentOnce

\* The random mode: the card shows the mode the server is in, and that is on after
\* its disclaimer only.
RandomMode == on = "random" => R!ShowsMode /\ R!AgreedFirst

\* The community lock sounds: at rest the page shows what its controls say.
SettledPage == on = "community" => Y!SettledPage

\* The community wraps: at rest the page shows the list of its controls as the passcode
\* in use gives it.
OwnList == on = "wraps" => W!OwnList

\* The previews of wraps: one at a time, a wrap is sent with its own picture or with none.
PreviewOwn == on = "preview" => V!PreviewOwn

\* The socket and the hub: the hub never uses a channel that is closed.
ChannelsOpen == on = "push" => P!ChannelsOpen

\* The connection banner: an outage is not hidden by the timer of an earlier
\* "Connected".
OutageVisible == on = "connection" => C!OutageVisible

\* Away mode: the flag file exists exactly during a session, restarts included.
FlagIsSession == on = "away" => A!FlagIsSession

\* The form of the setup: what is written has every field that its choices require,
\* and no image is made anew without a question.
FormApplied == on = "form" => G!AppliedComplete /\ G!UnaskedKeeps

\* A setup that runs: "Setup Complete!" is said after the last reboot.
CompleteIsDone == on = "setup" => H!CompleteIsDone

\* Drive processing and the migration: in the end the buttons of the drive map are
\* enabled again and the banner of the migration is gone.
JobsShown ==
  /\ on = "jobs" => J!FlagsSettle
  /\ on = "migration" => M!MigrationSettles

\* The previews of wraps: the renderer holds no upload up for ever.
PreviewsEnd == on = "preview" => V!PreviewsEnd

\* The socket and the hub: a client that lost its connection gets one again.
Reconnects == on = "push" => P!Reconnects

\* The connection banner: in the end a server that is up is shown as connected, and
\* one that is down as disconnected.
StatusSettles == on = "connection" => C!StatusSettles /\ C!OutageShown

\* The keep-awake manager implements the service that its clients assume.
ServiceKept == K!ServiceKept

\* The sessions of the server: away mode and an active keep-awake session end, restarts
\* of the server or not; a keep-awake session that is queued may stay (KeepAwake!ActiveEnds).
SessionsEnd ==
  /\ on = "awake" => K!ActiveEnds
  /\ on = "away" => A!AwayEnds

\* The sessions as the pages show them: in the end the login is shown exactly
\* without a session, a page opened during the setup shows the pages, and the
\* clients of keep-awake and away mode show the state of the server.
ClientsSettle ==
  /\ on = "session" => S!AuthSettles /\ S!SetupLeadsOn
  /\ on = "awake_page" => B!ShownSettles
  /\ on = "away_page" => E!NoteSettles

\* A setup that runs: the wizard does not wait for a reboot while the setup goes on,
\* and it notices the end.
WizardFollows == on = "setup" => H!BlipsRecover /\ H!EndIsSeen
=============================================================================
