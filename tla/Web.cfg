SPECIFICATION FairSpec

CONSTANTS
  NoValue = NoValue
  Unread = Unread
  uploader_Items = {"a", "b"}
  uploader_Drops = {1}
  uploader_MaxFiles = 3
  files_Tabs = {"music", "chime"}
  files_Dirs = {"music:", "music:Music", "music:Music/a", "chime:"}
  files_First = "music"
  files_Base <- Base
  files_Within <- Within
  files_Entry <- Entry
  files_MaxFetches = 2
  files_MaxMoves = 2
  files_UploadSlots = {1, 2}
  drives_Drives = {1, 2}
  drives_Tags = {"work", "trip"}
  drives_Points = 2
  drives_MaxActs = 3
  jobs_Requests = {1, 2}
  jobs_Polls = {1}
  jobs_MaxFails = 1
  migration_Total = 3
  migration_MaxPushed = 1
  migration_MaxFails = 1
  sounds_Names = {"horn", "bell"}
  sounds_Stored = {"horn"}
  sounds_MaxActs = 3
  sounds_MaxJobs = 2
  random_Hours = {0, 3}
  random_MaxActs = 3
  community_Codes = {"a"}
  community_Filters = {"all", "horn"}
  community_AnyFilter = "all"
  community_Pages = 2
  community_MaxFetches = 3
  community_MaxActs = 3
  wraps_Controls = {"all", "m3"}
  wraps_AnyControls = "all"
  wraps_Passcodes = {"p"}
  wraps_Pages = 2
  wraps_MaxFetches = 2
  wraps_MaxActs = 4
  preview_Uploads = 2
  push_Sockets = {1, 2}
  push_Cap = 1
  push_MaxFaults = 1
  push_MaxCalls = 2
  connection_MaxTurns = 3
  connection_MaxRetries = 1
  session_MaxChecks = 2
  session_MaxActs = 3
  awake_MaxSessions = 2
  awake_MaxRequests = 3
  awake_MaxWork = 1
  awake_Tasks = {1, 2}
  awake_page_Polls = {1}
  awake_page_Calls = {1, 2}
  awake_page_MaxEnds = 1
  away_MaxLeft = 2
  away_MaxEnables = 3
  away_MaxRestarts = 1
  away_Tasks = {1, 2}
  away_page_Polls = {1, 2}
  away_page_MaxActs = 3
  form_Typed = {"SHARE_PASSWORD"}
  form_Saved = {"ARCHIVE_SERVER", "SHARE_NAME", "SHARE_USER", "SHARE_PASSWORD"}
  form_Systems = {"cifs", "rsync"}
  form_Methods = {"ble"}
  form_Images = {"CAM_SIZE"}
  form_MaxSize = 1
  form_MaxActs = 2
  setup_MaxApplies = 1
  setup_MaxReboots = 2
  setup_MaxBlips = 1
  setup_MaxPolls = 2

INVARIANTS
  WebTypeOK
  OneUpload
  RowsOfUpload
  DriveTags
  OneRun
  SoundsShown
  RandomMode
  SettledPage
  OwnList
  PreviewOwn
  ChannelsOpen
  OutageVisible
  FlagIsSession
  FormApplied
  CompleteIsDone

PROPERTIES
  JobsShown
  PreviewsEnd
  Reconnects
  StatusSettles
  ServiceKept
  SessionsEnd
  ClientsSettle
  WizardFollows

CHECK_DEADLOCK FALSE
