SPECIFICATION MCSpec
CONSTANTS
  q1 = q1
  q2 = q2
  p1 = p1
  nobody = nobody
  r1 = r1
  r2 = r2
  Requests = {r1, r2}
  Clients <- MCClients
  Servers <- MCServers
  QueueCap = 1
  RingCap = 1
  MaxLinks = 2
  PipeCap = 1
  Questions = {q1, q2}
  Problems = {p1}
  Nobody = nobody
  AskGap = 1
  FixGap = 1
  EntryCap = 2
  HistoryCap = 1
  AttCap = 1
  MaxNow = 2
  Disks <- MCDisks
  Updates <- MCUpdates
  AdvisorUpdates <- MCAdvisor
  UpdaterUpdates <- MCUpdater
  NotedApps = {"tool", "toolx64"}
  Notes <- MCNotes
  Rewrites <- MCRewrites
  KinOf <- MCKin
  CompactLen <- MCLen
  ChannelCap = 2
  DirCap = 1
  NoteCap = 2
  IgnoreCap = 1
  NoteChars = 2000
  NoClient = NoClient
  MaxCommands = 2
  MaxStarts = 1
INVARIANTS LinkSound SettingsSound
PROPERTIES AskSound
CHECK_DEADLOCK FALSE
