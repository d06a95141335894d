SPECIFICATION MCSpec
CONSTANTS
  alice = alice
  bob = bob
  nouser = nouser
  Users = {alice, bob}
  NoUser = nouser
  Locations = {"hklm_run", "startup_folder", "service"}
  Places <- MCPlaces
  DiskCap = 1
  MaxScans = 3
  MaxJobs = 1
  own = own
  common = common
  spooler = spooler
  domain = domain
  w1 = w1
  outlook = outlook
  popup = popup
  NoOwner = nouser
  Files = {own, common}
  People = {alice}
  OwnerOf <- MCOwnerOf
  EventCap = 1
  ChangesCap = 1
  ReadCap = 2
  MaxWrites = 3
  MaxSwitches = 1
  MaxSends = 1
  ChannelOrder <- MCChannels
  PollCap = 2
  BufferCap = 2
  LineCap = 3
  MaxRecords = 4
  MaxMishaps = 2
  Services = {spooler}
  Profiles = {domain}
  MaxChanges = 2
  MaxReads = 4
  Windows = {w1}
  Boxes = {outlook}
  Events = {popup}
  RepeatWindow = 2
  TrayQueueCap = 1
  SeenCap = 1
  PendingCap = 1
  FeedCap = 1
  MaxFeedTime = 2
INVARIANTS ScansSound WatcherSound LogsSound PollSound
PROPERTIES NoticedSound
CHECK_DEADLOCK FALSE
