SPECIFICATION VenueFairSpec
CONSTANTS
  Servers = {s1, s2}
  Parts = {"pairings", "forgets", "tracks", "zones", "reports", "queue", "runs", "link", "equalizer", "demo"}
  s1 = s1
  a1 = a1
  z1 = z1
  z2 = z2
  Agents = {a1}
  NoServer = NoServer
  Sibling <- MCSibling
  LifecycleFaults = {"lost", "restart"}
  MaxCodes = 1
  MaxForgets = 1
  MaxBusy = 2
  MaxLifecycleFaults = 1
  Tracks = {t1, t2}
  SyncRuns = {r1, r2}
  r1 = r1
  SyncFaults = {"download", "scan", "folder", "reply", "crash", "delete"}
  MaxCopies = 3
  MaxRequests = 2
  MaxSyncFaults = 0
  LocalZones = {z1, z2}
  Reports = {r1, r2}
  ZoneFaults = {"lost", "local"}
  MaxRows = 6
  MaxZoneEdits = 2
  MaxZoneFaults = 1
  Songs = {m1, m2}
  m1 = m1
  Playlists = {p1, p2}
  p1 = p1
  p2 = p2
  NoPlaylist = NoPlaylist
  Slots <- MCSlots
  QueueRuns = {r1, r2}
  QueueFaults = {"schedules", "local"}
  DayTime = 1
  MaxEntries = 4
  MaxQueueEdits = 1
  MaxQueueFaults = 1
  Sockets = {w1, w2, w3}
  NoSocket = NoSocket
  MaxPairings = 2
  MaxDrops = 2
  EqZones = {e1, e2}
  Devices = {d1}
  NoDevice = NoDevice
  Curves = {k1}
  EqRuns = {r1, r2}
  EqFaults = {"rename", "crash"}
  MaxEqEdits = 0
  MaxEqFaults = 1
  Calls = {c1, c2}
  CallKinds = {"fetch", "logout"}
  AccessTtl = 1
  RefreshTtl = 2
  MaxTick = 3
  MaxLost = 1
  Zones = {za, zb}
  za = za
  pa = pa
  pb = pb
  Clock <- MCClock
  Places = {pa, pb}
  Nowhere = Nowhere
  CityZone <- MCCityZone
  Sun <- MCSun
  Pcs = {g1, g2}
  Configs <- MCConfigs
  Askers = {Tick, a1}
  Tick = Tick
  NowStep = 24
  MaxNow = 24
  MAX_ENTRIES = 2
  MaxVenueEdits = 2
  MaxAsks = 2
  MaxPrayerFaults = 1
  DemoZones = {z1}
  DemoPlaces = {da}
  da = da
  Off = Off
  Called <- MCCalled
  PauseHours = 1
  DayHours = 3
  Recalcs = {r1, r2}
  DemoFaultKinds = {"command", "reload"}
  MaxDemoNow = 3
  MaxDemoActs = 0
  Queries <- PortalQueries
  Edits <- PortalEdits
  Events <- INVALIDATIONS
  EditSlots = {x1, x2}
  MaxEdits = 2
  MaxCacheFaults = 1
  New = New
  NoOne = NoOne
  Null = Null
  Jobs = {r1, r2}
  Claims <- MCClaims
  Keys <- MCKeys
  Seed <- MCSeed
  MaxJobs = 2
  MaxStops = 1
  o1 = o1
  o2 = o2
  o3 = o3
  l1 = l1
  l2 = l2
  l3 = l3
  u1 = u1
  u2 = u2
  n1 = n1
  n2 = n2
  n3 = n3
  t1 = t1
  t3 = t3
  f1 = f1
  f2 = f2
  d3 = d3
  d4 = d4
  h2 = h2
  h3 = h3
  h4 = h4
CHECK_DEADLOCK FALSE
PROPERTY SilentIsOffline
PROPERTY BeatingIsOnline
PROPERTY FetchedIsShown
PROPERTY ZonesConverge
PROPERTY DeletedStaysDeleted
PROPERTY QueueFollows
PROPERTY HubReturns
PROPERTY EqualizerSettles
PROPERTY PlaysAgain
