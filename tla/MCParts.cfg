\* On the phone: two PCs, and one restart or lost connection; a turn to the
\* background and two toasts; three pairings; two overlapping notes; two images of
\* the user and one of the PC; a batch of two and a large file; two mounts of the
\* update screen and three releases.  On the PC: one phone to pair and two to
\* rename; two threads that record, three clips with those of a loaded history; two
\* phones that post two notifications, which are dismissed twice; three files, one
\* of them empty, and two failures.  Two sockets and two codes; three packets of
\* the demonstration, and two releases for three systems.
CONSTANTS
  None = None
  Empty = Empty
  pc1 = pc1
  pc2 = pc2
  c1 = c1
  c2 = c2
  p1 = p1
  p2 = p2
  d1 = d1
  d2 = d2
  d3 = d3
  n1 = n1
  n2 = n2
  n3 = n3
  k1 = k1
  k2 = k2
  r1 = r1
  r2 = r2
  s1 = s1
  s2 = s2
  t1 = t1
  t2 = t2
  u1 = u1
  u2 = u2
  u3 = u3
  f1 = f1
  f2 = f2
  PC = {pc1, pc2}
  MaxScans = 2
  MaxTroubles = 1
  MaxPairings = 3
  MaxEvents = 3
  UserImage = {u1, u2}
  PCImage = {p1}
  LargeImage = {u2}
  MaxCopies = 1
  MaxReceived = 1
  MaxReads = 1
  MaxImageDrops = 1
  Shares <- MCShares
  Text = {t1}
  LargeShare = {f2}
  MaxAttempts = 2
  MaxShareDrops = 1
  MaxEnds = 1
  Invocation = {c1, c2}
  Numbered = {1, 2}
  MaxChanges = 1
  Hook = {c1, c2}
  Releases <- MCReleases
  Sized <- MCReleases
  MaxChecks = 1
  MaxKills = 1
  MaxFailures = 1
  Socket = {s1, s2}
  Copy = {t1}
  MaxPairs = 2
  MaxResets = 1
  MaxRestarts = 1
  MaxLosses = 1
  MaxClips = 2
  MaxShown = 1
  MaxToggles = 1
  MaxTurns = 1
  MaxToasts = 2
  Guest = {p1}
  TTL = 1
  MaxClock = 1
  MaxCodes = 2
  MaxHandshakes = 2
  MaxUnpairs = 1
  Device = {d1, d2}
  Nickname = {n1, n2, n3}
  Own <- MCOwn
  MaxStarts = 2
  MaxTyped = 1
  MaxUnderWay = 1
  MaxReconnects = 1
  Combo = {k1, k2}
  Limit = {1, 2}
  MaxCalls = 2
  MaxOutside = 1
  Poster = {p1, p2}
  Key = {k1, k2}
  MaxRows = 2
  MaxPosts = 2
  MaxDismisses = 2
  MaxBreaks = 1
  Thread = {r1, r2}
  Word = {t1, t2}
  MaxKept = 2
  Slider = {1, 3}
  Loaded <- MCLoaded
  MaxCopied = 3
  MaxUses = 1
  Matching = {t1}
  MaxResults = 2
  MaxRecorded = 2
  MaxEdits = 2
  MaxOpens = 1
  Blank = Blank
  Opening = t1
  MaxLanded = 2
  MaxFlown = 3
  MaxEntered = 2
  MaxTicked = 1
  Job = {"windows", "macos-intel", "android"}
  MaxReleases = 2
  File = {u1, u2, u3}
  Chunks <- MCChunks
  Name <- MCName
  MaxFiles = 1
  MaxCuts = 1
  MaxFails = 2
  HARD_CAP = 2
  MAX_VISIBLE = 1
  Corner = {c1, c2}
  MaxArrived = 3
  MaxHovers = 1
  MaxPrefs = 1
  MaxStale = 2
SPECIFICATION AllSpec
SYMMETRY Interchangeable
INVARIANTS
  PhoneAppSound
  ServiceFollowsPairing
  ImagesSentOnce
  ShareHonest
  UpdatesHonest
  MirrorHonest
  AllOpen
  DevicesTabHonest
  SettingsHonest
  ClipsHonest
  PanelHonest
  TransfersHold
  ToastsHonest
  WebsiteHonest
PROPERTY FinishedKept
CHECK_DEADLOCK FALSE
