CONSTANTS
  Conns = {c1, c2}
  First = c1
  Cli = cli
  Threads = {cli}
  Credentials = {good}
  ValidCredential = good
  None = None
  Calls = 3
  Menu <- ViewMenu
  MaxCalls <- ViewCalls
  MaxRelays = 0
  Tokenless = FALSE
  HostFaults = {}
  Expiry <- ViewExpiry
  Soon = 1
  MaxNow = 3
  Viewers = {v1, v2, v3}
  Records = {r1, r2, r3}
  Limit = 2
  MaxUses = 4
  NoRecord = NoRecord
  Handlers = {h1, h2}
  Devices = {d1, d2}
  Self = self
  Coordinates = {1, 4, 5}
  NotANumber = nan
  TooLarge = huge
  MaxLat = 4
  MaxLon = 4
  Step = 2
  Hidden = FALSE
  Unknown = unknown
  MaxRequests = 3
SPECIFICATION ShownSpec
SYMMETRY Symmetric
\* The list and the network stop at their bounds.
CHECK_DEADLOCK FALSE
INVARIANTS
  LoneSummaryCoherent
  SummaryOfOneSession
  RecentDistinct
  KeptUntilDisplaced
  NetworkTypeOK
  ShownWasReported
  QuietAnswerCoherent
  AnswersOfTheirTime
PROPERTIES
  LeaseOnlyRunsOut
