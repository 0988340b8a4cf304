CONSTANTS
  Conns = {c1, c2}
  Cli = cli
  Portal = portal
  Threads = {cli, portal}
  Credentials = {good}
  ValidCredential = good
  None = None
  CliCalls = 3
  PortalCalls = 1
  CliOps = {"login", "reconnect", "request"}
  PortalOps = {"reconnect"}
  Menu <- PairMenu
  MaxCalls <- PairCalls
  MaxRelays = 0
  Tokenless = FALSE
  HostFaults = {}
SPECIFICATION Spec
INVARIANTS
  OnlineAgreement
