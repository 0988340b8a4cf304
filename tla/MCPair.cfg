CONSTANTS
  Conns = {c1, c2}
  Cli = cli
  Portal = portal
  Threads = {cli, portal}
  Credentials = {good}
  ValidCredential = good
  None = None
  CliCalls = 3
  PortalCalls = 1
  CliOps = {"login", "reconnect", "request", "shutdown"}
  PortalOps = {"reconnect", "request", "send_to_device"}
  Menu <- PairMenu
  MaxCalls <- PairCalls
  MaxRelays = 1
  Tokenless = FALSE
  HostFaults = {"force_close"}
SPECIFICATION Spec
SYMMETRY ConnSymmetry
INVARIANTS
  IOExclusion
  MismatchOnlyAfterLoss
  OwnConfirmation
  ServedInOwnSession
  RegistryBacked
