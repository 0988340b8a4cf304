CONSTANTS
  Conns = {c1, c2}
  Cli = cli
  Http = http
  Threads = {cli, http}
  Handlers = {http}
  Asked = {"devices", "network", "reconnect"}
  Credentials = {good}
  ValidCredential = good
  None = None
  CliCalls = 5
  HttpCalls = 2
  CtrlC = TRUE
  Menu <- AppMenu
  MaxCalls <- AppCalls
  MaxRelays = 0
  Tokenless = FALSE
  HostFaults = {"force_close"}
SPECIFICATION AppSpec
SYMMETRY ConnSymmetry
INVARIANTS
  AppTypeOK
  ShutdownIsFinal
PROPERTIES
  ListedIsAnswered
