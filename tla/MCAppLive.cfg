CONSTANTS
  Conns = {c1, c2}
  Cli = cli
  Http = http
  Threads = {cli, http}
  Handlers = {http}
  Asked = {"network", "reconnect"}
  Credentials = {good}
  ValidCredential = good
  None = None
  CliCalls = 5
  HttpCalls = 1
  CtrlC = FALSE
  Menu <- AppMenu
  MaxCalls <- AppCalls
  MaxRelays = 0
  Tokenless = FALSE
  HostFaults = {}
\* A stop with main or a handler stuck violates the properties; any other is
\* legal.
CHECK_DEADLOCK FALSE
SPECIFICATION AppFairSpec
PROPERTIES
  CallsReturn
  ClosedIsForgotten
  RequestsAnswered
  QuitEnds
