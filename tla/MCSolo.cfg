CONSTANTS
  Conns = {c1, c2, c3}
  Cli = cli
  Threads = {cli}
  Credentials = {good, bad}
  ValidCredential = good
  None = None
  Calls = 4
  CliOps = {"login", "connect", "register", "reconnect", "request",
            "bad_request", "send_to_device", "logout", "mark_disconnected",
            "close_socket", "shutdown"}
  Menu <- SoloMenu
  MaxCalls <- SoloCalls
  MaxRelays = 1
  Tokenless = TRUE
  HostFaults = {"force_close", "stop"}
SPECIFICATION Spec
INVARIANTS
  TypeOK
  SessionCoherent
  OnlineAgreement
PROPERTIES
  ImplementsLifecycle
