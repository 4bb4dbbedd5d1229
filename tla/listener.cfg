SPECIFICATION Spec
CONSTANTS
  Fd = {f1, f2, f3, f4, f5}
  NoFd = NoFd
  MaxUnread = 2
  AcceptKeepsListener = FALSE
  ReapUnseen = TRUE
  Mode = "listener"
  MaxClients = 2
  Backlog = 1
  ReconnectDelay = 2
  ConnTimeout = 1
  DrainMax = 1
  OddEvents = TRUE
SYMMETRY Symmetry
INVARIANTS NoSocketLeak RolesExclusive ThrottleCovers
PROPERTIES SourceKept RetryThrottled
