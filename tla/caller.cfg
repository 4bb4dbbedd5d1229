SPECIFICATION Spec
CONSTANTS
  Fd = {f1, f2, f3, f4, f5}
  NoFd = NoFd
  MaxUnread = 2
  AcceptKeepsListener = TRUE
  ReapUnseen = TRUE
  Mode = "caller"
  MaxClients = 2
  Backlog = 1
  ReconnectDelay = 1
  ConnTimeout = 1
  DrainMax = 1
  OddEvents = TRUE
SYMMETRY Symmetry
INVARIANTS TypeOK NoSocketLeak RolesExclusive Polled ClientCap RunningWhilePolling
PROPERTIES ConnectedClientKept SourceKept StaleEventHarmless ReportedDropped RetryThrottled
