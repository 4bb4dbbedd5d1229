SPECIFICATION SplitterFairSpec
CONSTANTS
  Fd = {f1, f2, f3}
  NoFd = NoFd
  MaxUnread = 1
  AcceptKeepsListener = TRUE
  ReapUnseen = TRUE
  Mode = "listener"
  MaxClients = 1
  Backlog = 1
  ReconnectDelay = 1
  ConnTimeout = 0
  DrainMax = 1
  OddEvents = FALSE
  MaxSignals = 2
INVARIANTS SplitterTypeOK CleanEnd
PROPERTIES DrivesRelay SignalEnds
