SPECIFICATION SplitterSpec
CONSTANTS
  Fd = {f1, f2, f3}
  NoFd = NoFd
  MaxUnread = 1
  AcceptKeepsListener = TRUE
  ReapUnseen = TRUE
  Mode = "caller"
  MaxClients = 1
  Backlog = 1
  ReconnectDelay = 1
  ConnTimeout = 0
  DrainMax = 1
  OddEvents = FALSE
  MaxSignals = 2
SYMMETRY Symmetry
PROPERTIES SecondSignalCutsBlock
