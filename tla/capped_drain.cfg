SPECIFICATION Spec
CONSTANTS
  Fd = {f1, f2, f3, f4}
  NoFd = NoFd
  MaxUnread = 2
  AcceptKeepsListener = TRUE
  ReapUnseen = TRUE
  Mode = "caller"
  MaxClients = 1
  Backlog = 1
  ReconnectDelay = 2
  ConnTimeout = 1
  DrainMax = 1
  OddEvents = TRUE
SYMMETRY Symmetry
PROPERTIES CappedDrainResumes
