\* A burst outnumbers the cap on the drain, a slow client its send buffer.
CONSTANTS
  Client = {c1, c2}
  K = 3
  None = None
  Listener = Listener
  Source = Source
  MaxClients = 2
  DrainMax = 2
  MaxUnread = 2
  SndBuf = 2
SPECIFICATION FairSpec
INVARIANTS FanoutTypeOK DrainDropsDead
PROPERTIES Broadcasts AcceptNotStarved DeadClientDropped OnlyTheLaggardDropped
