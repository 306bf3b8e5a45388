\* One connection that comes back, two server tasks, one broadcaster.
SPECIFICATION BoundedSpec
CONSTANTS
  Servers = {s1, s2}
  Clients = {c1}
  Broadcasters = {b1}
  MaxClients = 1
  MaxPending = 1
  MaxCommands = 3
  Main = Main
  None = None
PROPERTIES
  ClosedClientLeaves
  BroadcastReturns
CHECK_DEADLOCK FALSE
