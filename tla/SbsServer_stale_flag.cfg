\* Two server tasks, one connection, nobody broadcasting.
SPECIFICATION Spec
CONSTANTS
  Servers = {s1, s2}
  Clients = {c1}
  Broadcasters = {}
  MaxClients = 1
  MaxPending = 1
  Main = Main
  None = None
PROPERTY FlagLoweredByLastServer
CHECK_DEADLOCK FALSE
