\* Two server tasks, three connections for one place, one broadcaster, start/stop/start.
INIT BoundedInit
NEXT BoundedNext
CONSTANTS
  Servers = {s1, s2}
  Clients = {c1, c2, c3}
  Broadcasters = {b1}
  MaxClients = 1
  MaxPending = 1
  MaxCommands = 3
  Main = Main
  None = None
SYMMETRY Symmetry
INVARIANTS
  TypeOK
  ClientLimit
  RegisteredClientIsServed
CHECK_DEADLOCK FALSE
