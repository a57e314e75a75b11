\* The programs end, and the servers wait for clients that never come.
CHECK_DEADLOCK FALSE
CONSTANTS
  NoProgram = NoProgram
  Processes = {p1, p2}
  Addresses = 2
  Members = {4, 5, 6}
  Listener = 3
  FdSize = 2
  Nobody = Nobody
  Users = {u1, u2, u3}
  EchoFds = {4, 5, 6}
  MaxWrites = 3
  CLIENT_SIZE = 3
  FD_INIT_SIZE = 6
  MAX_LINE = 2
SPECIFICATION Spec
SYMMETRY Alike
INVARIANTS
  OneSocketKept
  PortServed
  Registered
  StallsOnlyOnStale
  EchoInOrder
  Unforgotten
