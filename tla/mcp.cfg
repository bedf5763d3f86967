CONSTANTS
  m1 = m1  m2 = m2  h1 = h1  b1 = b1  b2 = b2  c1 = c1  c2 = c2
  k1 = k1  k2 = k2  k3 = k3  k4 = k4
  Servers = {m1}
  Admins = {h1}
  Bridges = {b1, b2}
  Calls = {c1, c2}
  Of <- OfTwo
  Required <- OneRequired
  Clients = {k1, k2, k3, k4}
  NoClient = NoClient
  Budget = 5
  Crews <- TwoCrews
  Faults = {"network", "db", "cancel"}
SPECIFICATION Spec
  
PROPERTIES AllReturn
CHECK_DEADLOCK FALSE
