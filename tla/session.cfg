SPECIFICATION FairSessionSpec
CONSTANTS
  c1 = c1
  c2 = c2
  s1 = s1
  s2 = s2
  Clients = {c1, c2}
  Sessions = {s1, s2}
  Homes <- Both
  Settings = {1, 2}
  Modes = {"chat", "resume"}
  MaxLoops = 1
  MaxMessages = 2
  Disturbances = {"greeting", "abort", "clear", "drop", "fail"}
 
PROPERTY SessionsRest
CHECK_DEADLOCK FALSE
