SPECIFICATION Spec
CONSTANTS
  p1 = p1  p2 = p2
  s1 = s1  s2 = s2  s3 = s3  s4 = s4
  i1 = i1  c1 = c1  c2 = c2
  None = None
  Peer = {p1, p2}
  Socket = {s1, s2, s3, s4}
  Code = {}
  Ip = {i1}
  Owner <- Owner4
  IpOf <- OneIp
  Faulty = {s1}
  Kinds = {}
  Lifetimes = {}
  MaxPeers = 2
  NotifyTTL = 1
  MaxInvites = 1
  Hour = 1
  MaxNotes = 0
  MaxClock = 0
  MaxStream = 1
  MaxRestarts = 1
INVARIANTS
  OrphanFailsAuth
CHECK_DEADLOCK FALSE
