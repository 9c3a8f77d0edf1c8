SPECIFICATION Spec
CONSTANTS
  p1 = p1  p2 = p2
  s1 = s1  s2 = s2  s3 = s3  s4 = s4
  i1 = i1  c1 = c1  c2 = c2
  None = None
  Peer = {p1, p2}
  Socket = {s1, s2, s3}
  Code = {}
  Ip = {i1}
  Owner <- Owner3
  IpOf <- OneIp
  Faulty = {}
  Kinds = {"notify"}
  Lifetimes = {}
  MaxPeers = 1
  NotifyTTL = 1
  MaxInvites = 1
  Hour = 1
  MaxNotes = 3
  MaxClock = 1
  MaxStream = 2
  MaxRestarts = 1
INVARIANTS
  OrphanFailsAuth
  OrderedNoDuplicates
  StoredBeforeOk
CHECK_DEADLOCK FALSE
