SPECIFICATION Spec
CONSTANTS
  p1 = p1  p2 = p2
  s1 = s1  s2 = s2  s3 = s3  s4 = s4
  i1 = i1  c1 = c1  c2 = c2
  None = None
  Peer = {p1, p2}
  Socket = {s1, s2, s3}
  Code = {c1}
  Ip = {i1}
  Owner <- Owner3
  IpOf <- OneIp
  Faulty = {s1}
  Kinds = {"lookup", "notify", "invite", "signal"}
  Lifetimes = {0, 1}
  MaxPeers = 1
  NotifyTTL = 1
  MaxInvites = 1
  Hour = 2
  MaxNotes = 1
  MaxClock = 1
  MaxStream = 1
  MaxRestarts = 1
INVARIANTS
  NoGhost
PROPERTIES
  Refinement
  InviteOutlivesConnections
CHECK_DEADLOCK FALSE
