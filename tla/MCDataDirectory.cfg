SPECIFICATION Spec
CONSTANTS
  t1 = t1  t2 = t2
  pa = pa  pb = pb  pc = pc
  ca = ca  cb = cb
  NotACode = NotACode
  Process = {t1, t2}
  Peers = {pa, pb, pc}
  Codes = {ca, cb}
  PeerOf <- PeerOfCode
  MaxCommands = 3
INVARIANTS
  IdentityIsWhole
  NothingIsReplacedUnforced
  TrustIsEarned
  KnownPeersStay
SYMMETRY Terminals
CHECK_DEADLOCK FALSE
