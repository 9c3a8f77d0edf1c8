SPECIFICATION Spec
CONSTANTS
  p1 = p1
  p2 = p2
  Peers <- TwoPeers
  MaxDescriptions <- OneAndTwo
  MaxCandidates <- OneAndTwo
INVARIANTS
  OnlyVerified
  NoCandidateBeforeDescription
  CandidatesKept
CHECK_DEADLOCK FALSE
