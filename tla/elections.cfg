\* Two nodes campaign, a leader is transferred, one call breaks.
SPECIFICATION Spec
CONSTANTS
  n1 = n1
  n2 = n2
  n3 = n3
  h1 = h1
  s1 = s1
  s2 = s2
  va = va
  vb = vb
  Nil = Nil
  Node = {n1, n2, n3}
  PeerSeq <- Peers3
  Cmd = {va}
  Handler = {h1}
  Sender = {}
  MaxEntries = 2
  Threshold = 9
  Campaigner = {n1, n2}
  MaxTerm = 2
  Limit <- FailedTransfer
INVARIANTS
  OneVotePerTerm
  ElectedOnce
  SharedTermIsStale
  DiskNotAhead
  FrozenMeansWaiting
  TransferWaits
PROPERTIES
  VoteStands
  RefinesBallot
\* A node that waits for itself, or a spent bound, stops the cluster.
CHECK_DEADLOCK FALSE
