\* One leader, one call per peer at a time, two different writes.
SPECIFICATION Spec
CONSTANTS
  n1 = n1
  n2 = n2
  n3 = n3
  h1 = h1
  s1 = s1
  s2 = s2
  va = va
  vb = vb
  Nil = Nil
  Node = {n1, n2, n3}
  PeerSeq <- Peers3
  Cmd = {va, vb}
  Handler = {}
  Sender = {s1}
  MaxEntries = 1
  Threshold = 9
  Campaigner = {n1}
  MaxTerm = 1
  Limit <- TwoPuts
INVARIANTS
  TypeOK
  MachinesAgree
  MatchIsReplicated
  CommittedOnMajority
SYMMETRY Writes
\* A node that waits for itself, or a spent bound, stops the cluster.
CHECK_DEADLOCK FALSE
