\* One campaigner, logs compacted after each write, two writes, two restarts of any node.
SPECIFICATION SpecCrash
CONSTANTS
  n1 = n1
  n2 = n2
  n3 = n3
  h1 = h1
  s1 = s1
  s2 = s2
  va = va
  vb = vb
  Nil = Nil
  Node = {n1, n2}
  PeerSeq <- Peers2
  Cmd = {va, vb}
  Handler = {}
  Sender = {s1}
  MaxEntries = 2
  Threshold = 1
  Campaigner = {n1}
  MaxTerm = 3
  Limit <- CrashesAndPuts
INVARIANTS
  LogMatching
  MachinesAgree
  DiskNotAhead
  SnapshotSentIsComplete
SYMMETRY Writes
\* A node that waits for itself, or a spent bound, stops the cluster.
CHECK_DEADLOCK FALSE
