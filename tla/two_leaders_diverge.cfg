\* Two leaders of one term, one of them by a stale win, each commit their own write.
SPECIFICATION Spec
CONSTANTS
  n1 = n1
  n2 = n2
  n3 = n3
  h1 = h1
  s1 = s1
  s2 = s2
  va = va
  vb = vb
  Nil = Nil
  Node = {n1, n2}
  PeerSeq <- Peers2
  Cmd = {va, vb}
  Handler = {}
  Sender = {s1}
  MaxEntries = 2
  Threshold = 9
  Campaigner = {n1, n2}
  MaxTerm = 2
  Limit <- TwoPuts
INVARIANTS
  MachinesAgree
\* A node that waits for itself, or a spent bound, stops the cluster.
CHECK_DEADLOCK FALSE
