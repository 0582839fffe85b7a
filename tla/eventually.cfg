\* One campaigner, one write: a leader, then the write on every node.
SPECIFICATION FairSpec
CONSTANTS
  n1 = n1
  n2 = n2
  n3 = n3
  h1 = h1
  s1 = s1
  s2 = s2
  va = va
  vb = vb
  Nil = Nil
  Node = {n1, n2, n3}
  PeerSeq <- Peers3
  Cmd = {va}
  Handler = {}
  Sender = {s1}
  MaxEntries = 2
  Threshold = 9
  Campaigner = {n1}
  MaxTerm = 1
  Limit <- OnePut
PROPERTIES
  CampaignerLeads
  WritesAreApplied
\* A node that waits for itself, or a spent bound, stops the cluster.
CHECK_DEADLOCK FALSE
