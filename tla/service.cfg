\* Two clients, three calls of them, while the leader changes once.
SPECIFICATION Spec
CONSTANTS
  n1 = n1
  n2 = n2
  c1 = c1
  c2 = c2
  Node = {n1, n2}
  Client = {c1, c2}
  Putter = {c1, c2}
  Getter = {c1, c2}
  First = n1
  Nil = Nil
  MaxTerm = 2
  MaxTries = 2
  MaxCalls = 3
INVARIANTS
  ServiceTypeOK
  ConfirmedIsChosen
  AppendedOnce
  NoWaiterForgotten
  StoresFollowChosen
  CurrentReadIsFresh
SYMMETRY Clients
\* Calls and terms are bounded.
CHECK_DEADLOCK FALSE
