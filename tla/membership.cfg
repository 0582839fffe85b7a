\* Two changes next to heartbeats.
SPECIFICATION Spec
CONSTANTS
  Self = 1
  Peers <- Four
  Asked = {4}
  c1 = c1
  c2 = c2
  Caller = {c1, c2}
  Nil = Nil
  MaxTerm = 3
  MaxLog = 1
  MaxRound = 2
  MaxCalls = 2
INVARIANTS
  MembershipTypeOK
  VectorsAligned
  FlagIsTakenBack
  PeersAsAsked
  LoopSurvives
  MatchBacked
  LeaseBacked
PROPERTIES
  CommitNeedsMajority
SYMMETRY Callers
\* Bounds are spent, or the main loop is dead.
CHECK_DEADLOCK FALSE
