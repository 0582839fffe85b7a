\* apply_committed_entries against append_entries.
SPECIFICATION FairSpec
CONSTANTS
  Task <- Following
  Mixes <- FollowingMix
PROPERTIES
  ApplyEnds
\* The tasks come to their ends, or wait for each other.
CHECK_DEADLOCK FALSE
