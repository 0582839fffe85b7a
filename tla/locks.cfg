\* The main loop of a node that applies nothing, and handlers.
SPECIFICATION FairFileSpec
CONSTANTS
  Task <- Four
  Mixes <- Serving
  Long <- Grown
  Nil = Nil
INVARIANTS
  FileTypeOK
  WholeUnlessOverlap
  RestartFindsNewest
PROPERTIES
  RenameFailsByOverlap
  EveryTaskEnds
\* The tasks come to their ends.
CHECK_DEADLOCK FALSE
