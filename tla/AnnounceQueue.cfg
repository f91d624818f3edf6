CONSTANTS
  Entries = {e1, e2, e3, e4}
  None = None
  Subagent = TRUE
SPECIFICATION FairSpec
INVARIANTS
  AnnouncedOnce
  OneProcessorPerQueue
PROPERTY EveryEntryAnnounced
CHECK_DEADLOCK FALSE
