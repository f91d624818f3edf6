CONSTANTS
  Lead = lead
  NoAgent = NoAgent
  Task = {t1, t2}
  Agent = {m, lead}
  MaxTaskDispatches = 1
SPECIFICATION Spec
INVARIANT TypeOK
PROPERTY ImplementsLifecycle OrphansAreFreed
