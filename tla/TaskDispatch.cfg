CONSTANTS
  Lead = lead
  NoAgent = NoAgent
  Task = {t1}
  Agent = {m, lead}
  Run = {r1, r2}
  MaxTaskDispatches = 1
SPECIFICATION Spec
INVARIANT OneCurrentClaim
PROPERTY AbandonedTasksAreRecovered
