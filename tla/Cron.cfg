CONSTANTS
  Job = {j}
  Hand = {h1, h2}
SPECIFICATION Spec
INVARIANT TypeOK DisabledNeverDue OneShotRunsOnce
PROPERTY RecurringJobsComeRound
