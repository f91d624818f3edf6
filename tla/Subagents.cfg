CONSTANTS
    Tasks = 3
    Steers = 1
    Parent = {p1}
    MaxConcurrent = 2
    MaxChildrenPerAgent = 2
    MaxIterations = 1
    Cap = 2
SPECIFICATION Spec
INVARIANTS TypeOK ReportedOnce
PROPERTIES EveryTaskReports TasksAreForgotten
CHECK_DEADLOCK FALSE
