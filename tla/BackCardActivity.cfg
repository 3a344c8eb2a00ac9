\* No call fails by itself.
CONSTANTS
  c1 = c1
  Cards = {c1}
  SceneCount = 2
  MaxVisits = 1
  MaxRequests = 1
  CallMayFail = FALSE
  WorkerMayStop = FALSE
  PatientDesk = TRUE
SPECIFICATION FairSpec
PROPERTIES
  OnlyReportedActivityDeleted
\* the bounds on visits and requests stop the model
CHECK_DEADLOCK FALSE
