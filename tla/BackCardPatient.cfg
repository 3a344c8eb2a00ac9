\* A card given to two visitors by a desk that waits for it to be clean.
CONSTANTS
  c1 = c1
  Cards = {c1}
  SceneCount = 2
  MaxVisits = 2
  MaxRequests = 2
  CallMayFail = TRUE
  WorkerMayStop = TRUE
  PatientDesk = TRUE
SPECIFICATION Spec
INVARIANTS
  DeskInv
  ScoreReplyIsWhole
\* the bounds on visits and requests stop the model
CHECK_DEADLOCK FALSE
