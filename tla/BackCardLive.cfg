\* A card given to two visitors by a desk that goes by the tag mapping only;
\* cards are returned twice; every call may fail and the worker may end.
CONSTANTS
  c1 = c1
  Cards = {c1}
  SceneCount = 1
  MaxVisits = 2
  MaxRequests = 2
  CallMayFail = TRUE
  WorkerMayStop = TRUE
  PatientDesk = FALSE
SPECIFICATION FairSpec
INVARIANTS
  NothingLeft
  BackCardInv
PROPERTIES
  ReturnIsCarriedOut
  OnlyReturnedRowsDeleted
\* the bounds on visits and requests stop the model
CHECK_DEADLOCK FALSE
