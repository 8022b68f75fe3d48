SPECIFICATION FairSpec
CONSTANTS
  Attempts = 1
  MaxExits = 1
  CallsFail = TRUE
INVARIANTS
  ExitBookedOnce
  BookedOrdersFilled
  NoOrphanOrders
  OpenIsProtected
PROPERTIES
  ChildFillBooked
  ApprovalAnswered
CHECK_DEADLOCK FALSE
