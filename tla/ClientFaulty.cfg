SPECIFICATION Spec
CONSTANTS
  Users = {1, 2}
  Operators = {1}
  Addressees = {0, 1, 2}
  Ordered = TRUE
  MaxFaults = 1
  MaxDups = 1
  ScanClobbers = FALSE
  MaxTyped = 2
  MaxRestarts = 1
  CharSigned = FALSE
INVARIANTS ShownSound ConfirmFromPeer ReceiptFromStation
CHECK_DEADLOCK FALSE
CONSTRAINT OneFailure
