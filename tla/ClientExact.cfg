SPECIFICATION Spec
CONSTANTS
  Users = {1, 2}
  Operators = {1, 2}
  Addressees = {0, 1, 2}
  Ordered = FALSE
  MaxFaults = 0
  MaxDups = 0
  ScanClobbers = TRUE
  MaxTyped = 2
  MaxRestarts = 0
  CharSigned = FALSE
INVARIANTS TypeOK ConfirmSound ReceiptSound ReceiptOwed ConfirmOwed
PROPERTY ServiceSpec
CHECK_DEADLOCK FALSE
