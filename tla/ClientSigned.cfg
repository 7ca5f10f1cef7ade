SPECIFICATION FairSpec
CONSTANTS
  Users = {1, 2}
  Operators = {1}
  Addressees = {1, 2}
  Ordered = TRUE
  MaxFaults = 0
  MaxDups = 0
  ScanClobbers = FALSE
  MaxTyped = 1
  MaxRestarts = 0
  CharSigned = TRUE
PROPERTY ReceiptArrives
CHECK_DEADLOCK FALSE
