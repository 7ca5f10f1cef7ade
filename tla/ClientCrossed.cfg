SPECIFICATION FairSpec
CONSTANTS
  Users = {1, 2}
  Operators = {1, 2}
  Addressees = {1, 2}
  Ordered = TRUE
  MaxFaults = 0
  MaxDups = 0
  ScanClobbers = FALSE
  MaxTyped = 2
  MaxRestarts = 0
  CharSigned = FALSE
PROPERTY ConfirmArrives
CHECK_DEADLOCK FALSE
