SPECIFICATION FairSpec
CONSTANTS
  Users = {1, 2}
  Operators = {1, 2}
  Addressees = {1, 2, 3}
  Ordered = TRUE
  MaxFaults = 0
  MaxDups = 0
  ScanClobbers = FALSE
  MaxTyped = 2
  MaxRestarts = 0
  CharSigned = FALSE
PROPERTIES ReceiptArrives ConfirmArrivesOrNotComing MoveAnswered
CHECK_DEADLOCK FALSE
