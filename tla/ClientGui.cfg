SPECIFICATION FairSpec
CONSTANTS
  Users = {1, 2}
  Operators = {1, 2}
  Addressees = {0, 1, 2}
  Ordered = TRUE
  MaxFaults = 1
  MaxDups = 0
  MaxClicks = 2
  MaxDepth = 2
  CharSigned = FALSE
INVARIANTS SlotRestored WaitIsPrivate EatenOnlyWhenNested OnAnswerOwed ReceiptOwed ReceiptSound
PROPERTIES ThreadReturns MessageShown
CHECK_DEADLOCK FALSE
CONSTRAINT OneActsOrNothingFails
