SPECIFICATION FairSpec
CONSTANTS
  Users = {1, 2}
  Senders = {1}
  UserIDs <- ShippedOrRight
  Ordered = TRUE
  MaxFaults = 1
  MaxDups = 0
  MaxSends = 1
  CharSigned = FALSE
INVARIANT AnswerIsOwn
PROPERTIES ScriptArrives MessageShown
CONSTRAINT FailuresIfRight
CHECK_DEADLOCK FALSE
