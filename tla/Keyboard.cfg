SPECIFICATION FairSpec
CONSTANT MaxLines = 3
INVARIANT InTypedOrder
PROPERTIES DatagramHandled BufferUsedUp
CHECK_DEADLOCK FALSE
