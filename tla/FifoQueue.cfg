SPECIFICATION FairSpec
CONSTANTS
  Sizes <- SmallSizes
  LenSets <- OneOrTwoLengths
  Garbage <- AnyBytes
  MaxPush = 5
  MaxResets = 1
INVARIANTS TypeOK QueueInOrder PeekIsNext
PROPERTY AllPopped
CHECK_DEADLOCK FALSE
