\* Up to three calls in batches of two over seven messages.
SPECIFICATION Spec
CONSTANTS
  MaxCalls = 3
  MaxBatch = 2
  MaxMessages = 7
INVARIANTS TypeOK SentIsPaired ResultsAreSent PairedIsLeftAlone
CHECK_DEADLOCK FALSE
