CONSTANTS
  w1 = w1
  w2 = w2
  w3 = w3
  none = none
  Writers <- MCWriters
  NoMsg <- MCNoMsg
  Bufsz = 4
  MaxBatch = 2
  MaxPosts = 2
SPECIFICATION FairSpec
CHECK_DEADLOCK FALSE
INVARIANTS TypeOK BytesMatchMessages PopsWhatWasSignalled
PROPERTIES ImplementsChannel BlockedWriterProceeds EveryMessageDelivered
