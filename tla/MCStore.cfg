SPECIFICATION StoreSpec
CONSTANTS
  Conversation <- MCConversation
  Chat = 1
  Message <- MCMessage
  Time <- MCTime
  Limits <- MCLimits
  First = First
  End = End
INVARIANTS
  StoreTypeOK
  HistoryInOrder
  HistoryComplete
  SkippedOnlyAfterMove
PROPERTY
  ReadingEnds
