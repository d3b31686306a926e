SPECIFICATION DaemonSpec
CONSTANTS
  a = a
  b = b
  c = c
  RefreshCall <- MCRefreshCall
  OtherCall <- MCOtherCall
  DefaultSettings <- MCDefaultSettings
  Fields <- MCFields
  Values <- MCValues
  Changes <- MCChanges
  MaxRuns = 2
INVARIANTS
  DaemonTypeOK
  QueueWillBeDrained
  EventInOnePlace
  SignalAgreesWithReply
  UpdatesAreKept
PROPERTY
  EventsAreDelivered
CHECK_DEADLOCK FALSE
