SPECIFICATION SessionSpec
CONSTANTS
  alice = alice
  bob = bob
  Identity <- MCIdentity
  NoIdentity = NoIdentity
  LossDuringOperation = FALSE
  MaxPending = 3
INVARIANTS
  SessionTypeOK
  OneOperationInFlight
  ConnectedIsSelected
  WaitingHasOperation
  SelectedIsOffered
PROPERTY
  AnswerEndsWaiting
