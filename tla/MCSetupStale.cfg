SPECIFICATION SessionSpec
CONSTANTS
  alice = alice
  bob = bob
  Identity <- MCIdentity
  NoIdentity = NoIdentity
  LossDuringOperation = TRUE
  MaxPending = 3
INVARIANT
  ConnectedIsSelected
