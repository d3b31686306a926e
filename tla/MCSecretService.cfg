SPECIFICATION ServiceSpec
CONSTANTS
  p1 = p1
  p2 = p2
  session = session
  hardware = hardware
  old = old
  new = new
  None = None
  Client <- MCClient
  Key <- MCKey
  Value <- MCValue
  MaxItems = 3
INVARIANTS
  OneItemPerKey
PROPERTY
  ImplementsSecretStore
