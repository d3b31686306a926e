SPECIFICATION ValidationSpec
CONSTANTS
  install1 = install1
  install2 = install2
  remove1 = remove1
  request1 = request1
  Installer <- MCInstaller
  Remover <- MCRemover
  Request <- MCRequest
INVARIANTS
  ValidationTypeOK
  InstalledIsWhole
  HelperIsReaped
PROPERTY
  WaitingEnds
CHECK_DEADLOCK FALSE
