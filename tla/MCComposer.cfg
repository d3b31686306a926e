SPECIFICATION ComposerSpec
CONSTANTS
  Text <- MCText
  Blank <- MCBlank
PROPERTY
  SendSubmitsDraft
CHECK_DEADLOCK FALSE
