SPECIFICATION ShellSpec
CONSTANTS
  a = a
  b = b
  c = c
  Conversations <- MCConversations
  NoConversation = NoConversation
  App <- MCApp
  Builds <- MCBuilds
INVARIANTS
  ShellTypeOK
  ConnectedHasDaemon
  PageIsSelected
