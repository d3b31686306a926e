SPECIFICATION DatabaseSpec
CONSTANTS
  AccountIds = {a1, a2}
  ConversationIds = {c1, c2}
  MessageIds = {m1, m2}
  AttachmentIds = {x1}
  Keys = {k1}
  MaxInteger = 3
  Corrupt = Corrupt
  None = None
  Opener = {o1, o2}
  Builds = {1, 2}
  AccountValues <- MCAccounts
  ConversationValues <- MCConversations
  MessageValues <- MCMessages
  Counts = {0, 4}
  Objects = {one, two}
  Syncs <- MCSyncs
  Cursors = {one}
  MaxSaves = 3
  a1 = a1
  a2 = a2
  i1 = i1
  i2 = i2
  d1 = d1
  d2 = d2
  c1 = c1
  c2 = c2
  p1 = p1
  p2 = p2
  m1 = m1
  m2 = m2
  x1 = x1
  r1 = r1
  u1 = u1
  ext = ext
  home = home
  one = one
  two = two
INVARIANTS
  DatabaseTypeOK
  LoadedIsAccepted
  MigratedOnce
PROPERTY
  ImplementsArchive
SYMMETRY MCSymmetry
