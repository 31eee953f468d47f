SPECIFICATION FairSpec
CONSTANTS
  k1 = k1
  c1 = c1
  c2 = c2
  d1 = d1
  d2 = d2
  Convs = {k1}
  Chats = {c1, c2}
  Deletes = {d1, d2}
  ChatConv <- OneConv
  DelConv <- DeleteOne
  Faults = {"error", "lost"}
  MaxMemory = 4
  RecentLimit = 2
  MaxExpiries = 1
INVARIANTS
  CountAccounted
  MemoryBacked
  DoneMeansStored
  PromptRepeatsNothing
PROPERTY ChatsEnd
CHECK_DEADLOCK FALSE
