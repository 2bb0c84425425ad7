SPECIFICATION FairSpec
CONSTANTS
  c1 = c1  c2 = c2  c3 = c3
  Calls = {c1, c2, c3}
  NoCall = NoCall
  Unreadable = Unreadable
INVARIANTS
  SavedIsDurable
  MemoryIsAhead
PROPERTIES
  FileIsSafe
  EveryCallReturns
