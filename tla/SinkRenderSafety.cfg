SPECIFICATION Spec
CONSTANTS
  p1 = p1  p2 = p2  s1 = s1  s2 = s2
  Pings = {p1, p2}
  Sessions = {s1, s2}
  Session <- PerUser
  Open = {s1}
  Owned = {p1, p2}
  Here = {p1}
  Tidy = TRUE
  Progress = TRUE
  None = None
INVARIANTS
  AckIsShown
  IdleForgets
  MarksAreTrue
  NotedDiedKeepsItsPing
  AnsweredIsCollapsed
PROPERTIES
  TidyIsNarrow
