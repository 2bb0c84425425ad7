CONSTANTS
  c1 = c1
  t1 = t1
  u1 = u1
  u2 = u2
  m1 = m1
  m2 = m2
  k1 = k1
  k2 = k2
  Channels = {c1}
  Threads = {t1}
  Users = {u1, u2}
  Msgs = {m1, m2}
  Clicks = {}
  Wants = {m1}
  GroupPerUser = TRUE
  ThreadPerUser = FALSE
  Switches = {}
  OneAtATime = TRUE
  Mortal = TRUE
  None = None
  Author <- OneAuthor
SPECIFICATION Spec
INVARIANTS
  ThreadKeepsItsChannel
CHECK_DEADLOCK FALSE
