SPECIFICATION MCSpec
CONSTANTS
  i1 = i1  i2 = i2  u1 = u1  u2 = u2  n1 = n1  n2 = n2
  p1 = p1  p2 = p2  r1 = r1  c1 = c1  c2 = c2  t1 = t1  t2 = t2  d1 = d1
  repoA = repoA  repoB = repoB  short = short  own1 = own1  own2 = own2
  m1 = m1  m2 = m2  m3 = m3
  Calls = {i1, i2}
  Users = {u1, u2}
  Sessions = {n1, n2}
  Nobody = Nobody
  People = {p1, p2}
  Bots = {b1}
  Roles = {r1}
  Rooms = {c1, c2}
  Self = Self
  Star = Star
  None = None
  Inbox <- MCInbox
  Settings <- MCSettings
  Frees <- MCFrees
  SessionNames = {n1, n2}
  LongNames = {repoA, repoB}
  NameMax = 4
  Mirrored = {m1, m2}
  Nothing = Nothing
  TooMany = TooMany
  Texts <- MCTexts
  Toks <- MCToks
  Catalogs <- MCCatalogs
  Uploads <- MCUploads
  Quotes <- MCQuotes
  Tools = {t1, t2}
  Details = {d1}
  Thinking = Thinking
  NoDetail = NoDetail
  maxLines = 3
  gatewayMaxLen = 6
  MaxEvents = 4
  Answers <- MCAnswers
  SilentAnswers <- MCSilentAnswers
SYMMETRY Symmetric
CHECK_DEADLOCK FALSE
INVARIANTS
  AnsweredOnce
  OnlyTheAllowedAct
  AddedStays
  Admission
  SessionsAgree
  RepoIsTheOneNamed
  ThreadIsNamed
  FilesInOrder
  KeepsUp
  FrameIsTrue
  SummaryCounts
  AnswerIsWhole
