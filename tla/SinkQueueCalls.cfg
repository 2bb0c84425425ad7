SPECIFICATION FairSpec
CONSTANTS
  j1 = j1  j2 = j2  j3 = j3
  Jobs = {j1, j2, j3}
  Budget = 2
  Faulty = {}
  NoJob = NoJob
INVARIANTS
  LeadIsUnique
  PromotionArrives
  LeaderIsServed
PROPERTIES
  ImplementsStepOrder
  QueueDrains
