SPECIFICATION Spec
CONSTANTS
  None = None
  a1 = a1  a2 = a2  b1 = b1  b2 = b2
  o1 = o1  o2 = o2  o3 = o3
  r1 = r1  r2 = r2
  c1 = c1  c2 = c2  c3 = c3
  w1 = w1  w2 = w2
  g1 = g1  g2 = g2
  Branches = {b1}
  Revisions = {r1}
  Candidates = {c1, c2}
  Workers = {w1}
  Graphs = {g1}
  Actors = {a1}
  BootstrapOwner = a1
  Operations = {o1, o2}
  MaxAttempts = 1
  MaxAncestors = 10
  FenceMax = 2
  GenerationMax = 5
  ParentOf <- MCParentOf
  CandidateParent <- MCCandidateParent
  Intakes <- OneBranch
ACTION_CONSTRAINT IndexOnly
CHECK_DEADLOCK FALSE
PROPERTIES RemovedMeansWasPublished
