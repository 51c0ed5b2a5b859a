SPECIFICATION FairOwnerSpec
CONSTANTS
  None = None
  a1 = a1  b1 = b1  o1 = o1  o2 = o2
  r1 = r1  r2 = r2  r3 = r3
  c1 = c1  c2 = c2  c3 = c3  c4 = c4
  w1 = w1  g1 = g1
  t1 = t1  t2 = t2  v1 = v1  v2 = v2
  Branches = {b1}
  Revisions = {r1}
  Candidates = {c1}
  Workers = {w1}
  Graphs = {g1}
  Actors = {a1}
  BootstrapOwner = a1
  Operations = {o1}
  Tasks = {t1}
  Observers = {v1}
  MaxAttempts = 1
  MaxAncestors = 10
  FenceMax = 2
  GenerationMax = 5
  MaxFailures = 0
  MaxExternal = 0
  ParentOf <- MCParentOf
  CandidateParent <- MCCandidateParent
  Intakes <- OneProposal

CHECK_DEADLOCK FALSE
PROPERTIES PublishedHeadIsDiscoverable
