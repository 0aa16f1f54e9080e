SPECIFICATION Spec
CONSTANTS
  r1 = r1
  v1 = v1
  First = v0
  Older = {u}
  NoVersion = NoVersion
  NoRollout = NoRollout
  Rollouts = {r1}
  CandidateOf <- OneCandidate
  CanarySteps <- TwoSteps
  AbPercent = 50
  MaxFaults = 0
CHECK_DEADLOCK FALSE
PROPERTIES
  NothingElseToUndo
