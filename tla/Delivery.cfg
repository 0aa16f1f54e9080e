SPECIFICATION Spec
CONSTANTS
  r1 = r1
  v1 = v1
  First = v0
  Older = {u}
  NoVersion = NoVersion
  NoRollout = NoRollout
  Rollouts = {r1}
  CandidateOf <- OneCandidate
  CanarySteps <- ThreeSteps
  AbPercent = 50
  MaxFaults = 2
CHECK_DEADLOCK FALSE
INVARIANTS
  LiveExplained
  ServingIsLive
  NoStrayTraffic
PROPERTIES
  ImplementsService
