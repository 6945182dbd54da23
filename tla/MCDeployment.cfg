SPECIFICATION FairSpec
CONSTANTS
  Message = {m1, m2, m3}
  Poison = {m3}
  Service = {s1, s2}
  NoService = NoService
  MaxLosses = 2
INVARIANTS DeploymentTypeOK DeletedMeansHandled RepeatsNeedLosses OneServerListens
PROPERTY EveryMessageIsHandled
CHECK_DEADLOCK FALSE
