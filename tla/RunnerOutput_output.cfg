SPECIFICATION FairSpec
CONSTANTS
  build = build
  deploy = deploy
  Jobs = {build, deploy}
  Script <- OneJob
  MaxQueue = 2
  MaxBatch = 2
  MaxDrops = 3
  MaxFaults = 2
INVARIANT TypeOK
INVARIANT FirstSightInOrder
INVARIANT NothingLeftBehind
INVARIANT DropsRemembered
INVARIANT OneRowPerJob
INVARIANT NoneInProgress
PROPERTY ResultArrives
CHECK_DEADLOCK FALSE
