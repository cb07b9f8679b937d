CONSTANTS
  w1 = w1
  w2 = w2
  w3 = w3
  j1 = j1
  j2 = j2
  j3 = j3
  j4 = j4
  Main = Main
  None = None
  Data <- MCData
  Jobs <- FourJobs
  Capacity = 2
  Workers <- ThreeWorkers
  Threads <- ThreeAndMain
SPECIFICATION PoolSpec
CHECK_DEADLOCK FALSE
INVARIANTS
  PoolTypeOK
  NoLostWakeup
  JobsConserved
  DoneMeansHandled
  NoUseAfterFree
PROPERTIES
  KeepsContract
  ImplementsBoundedQueue
  Terminates
