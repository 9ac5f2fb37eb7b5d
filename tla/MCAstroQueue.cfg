\* Three keys, the two workers that main.go starts and one retry: keys outnumber
\* workers, and a count reaches the limit through an event or through a retry.
SPECIFICATION FairSpec
CONSTANTS
  k1 = k1
  k2 = k2
  k3 = k3
  w1 = w1
  w2 = w2
  NoKey = NoKey
  Key <- MCKey
  Worker <- MCWorker
  MaxRetries = 1
INVARIANTS
  TypeOK
  OneWorkerPerKey
  NoLostEvent
  RetriesBounded
  QueueShape
PROPERTIES
  EventuallySynced
  WorkSetSpec
