\* Three signals: one more than the handler looks at.
SPECIFICATION FairSpec
CONSTANTS
  w1 = w1
  w2 = w2
  Worker <- MCWorker
  MaxSignals = 3
INVARIANTS
  TypeOK
  SyncedBeforeWork
  ExitCodes
PROPERTIES
  GetsToWork
  SignalEnds
\* The process ends.
CHECK_DEADLOCK FALSE
