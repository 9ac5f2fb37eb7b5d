\* One signal.
SPECIFICATION Spec
CONSTANTS
  w1 = w1
  w2 = w2
  Worker <- MCWorker
  MaxSignals = 1
INVARIANT GracefulShutdown
\* The process ends.
CHECK_DEADLOCK FALSE
