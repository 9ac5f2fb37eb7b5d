\* One key, one worker and three retries: events use up the retries.
SPECIFICATION Spec
CONSTANTS
  k1 = k1
  k2 = k2
  k3 = k3
  w1 = w1
  w2 = w2
  NoKey = NoKey
  Key <- MCOneKey
  Worker <- MCOneWorker
  MaxRetries = 3
INVARIANT DroppedAfterMaxRetries
