\* Two Astros, two workers and the agent they share, inside the cluster.
SPECIFICATION Spec
CONSTANTS
  a1 = a1
  a2 = a2
  s1 = s1
  s2 = s2
  w1 = w1
  w2 = w2
  NoKey = NoKey
  Nothing = Nothing
  Key <- TwoAstros
  Star <- TwoStars
  StarLists <- ShortLists
  Worker <- TwoWorkers
  Budget <- PairBudget
  MaxRetries = 1
  External = FALSE
  PromptWatch = FALSE
INVARIANTS
  NoPhantomResult
SYMMETRY PairSymmetry
CHECK_DEADLOCK FALSE
