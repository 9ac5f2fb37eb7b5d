\* The watch keeps up and nothing fails; a Deployment can still get unavailable again.
SPECIFICATION FairSpec
CONSTANTS
  a1 = a1
  a2 = a2
  s1 = s1
  s2 = s2
  w1 = w1
  w2 = w2
  NoKey = NoKey
  Nothing = Nothing
  Key <- OneAstro
  Star <- TwoStars
  StarLists <- OneList
  Worker <- OneWorker
  Budget <- PromptBudget
  MaxRetries = 2
  External = TRUE
  PromptWatch = TRUE
INVARIANT LaunchedOnce
PROPERTY Settles
CHECK_DEADLOCK FALSE
