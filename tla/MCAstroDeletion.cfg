\* Deletion and re-creation under a name, with a late watch and a restart in between.
SPECIFICATION FairSpec
CONSTANTS
  a1 = a1
  a2 = a2
  s1 = s1
  s2 = s2
  w1 = w1
  w2 = w2
  NoKey = NoKey
  Nothing = Nothing
  Key <- OneAstro
  Star <- TwoStars
  StarLists <- ShortList
  Worker <- OneWorker
  Budget <- DeletionBudget
  MaxRetries = 1
  External = FALSE
  PromptWatch = FALSE
PROPERTY DeletionCompletes
CHECK_DEADLOCK FALSE
