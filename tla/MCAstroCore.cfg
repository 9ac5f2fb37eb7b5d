\* One Astro name, two stars, one worker, everything that can go wrong once.
SPECIFICATION Spec
CONSTANTS
  a1 = a1
  a2 = a2
  s1 = s1
  s2 = s2
  w1 = w1
  w2 = w2
  NoKey = NoKey
  Nothing = Nothing
  Key <- OneAstro
  Star <- TwoStars
  StarLists <- Lists
  Worker <- OneWorker
  Budget <- CoreBudget
  MaxRetries = 1
  External = TRUE
  PromptWatch = FALSE
INVARIANTS
  DeletionRemembered
  StaleSyncFollowed
  ReadinessNoticed
  TypeOK
  VersionsAgree
  MicroservicesBeforeEngine
  EngineReferenced
  ReferencesOwned
  NoPhantomResult
  FinalizerBeforeStatus
PROPERTIES
  PhaseOnlyAdvances
  InitializedMeansDeployed
  KeepsPromise
CHECK_DEADLOCK FALSE
