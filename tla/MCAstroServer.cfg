\* Three requests, each a deploy request, a save request or a call of an adapter.
SPECIFICATION Spec
CONSTANTS
  r1 = r1
  r2 = r2
  r3 = r3
  MaxAtOnce = 2
  NoJob = NoJob
  Nobody = Nobody
  NoRequest = NoRequest
  Request <- MCRequest
  Body <- MCBody
  Id <- MCId
  Dashed <- MCDashed
  Org <- MCOrg
  Project <- MCProject
  Save <- MCSave
  Name <- MCName
  Call <- MCCall
INVARIANTS
  TypeOK
  AnsweredAlone
  StarterFromNeighbours
  BucketBeforeObject
  RefusedOnlyByRace
  SomeSaveStored
  NewestSaveStored
  HalvesExplained
  AnswersTrue
PROPERTIES
  KeepsPromise
SYMMETRY Symmetry
\* A server may have nothing to do.
CHECK_DEADLOCK FALSE
