\* The same requests as in MCAstroServer.cfg, and what a comment says of edges.
SPECIFICATION Spec
CONSTANTS
  r1 = r1
  r2 = r2
  r3 = r3
  MaxAtOnce = 2
  NoJob = NoJob
  Nobody = Nobody
  NoRequest = NoRequest
  Request <- MCRequest
  Body <- MCBody
  Id <- MCId
  Dashed <- MCDashed
  Org <- MCOrg
  Project <- MCProject
  Save <- MCSave
  Name <- MCName
  Call <- MCCall
INVARIANT EdgeIgnored
SYMMETRY Symmetry
\* A server may have nothing to do.
CHECK_DEADLOCK FALSE
