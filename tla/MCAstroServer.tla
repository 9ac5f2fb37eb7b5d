----------------------------- MODULE MCAstroServer -----------------------------
(***************************************************************************)
(* TLC instance of AstroServer: three requests of any kind.                *)
(***************************************************************************)
EXTENDS AstroServer, TLC

CONSTANTS r1, r2, r3

MCRequest == {r1, r2, r3}
Symmetry == Permutations(MCRequest)

MCId == {"my_flow", "my-flow"}
MCDashed == [i \in MCId |-> "my-flow"]

Document(elements) == [flaw |-> "none", id |-> "my_flow", xml |-> elements]

\* An edge that can be connected, a workflow without an id whose last edge cannot be,
\* text that ends too early, and a request that cannot be read.
MCBody ==
  {Document(<<"definitions", "process", "id", "docker", "loose-edge">>),
   Document(<<"definitions", "process", "plain", "half-edge", "edge">>),
   [Document(<<"definitions">>) EXCEPT !.flaw = "xml"],
   [Document(<< >>) EXCEPT !.flaw = "request"]}

MCOrg == {"o"}
MCProject == {"p"}
MCSave == [flaw : {"none", "name"}, org : MCOrg, project : MCProject]

MCName == {"n"}
MCCall == [op : {"create", "delete"}, name : MCName]
=============================================================================
