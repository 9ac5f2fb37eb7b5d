------------------------------ MODULE AstroTypes ------------------------------
(***************************************************************************)
(* The Astro custom resource, as the API server stores it and as the       *)
(* controller's cache and workers copy it. Conditions and Result always    *)
(* change together with Phase and nothing reads them back, so Phase stands *)
(* for the three. There is one namespace.                                  *)
(***************************************************************************)
EXTENDS Naturals, Sequences

CONSTANTS
  Key,         \* names of Astros
  Star,        \* names of stars, the microservices of a workflow
  StarLists,   \* the Spec.Stars that users write
  Nothing      \* no object under this name

\* Unset is the empty phase of an Astro that no sync has written to.
\* No code sets DeployFailed.
Phase == {"Unset", "Initialized", "Waited", "DeployFailed", "EngineFailed",
          "Ready", "Success", "Wrong"}

\* Later[p]: the phases that the assignments to Phase in syncCreate and
\* syncUpdate lead to from p, p included.
Later == [p \in Phase |->
  CASE p = "Unset" -> Phase \ {"DeployFailed"}
    [] p = "Initialized" -> Phase \ {"DeployFailed", "Unset"}
    [] p = "Waited" -> {"Waited", "EngineFailed", "Ready", "Success", "Wrong"}
    [] p = "Ready" -> {"Ready", "Success", "Wrong"}
    [] OTHER -> {p}]

\* astermuleRef is whether AstermuleRef.Name is set: the name has no choice.
Status == [phase : Phase, deploymentRef : Seq(Star), serviceRef : Seq(Star),
           astermuleRef : BOOLEAN, nodeNumber : Nat, readyNodeNumber : Nat]

EmptyStatus == [phase |-> "Unset", deploymentRef |-> << >>, serviceRef |-> << >>,
                astermuleRef |-> FALSE, nodeNumber |-> 0, readyNodeNumber |-> 0]

\* uid is the version at which the object was created, rv its ResourceVersion,
\* deleting whether DeletionTimestamp is set, finalizer whether Finalizers has
\* AstroFinalizer.
Astro == [uid : Nat, rv : Nat, deleting : BOOLEAN, finalizer : BOOLEAN,
          stars : Seq(Star), status : Status]

\* The controller reference of a dependent.
Owner == [name : Key, uid : Nat]

\* What users are told of an Astro.
Life == [phase : Phase, finalizer : BOOLEAN, deleting : BOOLEAN, launched : BOOLEAN]

ASSUME TypesAssumption ==
  /\ StarLists \subseteq Seq(Star)
  /\ Nothing \notin Astro
  /\ Nothing \notin Owner
  /\ Nothing \notin Life
=============================================================================
