------------------------------ MODULE KubeAdapter ------------------------------
(***************************************************************************)
(* The server's adapters for Kubernetes: createDeployment makes a          *)
(* Deployment and the Service that goes with it, deleteDeployment removes  *)
(* both. Each is two requests to the API server. Nothing undoes the first  *)
(* request when the second one fails. The package variables they go        *)
(* through are set by Init.                                                *)
(*                                                                         *)
(* The repository does not call them yet: a call is made by any goroutine  *)
(* of the server, for any name.                                            *)
(***************************************************************************)
EXTENDS ServerRequests

CONSTANTS
  Name,    \* names of Deployments
  Call     \* calls of the adapters

ASSUME AdapterAssumption ==
  /\ Call \subseteq [op : {"create", "delete"}, name : Name]
  /\ NoJob \notin Call

VARIABLES
  adapters,      \* how many of the three adapter variables Init has set
  deployments,   \* names of the Deployments there are
  services       \* names of the Services there are

adapterVars == <<adapters, deployments, services>>

AdapterPlaces == {"create-deployment", "create-service", "delete-deployment", "delete-service"}

ServiceName(n) == <<n, "svc">>

AdapterTypeOK ==
  /\ adapters \in 0..3
  /\ deployments \in SUBSET Name
  /\ services \in SUBSET {ServiceName(n) : n \in Name}

AdapterInit ==
  /\ adapters = 0
  /\ deployments = {}
  /\ services = {}

Calls(n) == {r \in Request : job[r] \in Call /\ job[r].name = n}

\* Init: the adapters of pods, of Deployments and of Services, in this order. The
\* model does not tell a step of Init from the same step before the next call
\* begins, as nothing else reads the adapters.
SetAdapter ==
  /\ \E r \in Request : Active(r) /\ job[r] \in Call
  /\ adapters < 3
  /\ adapters' = adapters + 1
  /\ UNCHANGED <<requestVars, deployments, services>>

DeploymentAdapterSet == adapters >= 2
ServiceAdapterSet == adapters = 3

ReceiveCall(r) ==
  /\ \E c \in Call : Begin(r, c, IF c.op = "create" THEN "create-deployment" ELSE "delete-deployment")
  /\ UNCHANGED <<answer, adapterVars>>

CreateDeployment(r) ==
  /\ at[r] = "create-deployment"
  /\ DeploymentAdapterSet
  /\ LET n == job[r].name IN
       \/ /\ n \notin deployments
          /\ deployments' = deployments \cup {n}
          /\ GoTo(r, "create-service") \/ Fault(r, "error")
       \/ /\ n \in deployments
          /\ Finish(r, "error")
          /\ UNCHANGED deployments
  /\ UNCHANGED <<adapters, services>>

CreateService(r) ==
  /\ at[r] = "create-service"
  /\ ServiceAdapterSet
  /\ LET s == ServiceName(job[r].name) IN
       \/ /\ s \notin services
          /\ services' = services \cup {s}
          /\ Finish(r, "success") \/ Fault(r, "error")
       \/ /\ s \in services
          /\ Finish(r, "error")
          /\ UNCHANGED services
  /\ UNCHANGED <<adapters, deployments>>

DeleteDeployment(r) ==
  /\ at[r] = "delete-deployment"
  /\ DeploymentAdapterSet
  /\ LET n == job[r].name IN
       \/ /\ n \in deployments
          /\ deployments' = deployments \ {n}
          /\ GoTo(r, "delete-service") \/ Fault(r, "error")
       \/ /\ n \notin deployments
          /\ Finish(r, "error")
          /\ UNCHANGED deployments
  /\ UNCHANGED <<adapters, services>>

PartnerBug(n) == <<n, "">>

\* deleteService is called with name + "-svc".
Partner(n) == ServiceName(n)

DeleteService(r) ==
  /\ at[r] = "delete-service"
  /\ ServiceAdapterSet
  /\ LET s == Partner(job[r].name) IN
       \/ /\ s \in services
          /\ services' = services \ {s}
          /\ Finish(r, "success") \/ Fault(r, "error")
       \/ /\ s \notin services
          /\ Finish(r, "error")
          /\ UNCHANGED services
  /\ UNCHANGED <<adapters, deployments>>

\* The method of an adapter that is nil is called.
AdapterMissing(r) ==
  /\ \/ at[r] \in {"create-deployment", "delete-deployment"} /\ ~DeploymentAdapterSet
     \/ at[r] \in {"create-service", "delete-service"} /\ ~ServiceAdapterSet
  /\ Finish(r, "aborted")
  /\ UNCHANGED adapterVars

KubeFailsBug(r) ==
  /\ at[r] \in AdapterPlaces
  /\ Fault(r, IF at[r] = "create-service" THEN "success" ELSE "error")
  /\ UNCHANGED adapterVars

\* A request to the API server is not carried out.
KubeFails(r) ==
  /\ at[r] \in AdapterPlaces
  /\ Fault(r, "error")
  /\ UNCHANGED adapterVars

AdapterStep(r) ==
  \/ ReceiveCall(r) \/ CreateDeployment(r) \/ CreateService(r)
  \/ DeleteDeployment(r) \/ DeleteService(r) \/ AdapterMissing(r) \/ KubeFails(r)

AdaptersLost ==
  /\ adapters' = 0
  /\ UNCHANGED <<deployments, services>>
=============================================================================
