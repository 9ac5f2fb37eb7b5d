----------------------------- MODULE AstroCluster -----------------------------
(***************************************************************************)
(* What surrounds the controller: the API server with the Astros and their *)
(* dependents, the watch of the Astro informer, the events of the          *)
(* Deployment and Service informers, the garbage collector, the pods and   *)
(* the user. The operators of the second part are the requests that the    *)
(* controller makes; AstroController adds what it does with the replies.   *)
(***************************************************************************)
EXTENDS AstroTypes

CONSTANT Budget   \* how often each bounded action of the environment happens

\* "total" limits all of them together.
Spending == {"total", "creates", "edits", "deletes", "flaps", "losses", "faults", "crashes"}

ASSUME BudgetAssumption == Budget \in [Spending -> Nat]

VARIABLES
  server,    \* server[a]: the Astro named a, or Nothing
  rev,       \* rev[a]: the last ResourceVersion given to a
  watch,     \* watch[a]: versions of a the Astro informer has not seen yet
  deploys,   \* deploys[s]: the Deployment named s: its owner and its health
  services,  \* services[s]: the owner of the Service named s
  engines,   \* engines[a]: the pod a-astermule
  ports,     \* ports[a]: the owner of the NodePort Service a-astermule
  events,    \* owners with a Deployment or Service event not handled yet
  budget     \* what is left of Budget

clusterVars == <<server, rev, watch, deploys, services, engines, ports, events, budget>>
astroVars == <<server, rev, watch>>
dependentVars == <<deploys, services, engines, ports>>

Health == {"starting", "available", "unavailable"}
Deployment == [owner : Owner, health : Health]
EnginePhase == {"starting", "running", "failed"}
MaxRuns == 2

\* runs counts the launches of the workflow, up to MaxRuns.
Engine == [owner : Owner, phase : EnginePhase, nodes : Seq(Star), runs : 0..MaxRuns]

ASSUME DependentsAssumption == Nothing \notin Deployment /\ Nothing \notin Engine

ClusterTypeOK ==
  /\ server \in [Key -> Astro \cup {Nothing}]
  /\ rev \in [Key -> Nat]
  /\ watch \in [Key -> Seq(Astro \cup {Nothing})]
  /\ deploys \in [Star -> Deployment \cup {Nothing}]
  /\ services \in [Star -> Owner \cup {Nothing}]
  /\ engines \in [Key -> Engine \cup {Nothing}]
  /\ ports \in [Key -> Owner \cup {Nothing}]
  /\ events \in SUBSET Key
  /\ budget \in [Spending -> Nat]

ClusterInit ==
  /\ server = [a \in Key |-> Nothing]
  /\ rev = [a \in Key |-> 0]
  /\ watch = [a \in Key |-> << >>]
  /\ deploys = [s \in Star |-> Nothing]
  /\ services = [s \in Star |-> Nothing]
  /\ engines = [a \in Key |-> Nothing]
  /\ ports = [a \in Key |-> Nothing]
  /\ events = {}
  /\ budget = Budget

Spend(what) ==
  /\ budget[what] > 0
  /\ budget["total"] > 0
  /\ budget' = [budget EXCEPT ![what] = @ - 1, !["total"] = @ - 1]

-----------------------------------------------------------------------------
(* The API server *)

Exists(a) == server[a] # Nothing

OwnerOf(a, astro) == [name |-> a, uid |-> astro.uid]

Alive(owner) == Exists(owner.name) /\ server[owner.name].uid = owner.uid

\* Every write gives the object a new version and tells the watchers.
Store(a, astro) ==
  LET v == [astro EXCEPT !.rv = rev[a] + 1] IN
    /\ rev' = [rev EXCEPT ![a] = @ + 1]
    /\ server' = [server EXCEPT ![a] = v]
    /\ watch' = [watch EXCEPT ![a] = Append(@, v)]

Remove(a) ==
  /\ server' = [server EXCEPT ![a] = Nothing]
  /\ watch' = [watch EXCEPT ![a] = Append(@, Nothing)]
  /\ UNCHANGED rev

\* An update is refused when the object it was computed from is not the stored
\* version: NotFound, or Conflict.
Fresh(a, astro) ==
  /\ Exists(a)
  /\ astro.uid = server[a].uid
  /\ astro.rv = server[a].rv

\* PUT of the main resource: the controller changes nothing but Finalizers, and
\* the status subresource makes the server ignore Status. An object that is
\* being deleted goes away with its last finalizer.
Update(a, astro) ==
  /\ Fresh(a, astro)
  /\ \/ /\ server[a].deleting
        /\ ~astro.finalizer
        /\ Remove(a)
     \/ /\ ~(server[a].deleting /\ ~astro.finalizer)
        /\ Store(a, [server[a] EXCEPT !.finalizer = astro.finalizer])

\* A conflict answered by writing the same status over the newest version. It is
\* no part of the specification: a property of a run must notice the mistake.
UpdateStatusBug(a, astro) ==
  /\ Exists(a)
  /\ Store(a, [server[a] EXCEPT !.status = astro.status])

\* PUT of the status subresource: everything but Status is ignored.
UpdateStatus(a, astro) ==
  /\ Fresh(a, astro)
  /\ Store(a, [server[a] EXCEPT !.status = astro.status])

-----------------------------------------------------------------------------
(* The dependents *)

CreateDeployment(s, owner) ==
  /\ deploys' = [deploys EXCEPT ![s] = [owner |-> owner, health |-> "starting"]]
  /\ events' = events \cup {owner.name}
  /\ UNCHANGED <<services, engines, ports>>

CreateService(s, owner) ==
  /\ services' = [services EXCEPT ![s] = owner]
  /\ events' = events \cup {owner.name}
  /\ UNCHANGED <<deploys, engines, ports>>

CreateEngine(a, owner, nodes) ==
  /\ engines' = [engines EXCEPT ![a] =
       [owner |-> owner, phase |-> "starting", nodes |-> nodes, runs |-> 0]]
  /\ UNCHANGED <<deploys, services, ports, events>>

\* NodePort 30000 is taken for the whole cluster by whoever creates it first.
PortTaken == \E a \in Key : ports[a] # Nothing

CreatePort(a, owner) ==
  /\ ports' = [ports EXCEPT ![a] = owner]
  /\ events' = events \cup {owner.name}
  /\ UNCHANGED <<deploys, services, engines>>

RunEngine(a) ==
  /\ engines' = [engines EXCEPT ![a].runs = IF @ < MaxRuns THEN @ + 1 ELSE @]
  /\ UNCHANGED <<deploys, services, ports, events>>

-----------------------------------------------------------------------------
(* The environment *)

UserCreates(a) ==
  /\ ~Exists(a)
  /\ Spend("creates")
  /\ \E stars \in StarLists :
       Store(a, [uid |-> rev[a] + 1, rv |-> 0, deleting |-> FALSE, finalizer |-> FALSE,
                 stars |-> stars, status |-> EmptyStatus])
  /\ UNCHANGED <<dependentVars, events>>

UserEdits(a) ==
  /\ Exists(a)
  /\ Spend("edits")
  /\ \E stars \in StarLists \ {server[a].stars} :
       Store(a, [server[a] EXCEPT !.stars = stars])
  /\ UNCHANGED <<dependentVars, events>>

\* A finalizer keeps the object, marked, until it is removed.
UserDeletes(a) ==
  /\ Exists(a)
  /\ ~server[a].deleting
  /\ Spend("deletes")
  /\ \/ server[a].finalizer /\ Store(a, [server[a] EXCEPT !.deleting = TRUE])
     \/ ~server[a].finalizer /\ Remove(a)
  /\ UNCHANGED <<dependentVars, events>>

DeploymentAvailable(s) ==
  /\ deploys[s] # Nothing
  /\ deploys[s].health # "available"
  /\ deploys' = [deploys EXCEPT ![s].health = "available"]
  /\ events' = events \cup {deploys[s].owner.name}
  /\ UNCHANGED <<astroVars, services, engines, ports, budget>>

DeploymentUnavailable(s) ==
  /\ deploys[s] # Nothing
  /\ deploys[s].health = "available"
  /\ Spend("flaps")
  /\ deploys' = [deploys EXCEPT ![s].health = "unavailable"]
  /\ events' = events \cup {deploys[s].owner.name}
  /\ UNCHANGED <<astroVars, services, engines, ports>>

\* Any other change of a Deployment's status: nothing the controller reads.
DeploymentReports(s) ==
  /\ deploys[s] # Nothing
  /\ events' = events \cup {deploys[s].owner.name}
  /\ UNCHANGED <<astroVars, dependentVars, budget>>

\* The pod gets to its first phase, or runs and is lost later.
EngineSettles(a) ==
  /\ engines[a] # Nothing
  /\ engines[a].phase = "starting"
  /\ \E p \in {"running", "failed"} : engines' = [engines EXCEPT ![a].phase = p]
  /\ UNCHANGED <<astroVars, deploys, services, ports, events, budget>>

EngineLost(a) ==
  /\ engines[a] # Nothing
  /\ engines[a].phase = "running"
  /\ Spend("losses")
  /\ engines' = [engines EXCEPT ![a].phase = "failed"]
  /\ UNCHANGED <<astroVars, deploys, services, ports, events>>

\* The garbage collector removes what belongs to an Astro that is gone. Pods
\* are not watched by the controller.
CollectDeployment(s) ==
  /\ deploys[s] # Nothing
  /\ ~Alive(deploys[s].owner)
  /\ deploys' = [deploys EXCEPT ![s] = Nothing]
  /\ events' = events \cup {deploys[s].owner.name}
  /\ UNCHANGED <<astroVars, services, engines, ports, budget>>

CollectService(s) ==
  /\ services[s] # Nothing
  /\ ~Alive(services[s])
  /\ services' = [services EXCEPT ![s] = Nothing]
  /\ events' = events \cup {services[s].name}
  /\ UNCHANGED <<astroVars, deploys, engines, ports, budget>>

CollectEngine(a) ==
  /\ engines[a] # Nothing
  /\ ~Alive(engines[a].owner)
  /\ engines' = [engines EXCEPT ![a] = Nothing]
  /\ UNCHANGED <<astroVars, deploys, services, ports, events, budget>>

CollectPort(a) ==
  /\ ports[a] # Nothing
  /\ ~Alive(ports[a])
  /\ ports' = [ports EXCEPT ![a] = Nothing]
  /\ events' = events \cup {a}
  /\ UNCHANGED <<astroVars, deploys, services, engines, budget>>

Environment ==
  \/ \E a \in Key : \/ UserCreates(a) \/ UserEdits(a) \/ UserDeletes(a)
                    \/ EngineSettles(a) \/ EngineLost(a)
                    \/ CollectEngine(a) \/ CollectPort(a)
  \/ \E s \in Star : \/ DeploymentAvailable(s) \/ DeploymentUnavailable(s)
                     \/ DeploymentReports(s)
                     \/ CollectDeployment(s) \/ CollectService(s)

\* The kubelet settles every pod, Deployments get available in the end, and
\* the garbage collector gets to every orphan.
EnvironmentFairness ==
  /\ \A a \in Key : /\ WF_clusterVars(EngineSettles(a))
                    /\ WF_clusterVars(CollectEngine(a))
                    /\ WF_clusterVars(CollectPort(a))
  /\ \A s \in Star : /\ WF_clusterVars(DeploymentAvailable(s))
                     /\ WF_clusterVars(CollectDeployment(s))
                     /\ WF_clusterVars(CollectService(s))
=============================================================================
