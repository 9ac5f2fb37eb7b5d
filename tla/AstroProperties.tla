---------------------------- MODULE AstroProperties ----------------------------
(***************************************************************************)
(* What the Astro controller promises, and what its documents say of it.   *)
(***************************************************************************)
EXTENDS AstroController

\* Type invariant.
TypeOK == ClusterTypeOK /\ ControllerTypeOK

PhaseIn(a, phases) == Exists(a) /\ server[a].status.phase \in phases

\* A copy of the current version differs from it only by what a sync assigned
\* and has not written: a later phase, an added finalizer, or a removed one when
\* the object is being deleted. No copy has a phase without having, or having
\* had, the finalizer.
CopyOK(a, c) ==
  /\ c.rv <= rev[a]
  /\ c.status.phase # "Unset" => c.finalizer \/ c.deleting
  /\ Exists(a) /\ c.rv = server[a].rv =>
       /\ c.uid = server[a].uid
       /\ c.stars = server[a].stars
       /\ c.deleting = server[a].deleting
       /\ c.status.phase \in Later[server[a].status.phase]
       /\ ~c.deleting /\ ~server[a].finalizer => c.status.phase = "Unset"

\* Optimistic locking protects an Astro although syncs mutate what they read: a
\* mutated copy is written back under the version that it came with, so every
\* copy, cached, on its way or in a sync, must be one that may be written.
VersionsAgree ==
  /\ \A a \in Key : Exists(a) => server[a].rv = rev[a]
  /\ \A a \in Key : cache[a] # Nothing => CopyOK(a, cache[a])
  /\ \A a \in Key : \A i \in 1..Len(watch[a]) :
       watch[a][i] # Nothing => CopyOK(a, watch[a][i])
  /\ \A w \in Worker : obj[w] # Nothing => holder[w] \in Key /\ CopyOK(holder[w], obj[w])

\* The stored phase of an Astro never goes back, although syncs run on stale
\* and on mutated objects, are repeated, and lose their replies.
PhaseOnlyAdvances ==
  [][\A a \in Key :
       Exists(a) /\ Exists(a)' /\ server'[a].uid = server[a].uid
         => server'[a].status.phase \in Later[server[a].status.phase]]_vars

\* syncCreate reports Initialized only when this very Astro, and no earlier one
\* of the name, owns a Deployment and a Service for each star of the stored
\* Spec, and it counts them all.
InitializedMeansDeployed ==
  [][\A a \in Key :
       PhaseIn(a, {"Unset"}) /\ PhaseIn(a, {"Initialized"})'
         => LET astro == server'[a]
                owner == OwnerOf(a, astro) IN
              /\ \A i \in 1..Len(astro.stars) :
                   /\ deploys[astro.stars[i]] # Nothing
                   /\ deploys[astro.stars[i]].owner = owner
                   /\ services[astro.stars[i]] = owner
              /\ astro.status.nodeNumber = Len(astro.stars)]_vars

\* The README: all microservices are in place before the engine starts. Each
\* node of an engine has a Service, and a Deployment that became available.
MicroservicesBeforeEngine ==
  \A a \in Key :
    engines[a] # Nothing /\ Alive(engines[a].owner) =>
      \A i \in 1..Len(engines[a].nodes) :
        LET s == engines[a].nodes[i] IN
          /\ services[s] = engines[a].owner
          /\ deploys[s] # Nothing
          /\ deploys[s].owner = engines[a].owner
          /\ deploys[s].health # "starting"

\* AstermuleRef is recorded only for an engine of this Astro that has all its
\* nodes and that the controller can reach: never for a pod left by an earlier
\* Astro of the same name.
EngineReferenced ==
  \A a \in Key :
    Exists(a) /\ server[a].status.astermuleRef =>
      /\ engines[a] # Nothing
      /\ engines[a].owner = OwnerOf(a, server[a])
      /\ engines[a].nodes = server[a].status.serviceRef
      /\ External => ports[a] = OwnerOf(a, server[a])

\* The references of an Astro name what this very Astro owns: two Astros whose
\* workflows have a star in common do not share its Deployment or its Service.
ReferencesOwned ==
  \A a \in Key :
    Exists(a) =>
      LET owner == OwnerOf(a, server[a])
          status == server[a].status IN
        /\ \A i \in 1..Len(status.deploymentRef) :
             /\ deploys[status.deploymentRef[i]] # Nothing
             /\ deploys[status.deploymentRef[i]].owner = owner
        /\ \A i \in 1..Len(status.serviceRef) : services[status.serviceRef[i]] = owner

\* Success and Wrong are results: the workflow of this Astro has run, and not the
\* one of another Astro that the shared node port or agent led to.
NoPhantomResult ==
  \A a \in Key :
    PhaseIn(a, {"Success", "Wrong"}) =>
      /\ engines[a] # Nothing
      /\ engines[a].owner = OwnerOf(a, server[a])
      /\ engines[a].runs > 0

\* No status is stored for an Astro that could disappear without syncDelete.
FinalizerBeforeStatus ==
  \A a \in Key : Exists(a) /\ server[a].status.phase # "Unset" => server[a].finalizer

\* A workflow is launched once. It takes a watch that keeps up: with a late one
\* a sync of an object that says Ready too early launches it too.
LaunchedOnce == \A a \in Key : engines[a] # Nothing => engines[a].runs <= 1

Settled == {"Success", "Wrong", "EngineFailed"}

\* An Astro that is left alone gets to a result.
Settles ==
  \A a \in Key : Exists(a) ~> ~Exists(a) \/ server[a].deleting \/ PhaseIn(a, Settled)

\* A deleted Astro gets rid of its finalizer, whatever restarts, conflicts and
\* stale objects come between.
DeletionCompletes == \A a \in Key : Exists(a) /\ server[a].deleting ~> ~Exists(a)

\* As long as no request fails, an Astro that is being deleted is not forgotten: there
\* is a version of it to be delivered, it is queued, or a worker is about to remove
\* the finalizer from the newest version. Dropping it after maxRetries never loses it.
DeletionRemembered ==
  \A a \in Key :
    budget["faults"] = Budget["faults"] /\ Exists(a) /\ server[a].deleting =>
      \/ watch[a] # << >>
      \/ a \in pending
      \/ \E w \in Worker : holder[w] = a /\ pc[w] = "unfinalize" /\ Fresh(a, obj[w])

\* A sync that works on an outdated object, and may fail and be dropped for it, is not
\* the last one: a later version is still to be delivered, or the Astro is queued.
StaleSyncFollowed ==
  \A w \in Worker, a \in Key :
    holder[w] = a /\ obj[w] # Nothing /\ ~Fresh(a, obj[w]) => watch[a] # << >> \/ a \in pending

\* A Deployment of the Astro that is stored as a is not available.
Unready(a) ==
  \E s \in Star :
    /\ deploys[s] # Nothing
    /\ deploys[s].owner = OwnerOf(a, server[a])
    /\ deploys[s].health # "available"

\* As long as no request fails, an Astro whose Deployments all get available is not left
\* in phase Initialized, whichever of them was already counted as not ready: an event
\* or a version is to be handled, it is queued, or a sync of the stored version goes on.
ReadinessNoticed ==
  \A a \in Key :
    /\ budget["faults"] = Budget["faults"]
    /\ PhaseIn(a, {"Initialized"})
    /\ ~server[a].deleting
    /\ ~Unready(a)
    => \/ watch[a] # << >> \/ a \in events \/ a \in pending
       \/ \E w \in Worker :
            holder[w] = a /\ pc[w] \in {"count", "status"} /\ Fresh(a, obj[w])

\* What a user sees of an Astro. The launch counts if it ran on its own engine.
LifeOf(a) ==
  [phase |-> server[a].status.phase,
   finalizer |-> server[a].finalizer,
   deleting |-> server[a].deleting,
   launched |-> /\ engines[a] # Nothing
                /\ engines[a].owner = OwnerOf(a, server[a])
                /\ engines[a].runs > 0]

Promise == INSTANCE AstroPromise
             WITH life <- [a \in Key |-> IF Exists(a) THEN LifeOf(a) ELSE Nothing]

\* The controller implements AstroPromise, in external mode: whatever syncs do with
\* stale and mutated objects, what users see of an Astro is one of its lives.
KeepsPromise == Promise!PromiseSpec

-----------------------------------------------------------------------------
(* What the safety properties rest on *)

\* A worker that is not free has a key that no other worker has, and an aliased
\* object is the cached one.
HolderInv ==
  /\ \A w \in Worker : pc[w] = "free" <=> holder[w] = NoKey
  /\ \A v, w \in Worker : holder[v] = holder[w] /\ holder[v] # NoKey => v = w
  /\ \A w \in Worker : pc[w] \in Calls => obj[w] # Nothing
  /\ \A w \in Worker : alias[w] => obj[w] # Nothing /\ cache[holder[w]] = obj[w]

\* Where a worker is in a sync says which phase its object has.
PhaseAt(label) ==
  CASE label \in {"stars", "service"} -> {"Unset"}
    [] label = "count" -> {"Initialized"}
    [] label \in {"read-service", "create-port", "read-engine"} -> {"Waited"}
    [] label \in {"read-endpoint", "launch"} -> {"Ready"}
    [] label = "status" -> Phase \ {"Unset"}
    [] OTHER -> Phase

SyncInv ==
  \A w \in Worker :
    /\ obj[w] # Nothing => obj[w].status.phase \in PhaseAt(pc[w])
    /\ pc[w] \in Calls \ {"unfinalize"} => obj[w].finalizer /\ ~obj[w].deleting
    /\ pc[w] = "unfinalize" => obj[w].deleting

\* A loop is at a position of its list, or just past it.
LoopInv ==
  \A w \in Worker :
    /\ pc[w] \in {"stars", "service", "count", "read-service"} => idx[w] >= 1
    /\ pc[w] = "service" => idx[w] <= Len(obj[w].stars)

\* The inductive invariant.
IInv == TypeOK /\ HolderInv /\ SyncInv /\ LoopInv /\ FinalizerBeforeStatus /\ VersionsAgree

-----------------------------------------------------------------------------
(* Statements of the repository that the code does not keep *)

\* The comment in syncUpdate: an Astro in the waiting state joins the queue again.
WaitedJoinsAgain ==
  \A a \in Key :
    cache[a] # Nothing /\ ~cache[a].deleting /\ cache[a].status.phase = "Waited"
      => a \in pending \/ watch[a] # << >> \/ \E w \in Worker : holder[w] = a

\* The README: the controller creates a Deployment for each node of a workflow.
EveryStarDeployed ==
  \A a \in Key : \A s \in Star :
    Exists(a) /\ (\E i \in 1..Len(server[a].stars) : server[a].stars[i] = s)
      ~> ~Exists(a) \/ server[a].deleting \/ deploys[s] # Nothing
=============================================================================
