---------------------------- MODULE AstroController ----------------------------
(***************************************************************************)
(* The Astro controller: the cache behind its lister, the handlers of the  *)
(* informers, the work queue (as WorkSet, which AstroQueue implements) and *)
(* the workers that run syncAstro, one action for every call they make to  *)
(* the API server or to the workflow engine.                               *)
(*                                                                         *)
(* A worker holds the very object the cache holds: what syncAstro assigns  *)
(* to it is seen by later syncs, until the watch replaces the object.      *)
(***************************************************************************)
EXTENDS AstroCluster

CONSTANTS
  Worker, NoKey, MaxRetries,
  External,      \* runningMode is "external"
  PromptWatch    \* syncs start only when the Astro informer has caught up

ASSUME ControllerAssumption ==
  /\ NoKey \notin Key
  /\ MaxRetries \in Nat
  /\ External \in BOOLEAN
  /\ PromptWatch \in BOOLEAN

VARIABLES
  cache,       \* cache[a]: what the Astro lister returns for a, or Nothing
  pending, holder, requeues,                  \* the work queue
  pc,          \* pc[w]: the next thing worker w does
  obj,         \* obj[w]: the object astro points to in w's sync function
  alias,       \* alias[w]: the cache still holds that object
  idx,         \* idx[w]: the position of a loop over stars or references
  ready,       \* ready[w]: readyNode in syncUpdate
  url          \* internal mode: whose engine the URL of the shared agent leads to

workVars == <<pending, holder, requeues>>
syncVars == <<pc, obj, alias, idx, ready>>
controllerVars == <<cache, workVars, syncVars, url>>
vars == <<clusterVars, controllerVars>>

W == INSTANCE WorkSet

Calls == {"stars", "service", "unfinalize", "status", "count", "read-service",
          "create-port", "read-engine", "read-endpoint", "launch"}

ControllerTypeOK ==
  /\ cache \in [Key -> Astro \cup {Nothing}]
  /\ W!WorkTypeOK
  /\ pc \in [Worker -> Calls \cup {"free", "return", "error"}]
  /\ obj \in [Worker -> Astro \cup {Nothing}]
  /\ alias \in [Worker -> BOOLEAN]
  /\ idx \in [Worker -> Nat]
  /\ ready \in [Worker -> Nat]
  /\ url \in Key \cup {NoKey}

ControllerInit ==
  /\ cache = [a \in Key |-> Nothing]
  /\ W!WorkInit
  /\ pc = [w \in Worker |-> "free"]
  /\ obj = [w \in Worker |-> Nothing]
  /\ alias = [w \in Worker |-> FALSE]
  /\ idx = [w \in Worker |-> 0]
  /\ ready = [w \in Worker |-> 0]
  /\ url = NoKey

-----------------------------------------------------------------------------
(* Informers and their handlers *)

QueueVersionBug(a) == IF cache[a] = Nothing THEN W!Enqueue(a) ELSE UNCHANGED workVars

QueueVersion(a) == W!Enqueue(a)

\* addAstro, updateAstro and deleteAstro: the next version replaces the cached
\* object and the Astro is queued. The versions of a watch differ, and a resync
\* is the update from a version to itself that updateAstro ignores.
Deliver(a) ==
  /\ watch[a] # << >>
  /\ cache' = [cache EXCEPT ![a] = Head(watch[a])]
  /\ watch' = [watch EXCEPT ![a] = Tail(@)]
  /\ alias' = [w \in Worker |-> alias[w] /\ holder[w] # a]
  /\ QueueVersion(a)
  /\ UNCHANGED <<server, rev, dependentVars, events, budget, pc, obj, idx, ready, url>>

HandleObjectBug(a) ==
  /\ a \in events
  /\ events' = events \ {a}
  /\ IF cache[a] # Nothing /\ \A w \in Worker : holder[w] # a THEN W!Enqueue(a)
                                                            ELSE UNCHANGED workVars
  /\ UNCHANGED <<astroVars, dependentVars, budget, cache, syncVars, url>>

\* An event of a dependent queues its owner, if the lister knows the name.
HandleObject(a) ==
  /\ a \in events
  /\ events' = events \ {a}
  /\ \/ cache[a] # Nothing /\ W!Enqueue(a)
     \/ cache[a] = Nothing /\ UNCHANGED workVars
  /\ UNCHANGED <<astroVars, dependentVars, budget, cache, syncVars, url>>

\* The process is started again: it lists what there is before a worker starts.
Restart ==
  /\ Spend("crashes")
  /\ cache' = server
  /\ watch' = [a \in Key |-> << >>]
  /\ LET listed == {a \in Key : Exists(a)} IN
       /\ pending' = listed
       /\ requeues' = [a \in Key |-> IF a \in listed /\ MaxRetries > 0 THEN 1 ELSE 0]
  /\ events' = {a \in Key : \/ \E s \in Star : \/ deploys[s] # Nothing /\ deploys[s].owner.name = a
                                               \/ services[s] # Nothing /\ services[s].name = a
                            \/ ports[a] # Nothing}
  /\ holder' = [w \in Worker |-> NoKey]
  /\ pc' = [w \in Worker |-> "free"]
  /\ obj' = [w \in Worker |-> Nothing]
  /\ alias' = [w \in Worker |-> FALSE]
  /\ idx' = [w \in Worker |-> 0]
  /\ ready' = [w \in Worker |-> 0]
  /\ url' = NoKey
  /\ UNCHANGED <<server, rev, dependentVars>>

-----------------------------------------------------------------------------
(* Parts of a sync. A definition named ...Bug is not part of the           *)
(* specification: it is the definition below it with a plausible mistake,  *)
(* which a property of a run must notice.                                  *)

\* An assignment through the pointer: the cache sees it as long as it shares
\* the object.
Assign(w, astro) ==
  /\ obj' = [obj EXCEPT ![w] = astro]
  /\ cache' = IF alias[w] THEN [cache EXCEPT ![holder[w]] = astro] ELSE cache
  /\ UNCHANGED alias

GoTo(w, label) == pc' = [pc EXCEPT ![w] = label]

Loop(w, label) ==
  /\ GoTo(w, label)
  /\ idx' = [idx EXCEPT ![w] = 1]

NextTurn(w, label) ==
  /\ GoTo(w, label)
  /\ idx' = [idx EXCEPT ![w] = @ + 1]

Keep == UNCHANGED <<idx, ready>>

Same == UNCHANGED <<cache, obj, alias>>

\* return err
Fail(w) ==
  /\ GoTo(w, "error")
  /\ Same
  /\ Keep

\* A request was carried out but the answer is an error, a timeout for one.
ReplyLost(w) ==
  /\ Spend("faults")
  /\ Fail(w)

\* syncStatus: nothing to do, or the new status is assigned and then sent.
SyncStatus(w, newStatus) ==
  \/ /\ newStatus = obj[w].status
     /\ GoTo(w, "return")
     /\ Same
  \/ /\ newStatus # obj[w].status
     /\ GoTo(w, "status")
     /\ Assign(w, [obj[w] EXCEPT !.status = newStatus])

Self(w) == OwnerOf(holder[w], obj[w])

\* processNextWorkItem takes a and syncAstro reads it from the lister.
Start(w, a) ==
  /\ PromptWatch => watch[a] = << >>
  /\ W!Take(w, a)
  /\ UNCHANGED clusterVars

\* The object the lister returned is what the sync function works on.
Hold(w, astro) ==
  /\ obj' = [obj EXCEPT ![w] = astro]
  /\ alias' = [alias EXCEPT ![w] = TRUE]

-----------------------------------------------------------------------------
(* syncAstro: the dispatch on what the lister returns *)

SyncGone(w, a) ==
  /\ Start(w, a)
  /\ cache[a] = Nothing
  /\ GoTo(w, "return")
  /\ Same
  /\ Keep

\* syncDelete removes the finalizer, from the cached object too.
SyncDelete(w, a) ==
  /\ Start(w, a)
  /\ cache[a] # Nothing
  /\ cache[a].deleting
  /\ LET astro == [cache[a] EXCEPT !.finalizer = FALSE] IN
       /\ cache' = [cache EXCEPT ![a] = astro]
       /\ Hold(w, astro)
  /\ GoTo(w, "unfinalize")
  /\ Keep

FinalizedBug(astro) == astro

Finalized(astro) == [astro EXCEPT !.finalizer = TRUE]

\* syncCreate adds the finalizer, to the cached object too, before anything else.
SyncCreate(w, a) ==
  /\ Start(w, a)
  /\ cache[a] # Nothing
  /\ ~cache[a].deleting
  /\ ~cache[a].finalizer
  /\ LET astro == Finalized(cache[a]) IN
       /\ cache' = [cache EXCEPT ![a] = astro]
       /\ Hold(w, astro)
  /\ Loop(w, "stars")
  /\ UNCHANGED ready

UpdateStart(w, a, phases) ==
  /\ Start(w, a)
  /\ cache[a] # Nothing
  /\ ~cache[a].deleting
  /\ cache[a].finalizer
  /\ cache[a].status.phase \in phases
  /\ Hold(w, cache[a])
  /\ UNCHANGED cache

SyncInitialized(w, a) ==
  /\ UpdateStart(w, a, {"Initialized"})
  /\ Loop(w, "count")
  /\ ready' = [ready EXCEPT ![w] = 0]

SyncWaited(w, a) ==
  /\ UpdateStart(w, a, {"Waited"})
  /\ \/ ~cache[a].status.astermuleRef /\ Loop(w, "read-service")
     \/ cache[a].status.astermuleRef /\ GoTo(w, "read-engine") /\ UNCHANGED idx
  /\ UNCHANGED ready

SyncReady(w, a) ==
  /\ UpdateStart(w, a, {"Ready"})
  /\ GoTo(w, "read-endpoint")
  /\ Keep

\* The cases with no code, and the phases without a case: the status is the
\* same and syncStatus returns.
SyncSettled(w, a) ==
  /\ UpdateStart(w, a, {"Unset", "DeployFailed", "EngineFailed", "Success", "Wrong"})
  /\ GoTo(w, "return")
  /\ Keep

Dispatch(w, a) ==
  /\ \/ SyncGone(w, a) \/ SyncDelete(w, a) \/ SyncCreate(w, a)
     \/ SyncInitialized(w, a) \/ SyncWaited(w, a) \/ SyncReady(w, a) \/ SyncSettled(w, a)
  /\ UNCHANGED url

-----------------------------------------------------------------------------
(* syncCreate: the loop over the stars, then Update and syncStatus *)

StarsLeftBug(w) == idx[w] < Len(obj[w].stars)

StarsLeft(w) == idx[w] <= Len(obj[w].stars)

DeploymentExistsBug(w) ==
  /\ Assign(w, [obj[w] EXCEPT !.status.deploymentRef = Append(@, obj[w].stars[idx[w]])])
  /\ GoTo(w, "service")
  /\ Keep

DeploymentExists(w) == Fail(w)

\* newDeployment; the reference is appended to the status of the cached object.
NewDeployment(w) ==
  /\ pc[w] = "stars"
  /\ StarsLeft(w)
  /\ LET s == obj[w].stars[idx[w]] IN
       \/ /\ deploys[s] = Nothing
          /\ CreateDeployment(s, Self(w))
          /\ \/ /\ Assign(w, [obj[w] EXCEPT !.status.deploymentRef = Append(@, s)])
                /\ GoTo(w, "service")
                /\ Keep
                /\ UNCHANGED budget
             \/ ReplyLost(w)
       \/ /\ deploys[s] # Nothing
          /\ DeploymentExists(w)
          /\ UNCHANGED <<dependentVars, events, budget>>
  /\ UNCHANGED <<astroVars, workVars>>

NewService(w) ==
  /\ pc[w] = "service"
  /\ LET s == obj[w].stars[idx[w]] IN
       \/ /\ services[s] = Nothing
          /\ CreateService(s, Self(w))
          /\ \/ /\ Assign(w, [obj[w] EXCEPT !.status.serviceRef = Append(@, s)])
                /\ NextTurn(w, "stars")
                /\ UNCHANGED <<ready, budget>>
             \/ ReplyLost(w)
       \/ /\ services[s] # Nothing
          /\ Fail(w)
          /\ UNCHANGED <<dependentVars, events, budget>>
  /\ UNCHANGED <<astroVars, workVars>>

\* Update, and the assignments up to UpdateStatus: astro is the object that the
\* server returned now, and no longer the cached one.
UpdateAstro(w) ==
  /\ pc[w] = "stars"
  /\ ~StarsLeft(w)
  /\ LET a == holder[w]
         newStatus == [obj[w].status EXCEPT !.phase = "Initialized", !.readyNodeNumber = 0,
                         !.nodeNumber = Len(obj[w].status.deploymentRef)]
     IN
       \/ /\ Update(a, obj[w])
          /\ \/ /\ obj' = [obj EXCEPT ![w] = [server'[a] EXCEPT !.status = newStatus]]
                /\ alias' = [alias EXCEPT ![w] = FALSE]
                /\ GoTo(w, IF server'[a].status = newStatus THEN "return" ELSE "status")
                /\ Keep
                /\ UNCHANGED <<cache, budget>>
             \/ ReplyLost(w)
       \/ /\ ~Fresh(a, obj[w])
          /\ Fail(w)
          /\ UNCHANGED <<astroVars, budget>>
  /\ UNCHANGED <<dependentVars, events, workVars>>

\* The request of syncStatus.
WriteStatus(w) ==
  /\ pc[w] = "status"
  /\ \/ /\ UpdateStatus(holder[w], obj[w])
        /\ \/ GoTo(w, "return") /\ Same /\ Keep /\ UNCHANGED budget
           \/ ReplyLost(w)
     \/ /\ ~Fresh(holder[w], obj[w])
        /\ Fail(w)
        /\ UNCHANGED <<astroVars, budget>>
  /\ UNCHANGED <<dependentVars, events, workVars>>

\* The Update of syncDelete.
RemoveFinalizer(w) ==
  /\ pc[w] = "unfinalize"
  /\ \/ /\ Update(holder[w], obj[w])
        /\ \/ GoTo(w, "return") /\ Same /\ Keep /\ UNCHANGED budget
           \/ ReplyLost(w)
     \/ /\ ~Fresh(holder[w], obj[w])
        /\ Fail(w)
        /\ UNCHANGED <<astroVars, budget>>
  /\ UNCHANGED <<dependentVars, events, workVars>>

-----------------------------------------------------------------------------
(* syncUpdate in phase Initialized: the loop that counts ready nodes *)

Left(w, refs) == idx[w] <= Len(refs)

CountDeployment(w) ==
  /\ pc[w] = "count"
  /\ Left(w, obj[w].status.deploymentRef)
  /\ LET d == deploys[obj[w].status.deploymentRef[idx[w]]] IN
       \/ /\ d # Nothing
          /\ ready' = [ready EXCEPT ![w] = IF d.health = "available" THEN @ + 1 ELSE @]
          /\ NextTurn(w, "count")
          /\ Same
       \/ d = Nothing /\ Fail(w)
  /\ UNCHANGED <<clusterVars, workVars>>

AllReadyBug(w) == ready[w] + 1 >= obj[w].status.nodeNumber

AllReady(w) == ready[w] = obj[w].status.nodeNumber

CountDone(w) ==
  /\ pc[w] = "count"
  /\ ~Left(w, obj[w].status.deploymentRef)
  /\ SyncStatus(w, [obj[w].status EXCEPT !.readyNodeNumber = ready[w],
                                         !.phase = IF AllReady(w) THEN "Waited" ELSE @])
  /\ Keep
  /\ UNCHANGED <<clusterVars, workVars>>

-----------------------------------------------------------------------------
(* syncUpdate in phase Waited: newAstermule, or the state of the engine *)

\* The Service of a star becomes a node of the workflow.
ReadService(w) ==
  /\ pc[w] = "read-service"
  /\ Left(w, obj[w].status.serviceRef)
  /\ LET service == services[obj[w].status.serviceRef[idx[w]]] IN
       \/ service # Nothing /\ NextTurn(w, "read-service") /\ Same /\ UNCHANGED ready
       \/ service = Nothing /\ Fail(w)
  /\ UNCHANGED <<clusterVars, workVars>>

StillWaitedBug(w) == UNCHANGED workVars

\* Pods are not watched: the Astro joins the queue again.
StillWaited(w) == W!Enqueue(holder[w])

AstermuleStarted(w) ==
  /\ StillWaited(w)
  /\ SyncStatus(w, [obj[w].status EXCEPT !.astermuleRef = TRUE])
  /\ Keep

EngineExistsBug(w) ==
  /\ GoTo(w, IF External THEN "create-port" ELSE "return")
  /\ Same
  /\ Keep

EngineExists(w) == Fail(w)

NewAstermule(w) ==
  /\ pc[w] = "read-service"
  /\ ~Left(w, obj[w].status.serviceRef)
  /\ \/ /\ engines[holder[w]] = Nothing
        /\ CreateEngine(holder[w], Self(w), obj[w].status.serviceRef)
        /\ \/ /\ External
              /\ GoTo(w, "create-port")
              /\ Same
              /\ Keep
              /\ UNCHANGED <<workVars, budget>>
           \/ ~External /\ AstermuleStarted(w) /\ UNCHANGED budget
           \/ ReplyLost(w) /\ UNCHANGED workVars
     \/ /\ engines[holder[w]] # Nothing
        /\ EngineExists(w)
        /\ UNCHANGED <<workVars, dependentVars, events, budget>>
  /\ UNCHANGED astroVars

NewPort(w) ==
  /\ pc[w] = "create-port"
  /\ \/ /\ ~PortTaken
        /\ CreatePort(holder[w], Self(w))
        /\ \/ AstermuleStarted(w) /\ UNCHANGED budget
           \/ ReplyLost(w) /\ UNCHANGED workVars
     \/ /\ PortTaken
        /\ Fail(w)
        /\ UNCHANGED <<workVars, dependentVars, events, budget>>
  /\ UNCHANGED astroVars

EnginePhaseOfBug(pod) == pod

EnginePhaseOfBackBug(pod) ==
  CASE pod = "running" -> "Ready" [] pod = "failed" -> "EngineFailed" [] OTHER -> "Initialized"

EnginePhaseOf(pod) ==
  CASE pod = "running" -> "Ready" [] pod = "failed" -> "EngineFailed" [] OTHER -> "Waited"

ReadEngine(w) ==
  /\ pc[w] = "read-engine"
  /\ LET pod == engines[holder[w]] IN
       \/ /\ pod # Nothing
          /\ StillWaited(w)
          /\ SyncStatus(w, [obj[w].status EXCEPT !.phase = EnginePhaseOf(pod.phase)])
          /\ Keep
       \/ pod = Nothing /\ Fail(w) /\ UNCHANGED workVars
  /\ UNCHANGED clusterVars

-----------------------------------------------------------------------------
(* syncUpdate in phase Ready: the launch of the workflow *)

\* agent.Get(url) sets the URL of the one agent that all workers share; in
\* external mode it is the same for all.
ReadEndpoint(w) ==
  /\ pc[w] = "read-endpoint"
  /\ LET endpoint == IF External THEN ports[holder[w]] ELSE engines[holder[w]] IN
       \/ /\ endpoint # Nothing
          /\ url' = IF External THEN url ELSE holder[w]
          /\ GoTo(w, "launch")
          /\ Same
          /\ Keep
       \/ endpoint = Nothing /\ Fail(w) /\ UNCHANGED url
  /\ UNCHANGED <<clusterVars, workVars>>

TargetBug(w) == Key

\* Who answers the request of agent.End(): whoever has the node port, or the pod
\* that the agent's URL leads to by now.
Target(w) == IF External THEN {a \in Key : ports[a] # Nothing} ELSE {url} \ {NoKey}

Running(a) == engines[a] # Nothing /\ engines[a].phase = "running"

LaunchErrorBug(w) == SyncStatus(w, [obj[w].status EXCEPT !.phase = "Wrong"]) /\ Keep

LaunchError(w) == Fail(w)

ReportedBug == {"Success", "Ready"}

\* Health of the reply; a body that is no Message counts as not healthy.
Reported == {"Success", "Wrong"}

Launch(w) ==
  /\ pc[w] = "launch"
  /\ \/ /\ \E a \in Target(w) : Running(a) /\ RunEngine(a)
        /\ \/ /\ \E p \in Reported : SyncStatus(w, [obj[w].status EXCEPT !.phase = p])
              /\ Keep
              /\ UNCHANGED budget
           \/ ReplyLost(w)
     \/ /\ \A a \in Target(w) : ~Running(a)
        /\ LaunchError(w)
        /\ UNCHANGED <<dependentVars, events, budget>>
  /\ UNCHANGED <<astroVars, workVars>>

-----------------------------------------------------------------------------
(* The end of a sync, and the specification *)

\* A request that does not reach the server.
CallFails(w) ==
  /\ pc[w] \in Calls
  /\ pc[w] = "count" => Left(w, obj[w].status.deploymentRef)
  /\ ReplyLost(w)
  /\ UNCHANGED <<astroVars, dependentVars, events, workVars, url>>

Free(w) ==
  /\ GoTo(w, "free")
  /\ obj' = [obj EXCEPT ![w] = Nothing]
  /\ alias' = [alias EXCEPT ![w] = FALSE]
  /\ idx' = [idx EXCEPT ![w] = 0]
  /\ ready' = [ready EXCEPT ![w] = 0]
  /\ UNCHANGED <<clusterVars, cache>>

\* handleErr(nil, key) and Done.
Return(w) ==
  /\ pc[w] = "return"
  /\ W!Succeed(w)
  /\ Free(w)

\* handleErr(err, key) and Done. An error that says the namespace is being terminated,
\* which is forgotten like a success, does not come up: the namespace stays.
HandleErr(w) ==
  /\ pc[w] = "error"
  /\ \/ requeues[holder[w]] < MaxRetries /\ W!Retry(w)
     \/ requeues[holder[w]] >= MaxRetries /\ W!Drop(w)
  /\ Free(w)

Work(w) ==
  \/ ReadEndpoint(w)
  \/ /\ \/ NewDeployment(w) \/ NewService(w) \/ UpdateAstro(w) \/ WriteStatus(w)
        \/ RemoveFinalizer(w)
        \/ CountDeployment(w) \/ CountDone(w)
        \/ ReadService(w) \/ NewAstermule(w) \/ NewPort(w) \/ ReadEngine(w)
        \/ Launch(w)
        \/ Return(w) \/ HandleErr(w)
     /\ UNCHANGED url

Controller ==
  \/ \E a \in Key : Deliver(a) \/ HandleObject(a)
  \/ \E w \in Worker, a \in Key : Dispatch(w, a)
  \/ \E w \in Worker : Work(w) \/ CallFails(w)
  \/ Restart

Init == ClusterInit /\ ControllerInit

Next ==
  \/ Environment /\ UNCHANGED controllerVars
  \/ Controller

\* Informers deliver what they have, the queue hands every due key to a worker
\* (EventuallySynced of AstroQueue), and every request is answered.
ControllerFairness ==
  /\ \A a \in Key : /\ WF_vars(Deliver(a))
                    /\ WF_vars(HandleObject(a))
                    /\ WF_vars(\E w \in Worker : Dispatch(w, a))
  /\ \A w \in Worker : WF_vars(Work(w))

Spec == Init /\ [][Next]_vars
FairSpec == Spec /\ EnvironmentFairness /\ ControllerFairness
=============================================================================
